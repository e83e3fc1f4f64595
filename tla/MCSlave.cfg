SPECIFICATION SlaveFairSpec
CONSTANTS
  Trees <- UnevenTrees
  Blobs <- UnevenBlobs
  Root = "root"
  Kids <- UnevenKids
  Start <- UnevenStart
  Length <- UnevenLength
  UintSize = 8
  ReadSizes <- Sizes
  SeekOffsets <- Within
INVARIANTS
  DataInOrder
  FinishedIsComplete
PROPERTIES
  EveryCommandAnswered
  KeepsPromise
