SPECIFICATION SlaveSpec
CONSTANTS
  Trees <- LongTrees
  Blobs <- LongBlobs
  Root = "root"
  Kids <- LongKids
  Start <- LongStart
  Length <- LongLength
  UintSize = 4
  ReadSizes <- Sizes
  SeekOffsets <- Within
INVARIANT DataInOrder
