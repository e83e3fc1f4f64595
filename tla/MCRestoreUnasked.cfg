SPECIFICATION FairSpec
CONSTANTS
  d1 = d1
  d2 = d2
  Names = {"home", "other", "source", "new name", "a", "b", "c"}
  Dialogs <- OneDialog
  Versions <- FolderAndFile
  Places <- TwoPlaces
  Home = "home"
  Disks <- AnyDisks
  SecondThoughts = TRUE
  Impatient = FALSE
INVARIANT NothingReplacedUnasked
CHECK_DEADLOCK FALSE
