SPECIFICATION Spec
CONSTANTS
  Dirs <- Tree
  Links <- OneLink
  Unreadable <- Private
  SavedSelections <- Saved
  MaxSignals = 3
  MaxScans = 1
  MaxReports = 1
INVARIANTS ScannerInStep FindsOnlyInSelection  
PROPERTIES CheckBoxMeansSubtree
CHECK_DEADLOCK FALSE
