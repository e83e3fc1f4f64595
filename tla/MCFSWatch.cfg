SPECIFICATION FairSpec
CONSTANTS
  p1 = p1
  Interval = 1
  UsageLimit = 1
  Plans <- OnePlan
  PlanSettings <- PlainPlan
  Depth = 3
  MountAt = 1
  CoverDepth = 1
  MaxMounts = 2
  ModeChanges = FALSE
  MaxJobs = 1
  MaxTimers = 2
INVARIANTS
  NeverBlind
  FolderIsAvailable
PROPERTY FolderIsNoticed
