SPECIFICATION Spec
CONSTANTS
  p1 = p1
  Interval = 1
  UsageLimit = 1
  Plans <- OnePlan
  PlanSettings <- ReviewedPlans
  Depth = 1
  MountAt = 0
  CoverDepth = 0
  MaxMounts = 0
  ModeChanges = TRUE
  MaxJobs = 2
  MaxTimers = 1
INVARIANTS
  BusyHasCause
  
PROPERTY ChangesAsSeen
