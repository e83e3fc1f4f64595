SPECIFICATION Spec
CONSTANTS
  Interval = 1
  UsageLimit = 1
  PlanSettings <- IntervalPlans
  PathMayBeEmpty = FALSE
  MaxJobs = 2
  MaxSignals = 1
INVARIANTS
  HeldDriveIsAvailable
  BusyHasCause
  NeverLockedOut
  
  RecordNeverOverstates
PROPERTY ChangesAsSeen
