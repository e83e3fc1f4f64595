SPECIFICATION FairSpec
CONSTANTS
  Interval = 1
  UsageLimit = 1
  PlanSettings <- ScheduledPlans
  PathMayBeEmpty = FALSE
  MaxJobs = 1
  MaxSignals = 1
PROPERTIES
  
  UsageDroppedOnlyWithRecord
