SPECIFICATION Spec
CONSTANTS
  j1 = j1
  j2 = j2
  Jobs <- TwoJobs
  JobSettings <- AllKinds
INVARIANT NothingAddedUnchecked
PROPERTIES KeepsPromise EveryJobReports
