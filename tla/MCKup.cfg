SPECIFICATION FairSpec
CONSTANTS
  a = a
  b = b
  NoPlan = NoPlan
  Plans <- TwoPlans
  MaxNumber = 2
  KeepStatus = FALSE
  MaxBackups = 1
  MaxCalls = 1
  DiscardsOnlyLast = TRUE
INVARIANTS
  RequestIsRemembered
  
  
  
PROPERTIES
  BusyExecutorsAreKept
  
