SPECIFICATION Spec
CONSTANTS
  NumTargets = 2
  MaxJobs = 2
  Configs <- Dynamic
  Listings <- Sorted
INVARIANT
  PlanIsConsumed
CHECK_DEADLOCK FALSE
