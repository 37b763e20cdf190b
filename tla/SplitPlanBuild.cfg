SPECIFICATION FairSpec
CONSTANTS
  NumTargets = 2
  MaxJobs = 3
  Configs <- MCConfigs
  Listings <- AnyOrder
INVARIANTS
  PlanInv
  CompleteWhenAgreed
  AtMostTwice
  LostOnlyByDisagreement
  CrashOnlyAfterPlannerFallback
PROPERTY
  EveryoneDecides
CHECK_DEADLOCK FALSE
