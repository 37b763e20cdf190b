SPECIFICATION FairSpec
CONSTANTS
  Calls <- MCCalls
  Intervals <- MCIntervals
  Resets <- MCResets
INVARIANTS
  CallInv
  TimeoutIsHonest
  OverrunIsOneAttempt
PROPERTIES
  RateLimitRespected
  ImplementsCall
  EveryCallEnds
CHECK_DEADLOCK FALSE
