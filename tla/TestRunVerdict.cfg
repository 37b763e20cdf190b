SPECIFICATION FairSpec
CONSTANTS
  t1 = t1
  t2 = t2
  Tests <- MCTests
  Muted <- MCMuted
  Signals <- MCSignals
  ExitCodes <- MCExitCodes
  Configs <- MCConfigs
  Reports <- MCReports
  FirstReports <- MCFirstReports
INVARIANTS
  JobInv
  NoMissedFailure
  NoFalseAlarm
  PromiseOnlyWhenFinal
  StatisticsAddUp
  OrderlyUploads
PROPERTIES
  RetriesFailuresOnly
  ImplementsRounds
CHECK_DEADLOCK FALSE
