SPECIFICATION Spec
CONSTANTS
  t1 = t1
  t2 = t2
  Tests <- MCTests
  Muted <- MCMuted
  Signals <- MCSignals
  ExitCodes <- MCExitCodes
  Configs <- MCConfigs
  Reports <- MCReports
  FirstReports <- MCFirstReports
INVARIANT
  SignalPropagated
CHECK_DEADLOCK FALSE
