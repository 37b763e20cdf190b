SPECIFICATION SuiteSpec
CONSTANTS
  Tests <- MCTests
  Muted <- MCMuted
  Signals <- MCSignals
  ExitCodes <- MCExitCodes
  Configs <- MCConfigs
  Reports <- MCReports
  FirstReports <- MCFirstReports
  TestWords <- MCTestWords
  CamelWords <- MCCamelWords
  Scenarios <- MCScenarios
INVARIANTS
  SuiteInv
  FailuresAreNoticed
PROPERTY
  RetryReachesFailures
CHECK_DEADLOCK FALSE
