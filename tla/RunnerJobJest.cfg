SPECIFICATION SuiteSpec
CONSTANTS
  Tests <- MCTests
  Muted <- MCMuted
  Signals <- MCSignals
  ExitCodes <- MCExitCodes
  Configs <- MCConfigs
  Reports <- MCReports
  FirstReports <- MCFirstReports
  TestWords <- MCTestWords
  CamelWords <- MCCamelWords
  Scenarios <- JestTopLevel
PROPERTY
  RetryReachesFailures
CHECK_DEADLOCK FALSE
