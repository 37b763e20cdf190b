SPECIFICATION FairSpec
CONSTANTS
  Commands <- MCCommands
  MaxSignals <- MCMaxSignals
INVARIANTS
  ForwardInv
  OrphanOnlyBeforeNotify
PROPERTY
  ForwardersStop
CHECK_DEADLOCK FALSE
