SPECIFICATION Spec
CONSTANT
  N <- MCN
INVARIANTS
  BaseIsSharedAncestor
  EmptyOnlyWhenMerged
CHECK_DEADLOCK FALSE
