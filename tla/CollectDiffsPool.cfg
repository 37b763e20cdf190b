SPECIFICATION FairSpec
CONSTANTS
  Count <- MCCount
  workerCount <- MCWorkerCount
  Diffs <- MCDiffs
INVARIANTS
  PoolInv
  ResultsMatchCommits
PROPERTY
  CollectionEnds
CHECK_DEADLOCK FALSE
