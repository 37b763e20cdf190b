SPECIFICATION Spec
CONSTANTS
  c1 = c1
  c2 = c2
  c3 = c3
  c4 = c4
  Commits <- MCCommits
  CommitList <- MCCommitList
  fetchChunkSize <- MCChunkSize
INVARIANTS
  FetchInv
  OnlyRefusedAreSkipped
  ArchiveIsFaithful
  DeliveredOnce
PROPERTY
  TarballKeptForRetry
CHECK_DEADLOCK FALSE
