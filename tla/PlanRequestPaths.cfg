SPECIFICATION MCSpec
CONSTANTS
  Names <- MCNames
  Targets <- MCTargets
  LocationPrefixes <- MCPrefixes
  RefSets <- MCRefSets
  Candidates <- MCCandidates
  Remotes = {"", "origin"}
INVARIANTS
  EveryTargetOnce
  ExamplesAreTheServers
  MetadataInv
  RunsWhatWasFound
CHECK_DEADLOCK FALSE
