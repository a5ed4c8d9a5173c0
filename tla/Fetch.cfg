CONSTANTS
  None = None
  Worlds <- AllWorlds
  Packs <- AllPacks
  Jobs <- AllJobs
SPECIFICATION Spec
INVARIANTS TypesOK CountIsExact CommonIsShared FetchLeavesNoGaps PacksAreExact DeltasAreResolved
PROPERTIES TraversalEnds BranchesKeepCommits RefsKeepResolving
\* A fetch ends.
CHECK_DEADLOCK FALSE
