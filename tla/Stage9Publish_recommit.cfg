\* A Re-Rank whose commit is not pushed, then the next one.
CONSTANTS
  a1 = a1
  a2 = a2
  b = b
  c = c
  d = d
  A = A
  B = B
  C = C
  D = D
  Initial = Initial
  Other = Other
  Nobody = Nobody
  Launches <- Reranks
  Runs <- RunsOfLaunches
  RunOf <- RunOfLaunches
  LockDir <- OneLockDir
  DryRuns <- NoDryRun
  BuildAndRank <- AllBuildAndRank
  MaxOutside = 0
  MaxKills = 1
SPECIFICATION Spec
CHECK_DEADLOCK FALSE
PROPERTIES
  NeverASecondCommit
