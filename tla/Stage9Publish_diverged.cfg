\* A refused Build-and-Rank, then a foreign push, then a Re-Rank.
CONSTANTS
  a1 = a1
  a2 = a2
  b = b
  c = c
  d = d
  A = A
  B = B
  C = C
  D = D
  Initial = Initial
  Other = Other
  Nobody = Nobody
  Launches <- BuildThenRerank
  Runs <- RunsOfLaunches
  RunOf <- RunOfLaunches
  LockDir <- OneLockDir
  DryRuns <- NoDryRun
  BuildAndRank <- AllBuildAndRank
  MaxOutside = 1
  MaxKills = 1
SPECIFICATION Spec
CHECK_DEADLOCK FALSE
PROPERTIES
  PreflightRefusesDiverged
