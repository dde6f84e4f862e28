\* A Build-and-Rank, a rehearsal and a Re-Rank, without faults.
CONSTANTS
  a1 = a1
  a2 = a2
  b = b
  c = c
  d = d
  A = A
  B = B
  C = C
  D = D
  Initial = Initial
  Other = Other
  Nobody = Nobody
  Launches <- RehearseAndRerank
  Runs <- RunsOfLaunches
  RunOf <- RunOfLaunches
  LockDir <- OneLockDir
  DryRuns <- OnlyD
  BuildAndRank <- AllBuildAndRank
  MaxOutside = 0
  MaxKills = 0
SPECIFICATION SmoothSpec
CHECK_DEADLOCK FALSE
INVARIANTS
  OnlyGatedBoardsArePublic
  NoGateRefuses
PROPERTIES
  EveryLaunchCompletes
