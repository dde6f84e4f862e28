\* A rehearsal alone, with refusals and without a crash or an edit counting.
CONSTANTS
  a1 = a1
  a2 = a2
  b = b
  c = c
  d = d
  A = A
  B = B
  C = C
  D = D
  Initial = Initial
  Other = Other
  Nobody = Nobody
  Launches <- Rehearsal
  Runs <- RunsOfLaunches
  RunOf <- RunOfLaunches
  LockDir <- OneLockDir
  DryRuns <- OnlyD
  BuildAndRank <- AllBuildAndRank
  MaxOutside = 0
  MaxKills = 1
SPECIFICATION Spec
CHECK_DEADLOCK FALSE
INVARIANTS
  OperatorGitNeverNeeded
