\* A launch, its relaunch and a Re-Rank, with faults, a foreign push and an edit.
CONSTANTS
  a1 = a1
  a2 = a2
  b = b
  c = c
  d = d
  A = A
  B = B
  C = C
  D = D
  Initial = Initial
  Other = Other
  Nobody = Nobody
  Launches <- RelaunchAndRerank
  Runs <- RunsOfLaunches
  RunOf <- RunOfLaunches
  LockDir <- OneLockDir
  DryRuns <- NoDryRun
  BuildAndRank <- AllBuildAndRank
  MaxOutside = 1
  MaxKills = 1
SPECIFICATION Spec
CHECK_DEADLOCK FALSE
INVARIANTS
  TypeOK
  UntornBoards
  NoLostUpdate
  OnlyPublicationFiles
  PushesRecordedCommit
  VerifiedWasServed
PROPERTIES
  ImplementsLedger
