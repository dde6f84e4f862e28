\* Two runs with --reclaim-stale-lock, used as its message asks, and two without.
CONSTANTS
  p1 = p1
  p2 = p2
  p3 = p3
  p4 = p4
  Pids <- FourPids
  Reclaimers <- TwoReclaimers
  NoFile = NoFile
  Attended = TRUE
SPECIFICATION FairSpec
CHECK_DEADLOCK FALSE
INVARIANTS
  TypeOK
  MutualExclusion
PROPERTIES
  ImplementsRunLock
  AlwaysAnswered
