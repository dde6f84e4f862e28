\* Three jobs on two processors: serial with and without fail_fast, in a pool, rejected, dry.
CONSTANTS
  r1 = r1
  r2 = r2
  N = 3
  Cpus = 2
  Roots <- TwoRoots
  Requests <- SmallRequests
  NoSidecar = NoSidecar
SPECIFICATION FairSpec
CHECK_DEADLOCK FALSE
INVARIANTS
  TypeOK
  OwnSidecar
  RequiredIsFound
  FreshlyFound
  SkipsAreExplained
PROPERTIES
  EndsWithManifest
