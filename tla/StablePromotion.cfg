\* Two libraries, one change by another program, one failing restore.
CONSTANTS
  new = new
  legacy = legacy
  bad = bad
  Absent = Absent
  N = 2
  Builds <- SmallBuilds
  Sound <- SoundBuilds
  Embedded <- EmbeddedBuilds
  MaxChanges = 1
  MaxLosses = 1
SPECIFICATION Spec
INVARIANTS
  TypeOK
  AllOrNothing
  CompleteIsPromoted
  PromotedLoads
PROPERTIES
  ImplementsAtomicReplace
