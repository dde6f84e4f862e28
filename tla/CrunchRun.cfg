\* Launches on two run directories; two secondaries, one of which is rebuilt; two tickers.
CONSTANTS
  Runs <- SmallRuns
  Dirs <- SmallDirs
  Members = {a, b}
  Secs = {s, t}
  Rebuild = {s}
  Carried = {a}
  MaxKills = 1
  MaxEdits = 1
  Ceiling = 50
SPECIFICATION FairSpec
INVARIANTS
  TypeOK
  OneEngine
  OwnStacks
  StacksKept
  ReuseIsEarned
  NothingDroppedSilently
PROPERTIES
  NoLostRow
  LockIsARunLock
  LockComesFree
CHECK_DEADLOCK FALSE
