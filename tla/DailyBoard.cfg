\* Two StackBuilder runs, K = 1 and 2, three weekdays with a holiday, two faults.
CONSTANTS
  Weekdays <- SmallWeekdays
  Bars <- SmallBars
  NK = 2
  NSeeds = 2
  MaxFaults = 2
SPECIFICATION FairSpec
INVARIANTS
  TypeOK
  EligibleIsEarned
  OneVintage
PROPERTIES
  OnlyReadyWrites
  NeverUnmade
  GetsCurrentOrWaits
CHECK_DEADLOCK FALSE
