\* Two StackBuilder runs, and nothing goes wrong.
CONSTANTS
  Weekdays <- SmallWeekdays
  Bars <- SmallBars
  NK = 2
  NSeeds = 2
  MaxFaults = 0
SPECIFICATION Spec
INVARIANTS
  PicksNewestRun
CHECK_DEADLOCK FALSE
