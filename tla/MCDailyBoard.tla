--------------------------- MODULE MCDailyBoard -----------------------------
(* A small instance of DailyBoard: the weekdays are 2, 3 and 4, the 3rd is a *)
(* holiday; K is 1 or 2.                                                     *)
EXTENDS DailyBoard

SmallWeekdays == 2..4
SmallBars == {1, 2, 4, 5}
=============================================================================
