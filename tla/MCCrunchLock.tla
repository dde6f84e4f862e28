--------------------------- MODULE MCCrunchLock -----------------------------
(* A small instance of CrunchLock: four runs, two of them reclaimers.        *)
EXTENDS CrunchLock

CONSTANTS p1, p2, p3, p4

FourPids == {p1, p2, p3, p4}
TwoReclaimers == {p1, p2}
=============================================================================
