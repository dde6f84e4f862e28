----------------------------- MODULE MCCrunchRun -----------------------------
(* A small instance of the composition of Build-and-Rank and Re-Rank.        *)
EXTENDS RerankDriver

SmallRuns == 1..3
SmallDirs == 1..2
=============================================================================
