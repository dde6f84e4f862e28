-------------------------- MODULE MCStage9Publish ---------------------------
(* Small instances of Stage9Publish: a1 and a2 are Build-and-Rank launches   *)
(* on the same run directory A, b and c two Re-Ranks, each of its own run, d *)
(* a rehearsal of the Re-Rank.                                               *)
EXTENDS Stage9Publish, TLC

CONSTANTS a1, a2, b, c, d, A, B, C, D

RunOfAll == a1 :> A @@ a2 :> A @@ b :> B @@ c :> C @@ d :> D
RunOfLaunches == [l \in Launches |-> RunOfAll[l]]
RunsOfLaunches == {RunOfAll[l] : l \in Launches}
OneLockDir == [r \in Runs |-> "output/crunch_runs"]
AllBuildAndRank == {a1, a2} \cap Launches

RelaunchAndRerank == {a1, a2, b}
RehearseAndRerank == {a1, b, d}
Relaunches == {a1, a2}
Reranks == {b, c}
BuildThenRerank == {a1, b}
Rehearsal == {d}
NoDryRun == {}
OnlyD == {d}
=============================================================================
