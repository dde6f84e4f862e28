---------------------------- MODULE RerankDriver -----------------------------
(***************************************************************************)
(* The nightly Re-Rank of rerank_driver.py beside Build-and-Rank: the same *)
(* lock, the same stacks, the same board.  It re-scores the whole board    *)
(* with one lenient k6_recook, halts unless it can account for every       *)
(* secondary, and publishes; it excludes no ticker, looks for no process   *)
(* and never reclaims the lock.                                            *)
(***************************************************************************)
EXTENDS CrunchRun

CONSTANT
  Ceiling  \* --max-quarantine-fraction, in percent

ASSUME CeilingIsPercent == Ceiling \in 1..100

LaunchRerank(r) ==
  /\ Launch(r, FALSE)
  /\ job' = [job EXCEPT ![r] = [NoJob EXCEPT !.kind = "rerank"]]
  /\ UNCHANGED universe

\* parse_recook_outcome: the whole board, or all of it but the quarantined, and the
\* ranking has a row for each of the rest.  That is left to the join if the ranking cannot
\* be read.
Publishable(fate, systemic, readable) ==
  /\ Status(fate, FALSE, systemic) \in {"ok", "partial"}
  /\ readable => Rows(fate) = DOMAIN fate \ Excluded(fate)

WithinCeiling(quarantined, asked) == Cardinality(quarantined) * 100 <= Ceiling * Cardinality(asked)

\* enumerate_board and the one recook: the board is the selection.
RerankRecook(r) ==
  /\ pc[r] = "gates" /\ job[r].kind = "rerank"
  /\ LET asked == {s \in Secs : board[s] # NoBuild} IN
       \E fate \in Fated(asked), systemic, readable \in BOOLEAN :
         IF Publishable(fate, systemic, readable) /\ WithinCeiling(Excluded(fate), asked)
         THEN /\ job' = [job EXCEPT ![r].fresh = Scored(fate),
                                    ![r].listed = Excluded(fate),
                                    ![r].unscored = \E s \in asked : fate[s] = "unscored"]
              /\ Goto(r, "publish")
         ELSE Halt(r) /\ UNCHANGED job
  /\ UNCHANGED <<blocked, lock, engine, artifacts, bounds>>

-----------------------------------------------------------------------------
Steps(r) == Advance(r) \/ RerankRecook(r)

Next == \/ \E r \in Runs : \/ LaunchBuild(r) \/ LaunchRerank(r)
                           \/ Steps(r) \/ Kill(r) \/ Orphan(r)
        \/ Edit

Spec == Init /\ [][Next]_vars

\* A process that runs goes on, and so does an orphan.  Nobody has to launch anything.
FairSpec == Spec /\ \A r \in Runs : WF_vars(Steps(r)) /\ WF_vars(Orphan(r))

-----------------------------------------------------------------------------
Jobs == [kind : {"none", "build", "rerank"}, dir : Dirs \cup {None}, reuse : Dirs \cup {None},
         reclaim : BOOLEAN, excl : SUBSET Members, passes : BOOLEAN,
         listed : SUBSET Secs, fresh : [Secs -> Builds],
         unscored : BOOLEAN, merged : [Secs -> Builds]]

PCs == Working \cup {"idle", "lock", "gates", "release", "ended", "dead"}
Engines == [stage : {"none", "onepass", "impactsearch", "stackbuilder"}, input : SUBSET Members]

TypeOK ==
  /\ blocked \subseteq Members /\ lock \in Runs \cup {None}
  /\ pc \in [Runs -> PCs]
  /\ job \in [Runs -> Jobs]
  /\ engine \in [Runs -> Engines]
  /\ universe \in [Dirs -> SUBSET Members] /\ onepass \in [Dirs -> SUBSET Members]
  /\ refreshed \subseteq Members /\ workbook \in [Secs -> SUBSET Members]
  /\ stack \in [Secs -> Seq(Builds)]
  /\ quarantine \in [Dirs -> [Secs -> Seq(Seq(Builds))]]
  /\ \A d \in Dirs, s \in Secs : Len(quarantine[d][s]) <= 2
  /\ board \in [Secs -> Builds]
  /\ kills \in 0..MaxKills /\ edits \in 0..MaxEdits

\* Two engines never write at once.  The processes are looked at before the lock is taken,
\* and the answer is used after it: the lock sees to it that no engine starts in between,
\* and where it is taken from a dead holder, the orphan that the holder left is seen.
OneEngine == \A q, r \in Runs : engine[q] # NoEngine /\ engine[r] # NoEngine => q = r

\* What a Build-and-Rank run publishes for the secondaries it was to rebuild are its own
\* stacks, and no row of its board has a ticker that was blocked when it started: though
\* another launch may rewrite the run directory's allowed tickers in the middle, the
\* operator edits the list, and the engine of a run that was killed is still writing.
OwnStacks ==
  \A r \in Runs :
    pc[r] = "promote" /\ job[r].kind = "build" =>
      /\ \A s \in Rebuild : job[r].merged[s].by = r
      /\ \A s \in Secs : job[r].merged[s].members \cap job[r].excl = {}

\* "Never deletes": every StackBuilder run there ever was is in its place or in some
\* quarantine, whichever runs halted, were killed or were launched again on the same run
\* directory.
Kept(s, b) == \/ b \in Range(stack[s])
              \/ \E d \in Dirs : \E i \in DOMAIN quarantine[d][s] :
                   b \in Range(quarantine[d][s][i])
StacksKept == \A b \in built : Kept(b.of, b.it)

\* A run that goes on with a prior run's OnePass is over tickers that OnePass has been
\* through, though a later launch on the prior run's directory may have rewritten the
\* file of allowed tickers beside the result.
ReuseIsEarned ==
  \A r \in Runs : pc[r] \in {"stage1", "stage2", "stage3"} /\ job[r].reuse # None =>
                    Members \ job[r].excl \subseteq refreshed

\* Re-Rank publishes only if each secondary of the board has a fresh row or is listed as
\* quarantined: a stack that a halted Build-and-Rank has left in quarantine, or a killed
\* one's StackBuilder without its combo file, of which k6_recook says nothing, stops it,
\* and so it does if the ranking could not be read to be checked against the board.
NothingDroppedSilently ==
  \A r \in Runs : pc[r] = "promote" /\ job[r].kind = "rerank" =>
                    \A s \in Secs : board[s] # NoBuild =>
                      job[r].fresh[s] # NoBuild \/ s \in job[r].listed

\* A publish replaces the rows it has scored and no other: what another run has published
\* since is never put back.
NoLostRow ==
  [][\A s \in Secs : board'[s] # board[s] =>
       \E r \in Runs : pc[r] = "promote" /\ job[r].fresh[s] = board'[s]]_vars

\* The lock of these runs is the one that CrunchLock implements: a run has it from its
\* gates to its release, though runs are killed and reclaimers are turned away.
Lock == INSTANCE RunLock
          WITH Procs <- Runs,
               claim <- {lock} \ {None},
               inside <- {r \in Runs : pc[r] \in Working \cup {"gates", "release"}},
               entitled <- {r \in Runs : job[r].reclaim}
LockIsARunLock == Lock!Spec

\* The lock comes free again, unless its holder was killed.
LockComesFree == []<>(lock = None \/ pc[lock] = "dead")
=============================================================================
