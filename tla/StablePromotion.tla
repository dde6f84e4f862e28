-------------------------- MODULE StablePromotion ---------------------------
(***************************************************************************)
(* The guarded promotion of staged signal libraries into the production    *)
(* directory signal_library/data/stable: the planner                       *)
(* signal_library_stable_promotion_planner.py and the writer               *)
(* signal_library_stable_promotion_writer.py, one copied file per step.    *)
(*                                                                         *)
(* A library is two files, the pickle and the manifest beside it; the      *)
(* manifest is also embedded in the pickle unless the library is a legacy  *)
(* one.  The copies of a promotion are one batch: when one of them fails,  *)
(* what was touched is put back from bytes kept in memory.  A kill keeps   *)
(* nothing, and a restore that fails is passed over in silence.            *)
(***************************************************************************)
EXTENDS Naturals, Sequences

CONSTANTS
  N,         \* the number of libraries asked for, in the order of the plan
  Builds,    \* the contents a library may have
  Sound,     \* those that load and pass the schema check
  Embedded,  \* those whose pickle carries its manifest
  Absent,    \* no file
  MaxChanges, \* how often other programs stage or rebuild a library
  MaxLosses  \* how many restores fail

ASSUME CountsAreCounts == N \in Nat \ {0} /\ MaxChanges \in Nat /\ MaxLosses \in Nat
ASSUME KindsOfBuilds == Sound \subseteq Builds /\ Embedded \subseteq Builds
ASSUME AbsentIsNone == Absent \notin Builds

Libs == 1..N
Files == Libs \X {"pkl", "side"}
Contents == Builds \cup {Absent}
Pkl(l) == <<l, "pkl">>
Side(l) == <<l, "side">>

VARIABLES
  staged,   \* what each staged file holds
  prod,     \* what each production file holds
  pc,       \* the writer's step
  at,       \* the library it copies
  plan,     \* the plan it made: per library the outcome and whether it has a sidecar
  granted,  \* --write, the environment variable and the path guard
  touched,  \* the copies made, with the prior content of each target
  start,    \* ghost: production when the writer was started
  report,   \* the files_added, files_replaced and sidecars_copied of its result
  lost,     \* ghost: how many restores failed
  restaged, \* ghost: the libraries staged since the writer's last look at them
  overlooked, \* ghost: those planned as unchanged that were staged before that look
  changes   \* how often another program has changed something

vars == <<staged, prod, pc, at, plan, granted, touched, start, report, lost, restaged,
          overlooked, changes>>

Outcomes == {"add", "replace", "unchanged", "skip"}
Copying == {"pkl", "side"}
InBatch == Copying \cup {"complete", "rollback"}
NoPlan == [l \in Libs |-> [outcome |-> "skip", side |-> FALSE]]
Nothing == [wrote |-> FALSE, added |-> {}, replaced |-> {}, sides |-> {}]

\* verify_manifest: the embedded manifest is authoritative, the sidecar serves a
\* library without one, and a library with neither is a legacy one, which passes.
Verifies(pkl, side) == pkl # Absent /\ (pkl \in Embedded \/ side \in {pkl, Absent})

\* load_verified_signal_library followed by the schema check.
Loads(files, l) == files[Pkl(l)] \in Sound /\ Verifies(files[Pkl(l)], files[Side(l)])

\* plan_signal_library_stable_promotion for one library.
OutcomeOf(l) ==
  IF ~Loads(staged, l) THEN "skip"
  ELSE IF prod[Pkl(l)] = Absent THEN "add"
  ELSE IF prod[Pkl(l)] = staged[Pkl(l)] THEN "unchanged"
  ELSE "replace"
Planned == [l \in Libs |-> [outcome |-> OutcomeOf(l), side |-> staged[Side(l)] # Absent]]
PlanReady == \A l \in Libs : plan[l].outcome # "skip"

Init == /\ staged \in [Files -> Contents]
        /\ prod \in [Files -> Contents]
        /\ \A l \in Libs : prod[Pkl(l)] = Absent \/ Loads(prod, l)
        /\ pc = "idle" /\ at = 1
        /\ plan = NoPlan /\ granted = FALSE
        /\ touched = <<>> /\ start = prod
        /\ report = Nothing /\ lost = 0
        /\ restaged = {} /\ overlooked = {} /\ changes = 0

-----------------------------------------------------------------------------
\* Another program stages a library, with its sidecar, or without one, at any time.
Stage(l) ==
  /\ changes < MaxChanges
  /\ \E b \in Builds, s \in Contents :
       /\ s \in {b, Absent}
       /\ staged' = [staged EXCEPT ![Pkl(l)] = b, ![Side(l)] = s]
  /\ changes' = changes + 1
  /\ restaged' = restaged \cup {l}
  /\ pc' = IF pc = "reported" THEN "idle" ELSE pc
  /\ UNCHANGED <<prod, at, plan, granted, touched, start, report, lost, overlooked>>

\* An engine rebuilds a production library; its sidecar may fail to be written.
Rebuild(l) ==
  /\ pc \in {"idle", "reported"}
  /\ changes < MaxChanges
  /\ \E b \in Sound, s \in Contents :
       /\ s \in {b, prod[Side(l)]}
       /\ prod' = [prod EXCEPT ![Pkl(l)] = b, ![Side(l)] = s]
  /\ changes' = changes + 1
  /\ pc' = "idle" /\ start' = prod'
  /\ UNCHANGED <<staged, at, plan, granted, touched, report, lost, restaged, overlooked>>

-----------------------------------------------------------------------------
\* The writer plans for itself and never takes a plan from elsewhere.
Plan ==
  /\ pc \in {"idle", "reported"}
  /\ pc' = "planned"
  /\ plan' = Planned
  /\ granted' \in BOOLEAN
  /\ start' = prod
  /\ touched' = <<>> /\ report' = Nothing /\ lost' = 0 /\ at' = 1
  /\ restaged' = {} /\ overlooked' = {}
  /\ UNCHANGED <<staged, prod, changes>>

\* The look at what is staged, which does not plan anew: a library planned as unchanged
\* is passed over, whatever has been staged for it since.
LookedAt == /\ restaged' = {}
            /\ overlooked' = {l \in restaged : plan[l].outcome = "unchanged"}

\* Without the second look of _writer_side_revalidate.
GateOfPlan ==
  /\ pc = "planned"
  /\ pc' = IF granted /\ PlanReady THEN "pkl" ELSE "reported"
  /\ LookedAt
  /\ UNCHANGED <<staged, prod, at, plan, granted, touched, start, report, lost, changes>>

\* The gates: the two keys, the path, the plan, and every staged library once more.
Gate ==
  /\ pc = "planned"
  /\ pc' = IF granted /\ PlanReady /\ \A l \in Libs : Loads(staged, l)
             THEN "pkl" ELSE "reported"
  /\ LookedAt
  /\ UNCHANGED <<staged, prod, at, plan, granted, touched, start, report, lost, changes>>

\* A faulty variant: one library too many.
AdvancePast(l) == IF l <= N THEN pc' = "pkl" /\ at' = l + 1
                  ELSE pc' = "complete" /\ at' = l

\* The next library, or the end of the batch.
Advance(l) == IF l < N THEN pc' = "pkl" /\ at' = l + 1
              ELSE pc' = "complete" /\ at' = l

\* Faulty variants: the prior content is read after the copy; a failed copy goes on
\* with the next library.
CopyThenSnapshot(f) ==
  /\ staged[f] # Absent
  /\ prod' = [prod EXCEPT ![f] = staged[f]]
  /\ touched' = Append(touched, [file |-> f, prior |-> staged[f]])
FailAndGoOn == /\ Advance(at)
               /\ UNCHANGED <<prod, touched, report>>

Copy(f) == /\ staged[f] # Absent
           /\ prod' = [prod EXCEPT ![f] = staged[f]]
           /\ touched' = Append(touched, [file |-> f, prior |-> prod[f]])

\* A copy, or the reading of the prior bytes, fails.
Fail == /\ pc' = "rollback"
        /\ UNCHANGED <<at, prod, touched, report>>

\* A faulty variant: the sidecar's copy is not logged.
CopySideUnlogged ==
  /\ pc = "side"
  /\ \/ /\ staged[Side(at)] # Absent
        /\ prod' = [prod EXCEPT ![Side(at)] = staged[Side(at)]]
        /\ Advance(at)
        /\ report' = [report EXCEPT !.sides = @ \cup {at}]
        /\ UNCHANGED touched
     \/ Fail
  /\ UNCHANGED <<staged, plan, granted, start, lost, restaged, overlooked, changes>>

Logged(l) == IF plan[l].outcome = "add" THEN [report EXCEPT !.added = @ \cup {l}]
             ELSE [report EXCEPT !.replaced = @ \cup {l}]

\* The pickle of a library; an unchanged one is passed over with its sidecar.
CopyPkl ==
  /\ pc = "pkl"
  /\ \/ /\ plan[at].outcome = "unchanged"
        /\ Advance(at)
        /\ UNCHANGED <<prod, touched, report>>
     \/ /\ plan[at].outcome # "unchanged"
        /\ Copy(Pkl(at))
        /\ report' = Logged(at)
        /\ IF plan[at].side THEN pc' = "side" /\ at' = at ELSE Advance(at)
     \/ plan[at].outcome # "unchanged" /\ Fail
  /\ UNCHANGED <<staged, plan, granted, start, lost, restaged, overlooked, changes>>

CopySide ==
  /\ pc = "side"
  /\ \/ /\ Copy(Side(at)) /\ Advance(at)
        /\ report' = [report EXCEPT !.sides = @ \cup {at}]
     \/ Fail
  /\ UNCHANGED <<staged, plan, granted, start, lost, restaged, overlooked, changes>>

Complete ==
  /\ pc = "complete"
  /\ pc' = "reported"
  /\ report' = [report EXCEPT !.wrote = TRUE]
  /\ UNCHANGED <<staged, prod, at, plan, granted, touched, start, lost, restaged,
                 overlooked, changes>>

\* _restore_target of the last target that is still touched; whether the restore
\* worked is not looked at.
Restore ==
  /\ pc = "rollback" /\ touched # <<>>
  /\ LET last == touched[Len(touched)]
     IN  \/ prod' = [prod EXCEPT ![last.file] = last.prior] /\ UNCHANGED lost
         \/ lost < MaxLosses /\ lost' = lost + 1 /\ UNCHANGED prod
  /\ touched' = SubSeq(touched, 1, Len(touched) - 1)
  /\ UNCHANGED <<staged, pc, at, plan, granted, start, report, restaged, overlooked,
                 changes>>

RolledBack ==
  /\ pc = "rollback" /\ touched = <<>>
  /\ pc' = "reported"
  /\ report' = Nothing
  /\ UNCHANGED <<staged, prod, at, plan, granted, touched, start, lost, restaged,
                 overlooked, changes>>

\* The writer is killed: nothing of it remains but what it has written.
Kill ==
  /\ pc \in InBatch
  /\ pc' = "idle"
  /\ touched' = <<>> /\ report' = Nothing /\ plan' = NoPlan /\ granted' = FALSE
  /\ start' = prod /\ at' = 1 /\ lost' = 0
  /\ UNCHANGED <<staged, prod, restaged, overlooked, changes>>

-----------------------------------------------------------------------------
Next == \/ Plan \/ Gate \/ CopyPkl \/ CopySide \/ Complete
        \/ Restore \/ RolledBack \/ Kill
        \/ \E l \in Libs : Stage(l) \/ Rebuild(l)

Spec == Init /\ [][Next]_vars

-----------------------------------------------------------------------------
TypeOK ==
  /\ staged \in [Files -> Contents] /\ prod \in [Files -> Contents]
  /\ start \in [Files -> Contents]
  /\ pc \in {"idle", "planned", "complete", "rollback", "reported"} \cup Copying
  /\ at \in Libs
  /\ plan \in [Libs -> [outcome : Outcomes, side : BOOLEAN]]
  /\ granted \in BOOLEAN
  /\ touched \in Seq([file : Files, prior : Contents])
  /\ report \in [wrote : BOOLEAN, added : SUBSET Libs, replaced : SUBSET Libs,
                 sides : SUBSET Libs]
  /\ restaged \subseteq Libs /\ overlooked \subseteq Libs
  /\ lost \in 0..MaxLosses /\ changes \in 0..MaxChanges

\* A promotion that reports nothing written has left production byte for byte as it
\* found it, wherever in the batch it failed and whatever it had replaced by then; a
\* promotion that reports writes has changed no other file.  A restore that failed
\* is the exception the code makes.
AllOrNothing ==
  pc = "reported" /\ lost = 0 =>
    \A l \in Libs :
      /\ prod[Pkl(l)] # start[Pkl(l)] => l \in report.added \cup report.replaced
      /\ prod[Side(l)] # start[Side(l)] => l \in report.sides

\* After a completed promotion every library asked for is in production as it is
\* staged, the sidecars that the plan copies with it included, with two exceptions: a
\* library staged anew after the last look at it, and one planned as unchanged and staged
\* anew before that look, which is passed over though what is staged for it is no longer
\* what production has.  A library planned as unchanged keeps its pickle, and one without
\* a sidecar to copy its old sidecar; what was added was not there, what was replaced was.
CompleteIsPromoted ==
  pc = "reported" /\ report.wrote =>
    \A l \in Libs :
      LET copied == plan[l].outcome # "unchanged"
      IN  /\ l \notin restaged \cup overlooked =>
               /\ prod[Pkl(l)] = staged[Pkl(l)]
               /\ copied /\ plan[l].side => prod[Side(l)] = staged[Side(l)]
          /\ ~copied => prod[Pkl(l)] = start[Pkl(l)]
          /\ ~(copied /\ plan[l].side) => prod[Side(l)] = start[Side(l)]
          /\ l \in report.added => start[Pkl(l)] = Absent
          /\ l \in report.replaced => start[Pkl(l)] # Absent

\* What a completed promotion has copied loads from production as it loaded from the
\* staging directory: a staged library that turns bad after the plan is not let
\* through.  Left out: a library staged anew after the second look at it, and a legacy
\* library staged without a sidecar, as the production sidecar of its predecessor
\* stays and belies it.
PromotedLoads ==
  pc = "reported" /\ report.wrote =>
    \A l \in (report.added \cup report.replaced) \ restaged :
      prod[Pkl(l)] \in Embedded \/ plan[l].side => Loads(prod, l)

\* What production counts as while a batch is on: what it was, by the log of what has been
\* touched.
Logs(f) == {i \in DOMAIN touched : touched[i].file = f}
Undone == [f \in Files |-> IF Logs(f) # {} THEN touched[CHOOSE i \in Logs(f) : TRUE].prior
                           ELSE prod[f]]

\* The files that the plan replaces: of a library that is unchanged, none.
Wanted == {f \in Files : /\ plan[f[1]].outcome # "unchanged"
                         /\ f[2] = "side" => plan[f[1]].side}

\* A promotion is one replacement of all the files that the plan wants and of no other, or
\* none, though it copies and restores them one by one: only a kill shows some of them
\* replaced, and only a restore that is lost leaves one replaced.
Atomic == INSTANCE AtomicReplace
            WITH Parts <- {"pkl", "side"},
                 files <- IF pc \in InBatch THEN Undone ELSE prod,
                 source <- staged,
                 phase <- IF pc \in Copying \cup {"complete"} THEN "busy"
                          ELSE IF pc = "rollback" THEN "failing" ELSE "open",
                 wanted <- IF pc \in InBatch THEN Wanted ELSE {},
                 moved <- IF pc \in InBatch THEN restaged ELSE {}
ImplementsAtomicReplace == Atomic!Spec
=============================================================================
