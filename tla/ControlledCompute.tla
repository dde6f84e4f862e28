------------------------- MODULE ControlledCompute --------------------------
(***************************************************************************)
(* The local job runner controlled_compute.py: a specification of jobs is  *)
(* validated, each job's command runs under a time limit, one after the    *)
(* other or in a pool of worker processes, and a manifest records for each *)
(* job how it ended and which validation sidecar it produced.              *)
(*                                                                         *)
(* A job's sidecar is either expected at an exact path, or discovered: the *)
(* one file under a search root that was not there before the command.     *)
(* The sidecars of every job, of earlier runs and of other programs lie    *)
(* under the same roots, and a command that was given up on may still run. *)
(***************************************************************************)
EXTENDS Naturals, FiniteSets, FiniteSetsExt

CONSTANTS
  N,         \* the number of jobs
  Cpus,      \* os.cpu_count()
  Roots,     \* search roots, and exact paths
  Requests,  \* the requests made: a specification with the command line's options
  NoSidecar  \* no sidecar is recorded

Jobs == 1..N
Earlier == 0      \* the author of what was there before the run
Outside == N + 1  \* another program, during the run

Sidecars == [root : Roots, by : 0..N+1, sound : BOOLEAN]
Looks == {"none", "exact", "search"}
RequestShape ==
  [mode : {"serial", "local_process_pool"}, workers : Nat, maxJobs : Nat,
   failFast : BOOLEAN, dryRun : BOOLEAN, strict : BOOLEAN,
   look : [Jobs -> Looks], root : [Jobs -> Roots], required : [Jobs -> BOOLEAN]]

ASSUME CountsAreCounts == N \in Nat \ {0} /\ Cpus \in Nat \ {0}
ASSUME RootsAreFinite == IsFiniteSet(Roots)
ASSUME RequestsAreShaped == Requests \subseteq RequestShape
ASSUME NoSidecarIsNone == NoSidecar \notin Sidecars

VARIABLES
  spec,      \* the request, which never changes
  phase,     \* "given", "running", "written" or "rejected"
  pc,        \* each job: waiting, running, exited (with 0, not yet judged), done
  before,    \* what a discovering job saw under its root before its command
  result,    \* what is known of each job
  sidecars,  \* the sidecars on disk
  orphans,   \* jobs that were given up on while their command still runs
  exit       \* the exit code of the program

vars == <<spec, phase, pc, before, result, sidecars, orphans, exit>>

Statuses == {"planned", "succeeded", "failed", "timed_out"}
Result(status, sidecar) == [status |-> status, sidecar |-> sidecar]
Bad(j) == result[j].status \in {"failed", "timed_out"}
Under(root) == {s \in sidecars : s.root = root}

\* What validate_compute_job_spec lets pass.
ValidSpec ==
  /\ spec.workers >= 1
  /\ spec.maxJobs = 0 \/ N <= spec.maxJobs
  /\ \A j \in Jobs : spec.required[j] => spec.look[j] # "none"

\* _bound_max_workers; a serial run has one.
Workers == IF spec.mode = "serial" THEN 1 ELSE Min({spec.workers, N, Cpus})

Init == /\ spec \in Requests
        /\ phase = "given"
        /\ pc = [j \in Jobs |-> "waiting"]
        /\ before = [j \in Jobs |-> {}]
        /\ result = [j \in Jobs |-> Result("planned", NoSidecar)]
        /\ sidecars \in SUBSET [root : Roots, by : {Earlier}, sound : {TRUE}]
        /\ orphans = {}
        /\ exit = 9

-----------------------------------------------------------------------------
Busy == {j \in Jobs : pc[j] \in {"running", "exited"}}

\* A faulty variant: only a failure stops the loop, a time limit does not.
StoppedOnFailure ==
  spec.mode = "serial" /\ spec.failFast /\ \E j \in Jobs : result[j].status = "failed"

\* fail_fast of the serial loop; the pool does not have it.
Stopped == spec.mode = "serial" /\ spec.failFast /\ \E j \in Jobs : Bad(j)

\* Candidates of _discover_new_validation_sidecars.
New(j) == Under(spec.root[j]) \ before[j]

\* What the worker records once the command has returned 0: the set of verdicts
\* is a singleton.
JudgedAgainst(j, candidates) ==
  LET unfound == IF spec.required[j] THEN "failed" ELSE "succeeded"
      Of(s) == IF s.sound THEN Result("succeeded", s) ELSE Result("failed", NoSidecar)
  IN  IF spec.look[j] = "none" THEN Result("succeeded", NoSidecar)
      ELSE IF candidates = {} THEN Result(unfound, NoSidecar)
      ELSE IF Cardinality(candidates) > 1 THEN Result("failed", NoSidecar)
      ELSE Of(CHOOSE s \in candidates : TRUE)

\* Faulty variants: the first candidate is taken, the snapshot is not used, and
\* a sidecar that is missing or unsound is passed over.
VerdictFirst(j) ==
  JudgedAgainst(j, IF New(j) = {} THEN {} ELSE {CHOOSE s \in New(j) : TRUE})
VerdictOfAll(j) == JudgedAgainst(j, Under(spec.root[j]))
VerdictLenient(j) ==
  IF New(j) = {} THEN Result("succeeded", NoSidecar)
  ELSE JudgedAgainst(j, IF spec.look[j] = "exact" THEN Under(spec.root[j]) ELSE New(j))

Verdict(j) ==
  JudgedAgainst(j, IF spec.look[j] = "exact" THEN Under(spec.root[j]) ELSE New(j))

-----------------------------------------------------------------------------
Settle(j, r) == /\ pc' = [pc EXCEPT ![j] = "done"]
                /\ result' = [result EXCEPT ![j] = r]

\* load_compute_job_spec and the start of run_controlled_compute: exit code 2, or
\* a dry run, which plans every job and runs none.
Validate ==
  /\ phase = "given"
  /\ IF ~ValidSpec THEN /\ phase' = "rejected"
                        /\ exit' = 2
                        /\ UNCHANGED pc
     ELSE /\ phase' = "running"
          /\ pc' = IF spec.dryRun THEN [j \in Jobs |-> "done"] ELSE pc
          /\ UNCHANGED exit
  /\ UNCHANGED <<spec, before, result, sidecars, orphans>>

\* A worker takes the next job, in the order of the specification, looks at what
\* is under its root and starts the command; the serial loop runs the next job
\* unless it has stopped.
Start(j) ==
  /\ phase = "running"
  /\ pc[j] = "waiting" /\ \A i \in 1..j-1 : pc[i] # "waiting"
  /\ Cardinality(Busy) < Workers
  /\ ~Stopped
  /\ pc' = [pc EXCEPT ![j] = "running"]
  /\ before' = [before EXCEPT ![j] = IF spec.look[j] = "search" THEN Under(spec.root[j])
                                     ELSE {}]
  /\ UNCHANGED <<spec, phase, result, sidecars, orphans, exit>>

\* The serial loop after a failure: the job stays planned.
Skip(j) ==
  /\ phase = "running"
  /\ pc[j] = "waiting" /\ \A i \in 1..j-1 : pc[i] # "waiting"
  /\ Busy = {}
  /\ Stopped
  /\ Settle(j, Result("planned", NoSidecar))
  /\ UNCHANGED <<spec, phase, before, sidecars, orphans, exit>>

\* subprocess.run returns: with a code other than 0, or not at all when the
\* command cannot be started, the job has failed.
Exit(j) ==
  /\ pc[j] = "running"
  /\ \/ pc' = [pc EXCEPT ![j] = "exited"] /\ UNCHANGED result
     \/ Settle(j, Result("failed", NoSidecar))
  /\ UNCHANGED <<spec, phase, before, sidecars, orphans, exit>>

\* A faulty variant: a status of its own, which the totals do not count.
TimeoutKilled(j) ==
  /\ pc[j] = "running"
  /\ Settle(j, Result("killed", NoSidecar))
  /\ orphans' \in {orphans, orphans \cup {j}}
  /\ UNCHANGED <<spec, phase, before, sidecars, exit>>

\* TimeoutExpired: the command is killed, what it has started may go on.
Timeout(j) ==
  /\ pc[j] = "running"
  /\ Settle(j, Result("timed_out", NoSidecar))
  /\ orphans' \in {orphans, orphans \cup {j}}
  /\ UNCHANGED <<spec, phase, before, sidecars, exit>>

\* The worker looks for the sidecar of a command that returned 0.
Judge(j) ==
  /\ pc[j] = "exited"
  /\ Settle(j, Verdict(j))
  /\ UNCHANGED <<spec, phase, before, sidecars, orphans, exit>>

\* A worker process dies: the pool is broken, every job without a result has
\* failed, and the other workers are terminated while their commands go on.
BreakPool ==
  /\ spec.mode = "local_process_pool"
  /\ phase = "running" /\ Busy # {}
  /\ pc' = [j \in Jobs |-> "done"]
  /\ result' = [j \in Jobs |-> IF pc[j] = "done" THEN result[j]
                               ELSE Result("failed", NoSidecar)]
  /\ orphans' = orphans \cup {j \in Jobs : pc[j] = "running"}
  /\ UNCHANGED <<spec, phase, before, sidecars, exit>>

\* A faulty variant: --strict raises before the manifest is written.
WriteManifestUnlessStrict ==
  /\ phase = "running"
  /\ \A j \in Jobs : pc[j] = "done"
  /\ ~(spec.strict /\ \E j \in Jobs : Bad(j))
  /\ phase' = "written" /\ exit' = 0
  /\ UNCHANGED <<spec, pc, before, result, sidecars, orphans>>

\* The manifest is written when every job has its result; --strict turns a failed
\* or timed-out job into exit code 1.
WriteManifest ==
  /\ phase = "running"
  /\ \A j \in Jobs : pc[j] = "done"
  /\ phase' = "written"
  /\ exit' = IF spec.strict /\ \E j \in Jobs : Bad(j) THEN 1 ELSE 0
  /\ UNCHANGED <<spec, pc, before, result, sidecars, orphans>>

-----------------------------------------------------------------------------
\* A file at an exact path replaces what is there; under a search root every
\* program chooses a directory of its own.
Put(s, exact) == sidecars' = {s} \cup (IF exact THEN sidecars \ Under(s.root) ELSE sidecars)

\* A command writes a sidecar, be it sound or not.
Write(j) ==
  /\ pc[j] = "running" \/ j \in orphans
  /\ spec.look[j] # "none"
  /\ \E sound \in BOOLEAN :
       Put([root |-> spec.root[j], by |-> j, sound |-> sound], spec.look[j] = "exact")
  /\ UNCHANGED <<spec, phase, pc, before, result, orphans, exit>>

\* Another program validates something under one of the search roots.
WriteOutside ==
  /\ phase = "running"
  /\ \E j \in Jobs : /\ spec.look[j] = "search"
                     /\ Put([root |-> spec.root[j], by |-> Outside, sound |-> TRUE], FALSE)
  /\ UNCHANGED <<spec, phase, pc, before, result, orphans, exit>>

-----------------------------------------------------------------------------
Job(j) == Start(j) \/ Skip(j) \/ Exit(j) \/ Timeout(j) \/ Judge(j)

Next == \/ Validate \/ WriteManifest \/ BreakPool \/ WriteOutside
        \/ \E j \in Jobs : Job(j) \/ Write(j)

Spec == Init /\ [][Next]_vars

\* The program's own steps are taken; a command either returns or runs into its
\* time limit.  Nothing obliges a command or another program to write.
FairSpec == /\ Spec
            /\ WF_vars(Validate) /\ WF_vars(WriteManifest)
            /\ \A j \in Jobs : WF_vars(Job(j))

-----------------------------------------------------------------------------
TypeOK ==
  /\ spec \in Requests
  /\ phase \in {"given", "running", "written", "rejected"}
  /\ pc \in [Jobs -> {"waiting", "running", "exited", "done"}]
  /\ before \in [Jobs -> SUBSET Sidecars]
  /\ result \in [Jobs -> [status : Statuses, sidecar : Sidecars \cup {NoSidecar}]]
  /\ sidecars \subseteq Sidecars
  /\ orphans \subseteq Jobs
  /\ exit \in {0, 1, 2, 9}

\* A job that has written a sidecar of its own under its search root, and is
\* recorded as succeeded, is recorded with that sidecar and never with one that
\* another job, a command given up on or another program wrote meanwhile: more than
\* one candidate fails the job.
OwnSidecar ==
  \A j \in Jobs :
    /\ spec.look[j] = "search"
    /\ result[j].status = "succeeded"
    /\ \E s \in sidecars : s.by = j
    => result[j].sidecar # NoSidecar /\ result[j].sidecar.by = j

\* A job whose sidecar is required succeeds only with a sound one, whichever way it
\* was looked for.
RequiredIsFound ==
  \A j \in Jobs : result[j].status = "succeeded" /\ spec.required[j]
                    => result[j].sidecar # NoSidecar /\ result[j].sidecar.sound

\* A discovered sidecar was made during the job: what an earlier run left under the
\* root, or another job before, is never recorded.
FreshlyFound ==
  \A j \in Jobs : spec.look[j] = "search" /\ result[j].sidecar # NoSidecar
                    => /\ result[j].sidecar.by # Earlier
                       /\ result[j].sidecar \notin before[j]

\* In a written manifest a job is left planned exactly when the run was a dry one,
\* or serial with fail_fast and an earlier job had failed or timed out.
SkipsAreExplained ==
  phase = "written" =>
    \A j \in Jobs : result[j].status = "planned" <=>
      \/ spec.dryRun
      \/ /\ spec.mode = "serial" /\ spec.failFast
         /\ \E i \in 1..j-1 : Bad(i)

\* Every run ends: with a rejection, or with a manifest, whatever the commands do
\* and though a worker may die.
EndsWithManifest == <>(phase \in {"written", "rejected"})
=============================================================================
