----------------------------- MODULE CrunchLock -----------------------------
(***************************************************************************)
(* The run lock output/crunch_runs/.crunch.lock that serialises every      *)
(* Build-and-Rank and Re-Rank run: acquire_lock and release_lock of        *)
(* crunch_rebuild_orchestrator.py, taken one file-system call at a time.   *)
(*                                                                         *)
(* The lock is a file whose JSON content names the pid of its holder.  It  *)
(* is created with O_CREAT|O_EXCL and filled by a second call, so an empty *)
(* file is visible in between; a contender that finds the file reads it,   *)
(* asks the operating system whether the named pid lives, and refuses,     *)
(* unless it was started with --reclaim-stale-lock and did not see a live  *)
(* holder: then it overwrites the file.                                    *)
(***************************************************************************)
EXTENDS FiniteSets

CONSTANTS
  Pids,        \* the processes that ever run; a pid stands for one process
  Reclaimers,  \* those started with --reclaim-stale-lock
  NoFile,      \* the lock path when nothing is there
  Attended     \* the flag is used as its message asks: only once every other
               \* run has ended, and alone until the lock is taken

ASSUME ReclaimersAreProcesses == Reclaimers \subseteq Pids
ASSUME NoFileIsNoFile == NoFile \notin [by : Pids, named : BOOLEAN]
ASSUME AttendedIsBoolean == Attended \in BOOLEAN

VARIABLES
  file,  \* the lock path: NoFile, or who put the file there and whether its
         \* content, the holder's pid, has been written
  pc,    \* the step each process is at
  seen   \* what a contender's read of the existing file returned

vars == <<file, pc, seen>>

Acquiring == {"create", "fill", "read", "judge", "reclaim"}
Steps == Acquiring \cup {"idle", "held", "refused", "done", "dead"}
File(p, named) == [by |-> p, named |-> named]
Contents == {NoFile} \cup [by : Pids, named : BOOLEAN]

\* The process has started and has not ended.
Running(p) == pc[p] \in Acquiring \cup {"held"}

Init == /\ file = NoFile
        /\ pc = [p \in Pids |-> "idle"]
        /\ seen = [p \in Pids |-> NoFile]

-----------------------------------------------------------------------------
Goto(p, step) == pc' = [pc EXCEPT ![p] = step]

\* _pid_alive of the pid that was read: TRUE, FALSE or None.  A missing and an
\* empty file have no pid; psutil may be unable to tell; and the pid of a
\* process that ended may belong to an unrelated one by now.
PidAlive(content) ==
  IF content = NoFile THEN {"unknown"}
  ELSE IF ~content.named THEN {"unknown"}
  ELSE IF Running(content.by) THEN {"alive", "unknown"}
  ELSE {"dead", "alive", "unknown"}

-----------------------------------------------------------------------------
(* Faulty variants of the operations below: what the properties would catch. *)

\* The content is the bare pid and not an object with a field of that name.
FillBarePid(p) == /\ pc[p] = "fill"
                  /\ file' = p
                  /\ Goto(p, "held")
                  /\ UNCHANGED seen

\* The flag is not consulted for a holder that is not seen alive.
JudgeWithoutFlag(p) ==
  /\ pc[p] = "judge"
  /\ \E alive \in PidAlive(seen[p]) :
       Goto(p, IF alive = "alive" THEN "refused" ELSE "reclaim")
  /\ UNCHANGED <<file, seen>>

\* A contender without the flag polls until the file has gone.
JudgePolls(p) ==
  /\ pc[p] = "judge"
  /\ \E alive \in PidAlive(seen[p]) :
       Goto(p, IF p \notin Reclaimers
                 THEN IF seen[p] = NoFile THEN "create" ELSE "read"
                 ELSE IF alive = "alive" THEN "refused" ELSE "reclaim")
  /\ UNCHANGED <<file, seen>>

\* The finally block covers the acquisition: who is refused unlinks as well.
JudgeReleases(p) ==
  /\ pc[p] = "judge"
  /\ \E alive \in PidAlive(seen[p]) :
       IF alive = "alive" \/ p \notin Reclaimers
         THEN Goto(p, "refused") /\ file' = NoFile
         ELSE Goto(p, "reclaim") /\ UNCHANGED file
  /\ UNCHANGED seen

-----------------------------------------------------------------------------
\* An operator or the scheduler launches a run.
Launch(p) == /\ pc[p] = "idle"
             /\ Attended => /\ p \in Reclaimers => \A q \in Pids : ~Running(q)
                            /\ \A r \in Reclaimers : pc[r] \notin Acquiring
             /\ Goto(p, "create")
             /\ UNCHANGED <<file, seen>>

\* os.open(O_CREAT | O_EXCL | O_WRONLY): create the file, or FileExistsError.
Create(p) == /\ pc[p] = "create"
             /\ \/ /\ file = NoFile
                   /\ file' = File(p, FALSE)
                   /\ Goto(p, "fill")
                \/ /\ file # NoFile
                   /\ Goto(p, "read")
                   /\ UNCHANGED file
             /\ UNCHANGED seen

\* os.write through the descriptor of the file this process created.  When
\* the path was replaced in the meantime the bytes go to the unlinked file.
Fill(p) == /\ pc[p] = "fill"
           /\ file' = IF file = File(p, FALSE) THEN File(p, TRUE) ELSE file
           /\ Goto(p, "held")
           /\ UNCHANGED seen

\* lock_path.read_text and json.loads of whatever is there by now.
Read(p) == /\ pc[p] = "read"
           /\ seen' = [seen EXCEPT ![p] = file]
           /\ Goto(p, "judge")
           /\ UNCHANGED file

\* A live holder refuses everybody; a dead and an unknown one refuse those
\* that were not started with --reclaim-stale-lock.
Judge(p) == /\ pc[p] = "judge"
            /\ \E alive \in PidAlive(seen[p]) :
                 Goto(p, IF alive = "alive" \/ p \notin Reclaimers
                           THEN "refused" ELSE "reclaim")
            /\ UNCHANGED <<file, seen>>

\* _atomic_write_text(lock_path, payload): os.replace over whatever is there.
Reclaim(p) == /\ pc[p] = "reclaim"
              /\ file' = File(p, TRUE)
              /\ Goto(p, "held")
              /\ UNCHANGED seen

\* release_lock, in the finally block of the run: unlink the path, whoever put
\* the file there; an OSError of the unlink is swallowed and the file stays.
Release(p) == /\ pc[p] = "held"
              /\ file' \in {NoFile, file}
              /\ Goto(p, "done")
              /\ UNCHANGED seen

\* The process is killed, or the machine stops: the file stays.
Crash(p) == /\ Running(p)
            /\ Goto(p, "dead")
            /\ UNCHANGED <<file, seen>>

Acquire(p) == Create(p) \/ Fill(p) \/ Read(p) \/ Judge(p) \/ Reclaim(p)

Next == \E p \in Pids : Launch(p) \/ Acquire(p) \/ Release(p) \/ Crash(p)

Spec == Init /\ [][Next]_vars

\* A process that runs keeps running: every call of an acquisition returns.
\* Nothing obliges a launch, a crash or the end of a run.
FairSpec == Spec /\ \A p \in Pids : WF_vars(Acquire(p))

-----------------------------------------------------------------------------
\* The lock path holds nothing or a file of some process; steps are named.
TypeOK == /\ file \in Contents
          /\ pc \in [Pids -> Steps]
          /\ seen \in [Pids -> Contents]

\* acquire_lock: two runs never hold the crunch lock at the same time.
MutualExclusion ==
  \A p, q \in Pids : pc[p] = "held" /\ pc[q] = "held" => p = q

\* acquire_lock and release_lock, call by call, are the steps of one lock: what is at
\* the path names whoever relies on it, from the creation of the file, which is blank
\* at first, to the end of the run; and a file that was left behind passes to a
\* reclaimer in one step.  This is the lock that RerankDriver takes for granted.
Lock == INSTANCE RunLock
          WITH Procs <- Pids,
               claim <- IF file = NoFile THEN {} ELSE {file.by},
               inside <- {p \in Pids : pc[p] \in {"fill", "held"}},
               entitled <- Reclaimers
ImplementsRunLock == Lock!Spec

\* acquire_lock never waits: a launched run holds the lock or is refused
\* (or is killed), whatever the order of the contenders and whoever died.
AlwaysAnswered ==
  \A p \in Pids : pc[p] = "create" ~> pc[p] \in {"held", "refused", "dead"}
=============================================================================
