------------------------------ MODULE CrunchRun ------------------------------
(***************************************************************************)
(* A Build-and-Rank run from its launch to its end: CrunchOrchestrator of  *)
(* crunch_rebuild_orchestrator.py.  The preflight writes into the run      *)
(* directory and looks for conflicting processes before the lock is taken; *)
(* under the lock the gates are judged, the engines are run one after the  *)
(* other, each as a child process, over what the run has moved out of the  *)
(* way, and what they wrote is scanned for excluded tickers; at the end    *)
(* the rows may be published.                                              *)
(*                                                                         *)
(* The lock is one variable here: CrunchLock takes it apart.  Publishing   *)
(* is two steps, combine and promote: Stage9Publish takes that apart.      *)
(* RUN_SUMMARY and the other reports of the run directory are left out.    *)
(***************************************************************************)
EXTENDS Integers, Sequences, SequencesExt, K6Recook

CONSTANTS
  Runs,      \* the launches, each a process: numbers above 0
  Dirs,      \* the run directories: numbers above 0
  Members,   \* the tickers that a stack may have as members
  Secs,      \* the secondaries
  Rebuild,   \* those that the operator lists for rebuilding
  Carried,   \* the members of every stack and workbook there is at the start
  MaxKills,  \* how many runs are killed
  MaxEdits   \* how often the operator edits the list of blocked tickers

ASSUME RunsAreNumbered == Runs \subseteq Nat \ {0}
ASSUME DirsAreNumbered == Dirs \subseteq Nat \ {0}
ASSUME CarriedIsSome == Carried \subseteq Members /\ Carried # {}
ASSUME RebuildIsSome == Rebuild \subseteq Secs /\ Rebuild # {}
ASSUME BoundsAreBounds == MaxKills \in Nat /\ MaxEdits \in Nat

None == 0  \* no run, no directory

VARIABLES
  blocked,     \* the tickers the operator has blocked
  lock,        \* the run that the lock file names
  pc,          \* the step of each run
  job,         \* how it was launched and what it has found out
  engine,      \* its child process, which may outlive it
  universe,    \* allowed_universe.txt of each run directory; {}: no file
  onepass,     \* the tickers that its 01_onepass.json lists one by one
  refreshed,   \* ghost: the tickers that OnePass has been through
  workbook,    \* the primaries in the ImpactSearch workbook of each secondary; {}: none
  stack,       \* the StackBuilder runs of each secondary, the selected one last
  quarantine,  \* what each run directory's quarantine holds: one directory in another
  built,       \* ghost: every StackBuilder run there ever was
  board,       \* the published row of each secondary
  kills, edits

vars == <<blocked, lock, pc, job, engine, universe, onepass, refreshed, workbook,
          stack, quarantine, built, board, kills, edits>>
stacks == <<stack, quarantine, built>>
artifacts == <<universe, onepass, refreshed, workbook, stacks, board>>
bounds == <<kills, edits>>

\* A StackBuilder run: who made it, and its members.
Builds == [by : Runs \cup {None}, members : SUBSET Members]
NoBuild == [by |-> None, members |-> {}]
Rows0 == [s \in Secs |-> NoBuild]

NoEngine == [stage |-> "none", input |-> {}]
NoJob == [kind |-> "none", dir |-> None, reuse |-> None, reclaim |-> FALSE,
          excl |-> {}, passes |-> FALSE,
          listed |-> {}, fresh |-> Rows0, unscored |-> FALSE, merged |-> Rows0]

Working == {"stage1", "onepass", "stage2", "impactsearch", "stage3", "stackbuilder",
            "stage4", "publish", "promote"}
Running(r) == pc[r] \in Working \cup {"lock", "gates", "release"}
Selected(s) == Last(stack[s])

Init == /\ blocked \in SUBSET Members /\ edits = 0 /\ kills = 0
        /\ lock = None
        /\ pc = [r \in Runs |-> "idle"]
        /\ job = [r \in Runs |-> NoJob]
        /\ engine = [r \in Runs |-> NoEngine]
        /\ universe = [d \in Dirs |-> {}] /\ onepass = universe /\ refreshed = {}
        /\ workbook = [s \in Secs |-> Carried]
        /\ stack = [s \in Secs |-> <<[by |-> None, members |-> Carried]>>]
        /\ quarantine = [d \in Dirs |-> [s \in Secs |-> <<>>]]
        /\ built = {[of |-> s, it |-> stack[s][1]] : s \in Secs}
        /\ board = [s \in Secs |-> stack[s][1]]

-----------------------------------------------------------------------------
Goto(r, step) == pc' = [pc EXCEPT ![r] = step]
Halt(r) == Goto(r, "release")

\* A faulty variant: the prior run's file of allowed tickers is enough.
ProvenByFile(from, allowed, excl) ==
  /\ universe[from] = allowed
  /\ onepass[from] # {} /\ onepass[from] \cap excl = {}

\* _build_reuse_proof: the prior run's allowed tickers are those of this run, none of
\* them is blocked, and its OnePass lists exactly them.  A OnePass result that was itself
\* reused lists nothing.
Proven(from, allowed, excl) ==
  /\ universe[from] = allowed
  /\ onepass[from] # {} /\ onepass[from] \cap excl = {}
  /\ onepass[from] = allowed

\* A faulty variant: the enumeration of processes leaves out those without a parent.
ConflictAnswersOfRuns == {IF \E q \in Runs : engine[q] # NoEngine /\ Running(q)
                          THEN "blocked" ELSE "ok", "insufficient"}

\* default_process_conflict_check: any engine, whose child it ever was.
ConflictAnswers == {IF \E q \in Runs : engine[q] # NoEngine THEN "blocked" ELSE "ok",
                    "insufficient"}

\* An operator or a script launches a run.  --reclaim-stale-lock is used as its message
\* asks: only once every other run has ended, and alone until the lock is taken.
Launch(r, reclaim) ==
  /\ pc[r] = "idle"
  /\ \A q \in Runs : q < r => pc[q] # "idle"
  /\ reclaim => \A q \in Runs : ~Running(q)
  /\ \A q \in Runs : job[q].reclaim => pc[q] # "lock"
  /\ Goto(r, "lock")
  /\ UNCHANGED <<blocked, lock, engine, onepass, refreshed, workbook, stacks, board, bounds>>

\* preflight: the run directory is written to and the processes are looked at, all of it
\* without the lock.  A run that the gates will not let through, of which a dry run is one,
\* has nothing more to remember.
Preflight(r, d, from, mode, reclaim) ==
  LET allowed == Members \ blocked
      proof == from = None \/ Proven(from, allowed, blocked)
  IN /\ universe' = [universe EXCEPT ![d] = allowed]
     /\ \E answer \in ConflictAnswers :
          job' = [job EXCEPT ![r] =
            IF mode = "execute" /\ answer = "ok" /\ proof
            THEN [NoJob EXCEPT !.kind = "build", !.dir = d, !.reuse = from,
                               !.reclaim = reclaim, !.excl = blocked, !.passes = TRUE]
            ELSE [NoJob EXCEPT !.kind = "build", !.reclaim = reclaim]]

\* run and main: a reuse directory that is the run directory is refused at once.  The
\* directories are numbered in the order in which launches may come to use them.
LaunchBuild(r) ==
  \E d \in Dirs, from \in Dirs \cup {None}, mode \in {"dry", "execute"}, reclaim \in BOOLEAN :
    /\ d <= r /\ from < r /\ from # d
    /\ Launch(r, reclaim)
    /\ Preflight(r, d, from, mode, reclaim)

\* A faulty variant: the lock is taken inside the try, whose finally unlinks the file of
\* the run that was in the way.
TakeLockInTry(r) ==
  /\ pc[r] = "lock"
  /\ \/ /\ lock # None => job[r].reclaim /\ ~Running(lock)
        /\ lock' = r
        /\ Goto(r, "gates")
     \/ lock # None /\ Goto(r, "release") /\ UNCHANGED lock
  /\ UNCHANGED <<blocked, job, engine, artifacts, bounds>>

\* acquire_lock: without the flag an existing file refuses; with it, a holder that is
\* alive does, and one that is dead may pass for alive.
TakeLock(r) ==
  /\ pc[r] = "lock"
  /\ \/ /\ lock # None => job[r].reclaim /\ ~Running(lock)
        /\ lock' = r /\ UNCHANGED job
        /\ Goto(r, "gates")
     \/ /\ lock # None /\ UNCHANGED lock
        /\ job' = [job EXCEPT ![r] = NoJob]
        /\ Goto(r, "ended")
  /\ UNCHANGED <<blocked, engine, artifacts, bounds>>

\* The gates, under the lock: no conflicting process ("insufficient" refuses an execution
\* too), and the proof if reuse was asked for.  A dry run ends here, and so does a run that
\* lacks a flag or whose publish preflight fails.
Gates(r) ==
  /\ pc[r] = "gates" /\ job[r].kind = "build"
  /\ \/ job[r].passes /\ Goto(r, "stage1")
     \/ Halt(r)
  /\ UNCHANGED <<blocked, lock, job, engine, artifacts, bounds>>

-----------------------------------------------------------------------------
\* The stages.  An engine reads its input when it starts; its parent waits for it.
Start(r, stage, input) == engine' = [engine EXCEPT ![r] = [stage |-> stage, input |-> input]]
Stop(r) == engine' = [engine EXCEPT ![r] = NoEngine]

\* Stage 1: OnePass over the file of allowed tickers, or the reuse of a prior result.
StartOnePass(r) ==
  /\ pc[r] = "stage1"
  /\ IF job[r].reuse # None
     THEN /\ onepass' = [onepass EXCEPT ![job[r].dir] = {}]
          /\ Goto(r, "stage2") /\ UNCHANGED engine
     ELSE /\ Start(r, "onepass", universe[job[r].dir])
          /\ Goto(r, "onepass") /\ UNCHANGED onepass
  /\ UNCHANGED <<blocked, lock, job, universe, refreshed, workbook, stacks, board, bounds>>

EndOnePass(r) ==
  /\ pc[r] = "onepass"
  /\ LET done == engine[r].input IN
       \/ /\ done # {}
          /\ refreshed' = refreshed \cup done
          /\ IF done \cap job[r].excl = {}
             THEN onepass' = [onepass EXCEPT ![job[r].dir] = done] /\ Goto(r, "stage2")
             ELSE Halt(r) /\ UNCHANGED onepass
       \/ Halt(r) /\ UNCHANGED <<refreshed, onepass>>
  /\ Stop(r)
  /\ UNCHANGED <<blocked, lock, job, universe, workbook, stacks, board, bounds>>

\* Stage 2: the old workbooks are moved away first, one secondary after the other, since
\* ImpactSearch carries forward what it finds.
MoveWorkbook(r) ==
  /\ pc[r] = "stage2"
  /\ \E s \in Rebuild : workbook[s] # {} /\ workbook' = [workbook EXCEPT ![s] = {}]
  /\ UNCHANGED <<blocked, lock, pc, job, engine, universe, onepass, refreshed, stacks, board,
                 bounds>>

StartImpactSearch(r) ==
  /\ pc[r] = "stage2"
  /\ \/ /\ \A s \in Rebuild : workbook[s] = {}
        /\ Start(r, "impactsearch", universe[job[r].dir])
        /\ Goto(r, "impactsearch")
     \/ Halt(r) /\ UNCHANGED engine
  /\ UNCHANGED <<blocked, lock, job, universe, onepass, refreshed, workbook, stacks, board,
                 bounds>>

\* ImpactSearch writes a secondary's workbook at once, after all its primaries: one that
\* fails or is killed has written those of some secondaries.
WriteWorkbooks(input, done) ==
  workbook' = [s \in Secs |-> IF s \in done THEN workbook[s] \cup input ELSE workbook[s]]

EndImpactSearch(r) ==
  /\ pc[r] = "impactsearch"
  /\ \E done \in SUBSET Rebuild :
       /\ WriteWorkbooks(engine[r].input, done)
       /\ \/ /\ done = Rebuild /\ engine[r].input # {}
             /\ \A s \in Rebuild : workbook'[s] \cap job[r].excl = {}
             /\ Goto(r, "stage3")
          \/ Halt(r)
  /\ Stop(r)
  /\ UNCHANGED <<blocked, lock, job, universe, onepass, refreshed, stacks, board, bounds>>

\* A faulty variant: what is in the way at the destination is replaced.
MovedOver(q, s) == [q EXCEPT ![s] = <<stack[s]>>]

\* A faulty variant: there is always a way.
CanMoveAlways(q, s) == TRUE

\* shutil.move of the secondary's directory into the quarantine.  If one of that name is
\* there already, it goes into that one; deeper it cannot go.
Moved(q, s) == [q EXCEPT ![s] = Append(q[s], stack[s])]
CanMove(q, s) == Len(q[s]) < 2

\* Stage 3: the stacks are moved away one after the other, unless an operator has pinned
\* one, and rebuilt out of the workbooks.  The error of a move that cannot be is no
\* CrunchError: the run ends all the same, without a word in its summary, and what it has
\* moved stays moved.
InTheWay == {s \in Rebuild : stack[s] # <<>>}
MoveStack(r) ==
  /\ pc[r] = "stage3"
  /\ \E s \in InTheWay :
       LET q == quarantine[job[r].dir] IN
         /\ CanMove(q, s)
         /\ quarantine' = [quarantine EXCEPT ![job[r].dir] = Moved(q, s)]
         /\ stack' = [stack EXCEPT ![s] = <<>>]
  /\ UNCHANGED <<blocked, lock, pc, job, engine, universe, onepass, refreshed, workbook, built,
                 board, bounds>>

StartStackBuilder(r) ==
  /\ pc[r] = "stage3"
  /\ \/ /\ InTheWay = {}
        /\ Start(r, "stackbuilder", UNION {workbook[s] : s \in Rebuild})
        /\ Goto(r, "stackbuilder")
     \/ Halt(r) /\ UNCHANGED engine
  /\ UNCHANGED <<blocked, lock, job, universe, onepass, refreshed, workbook, stacks, board,
                 bounds>>

\* What StackBuilder has made when it ends, well or badly: for some secondaries a run with
\* some of the workbooks' primaries; one without members has no combo file yet.
Outputs(r) == UNION {[done -> SUBSET engine[r].input] : done \in SUBSET Rebuild}

WriteStacks(r, made) ==
  LET new == [s \in DOMAIN made |-> [by |-> r, members |-> made[s]]] IN
    /\ stack' = [s \in Secs |-> IF s \in DOMAIN made THEN Append(stack[s], new[s]) ELSE stack[s]]
    /\ built' = built \cup {[of |-> s, it |-> new[s]] : s \in DOMAIN made}

EndStackBuilder(r) ==
  /\ pc[r] = "stackbuilder"
  /\ \E made \in Outputs(r) :
       /\ WriteStacks(r, made)
       /\ \/ /\ DOMAIN made = Rebuild /\ \A s \in Rebuild : made[s] # {}
             /\ \A s \in Rebuild : \A b \in Range(stack'[s]) : b.members \cap job[r].excl = {}
             /\ Goto(r, "stage4")
          \/ Halt(r)
  /\ Stop(r)
  /\ UNCHANGED <<blocked, lock, job, universe, onepass, refreshed, workbook, quarantine,
                 board, bounds>>

\* k6_recook over a set of secondaries: those without a stack that has come as far as its
\* combo file are missing.
HasCombo(s) == stack[s] # <<>> /\ Selected(s).members # {}
Fated(secs) == {f \in [secs -> Fates] : \A s \in secs : f[s] = "missing" <=> ~HasCombo(s)}
Scored(fate) == [s \in Secs |-> IF s \in DOMAIN fate /\ s \in Rows(fate) THEN Selected(s)
                                ELSE NoBuild]

\* Stage 4: strict, and nothing but a clean answer will do; the ranking is scanned.  A
\* run that was not asked to publish ends here.
Recook(r) ==
  /\ pc[r] = "stage4"
  /\ \E fate \in Fated(Rebuild), systemic \in BOOLEAN :
       IF /\ Status(fate, TRUE, systemic) = "ok"
          /\ \A s \in Secs : Scored(fate)[s].members \cap job[r].excl = {}
       THEN /\ job' = [job EXCEPT ![r].fresh = Scored(fate),
                                  ![r].unscored = \E s \in Rebuild : fate[s] = "unscored"]
            /\ Goto(r, "publish") \/ Halt(r)
       ELSE Halt(r) /\ UNCHANGED job
  /\ UNCHANGED <<blocked, lock, engine, artifacts, bounds>>

-----------------------------------------------------------------------------
Merge(prior, fresh) == [s \in Secs |-> IF fresh[s] # NoBuild THEN fresh[s] ELSE prior[s]]

\* What is to be published: the rebuilt secondaries, or the board but for the quarantined.
Survivors(r) == IF job[r].kind = "build" THEN Rebuild
                ELSE {s \in Secs : board[s] # NoBuild} \ job[r].listed
Fresh(r) == {s \in Secs : job[r].fresh[s] # NoBuild}

\* A faulty variant: a survivor that the ranking has no row for is let go.
JoinedLoosely(r) == Fresh(r) \subseteq Survivors(r)

\* The join of the ranking with the validation sidecar, which covers the survivors: each
\* has a row and each row is of one.
Joined(r) == Fresh(r) = Survivors(r)

\* A faulty variant: nobody looks for excluded tickers in the rows carried over.
CombineUnscanned(r) ==
  /\ pc[r] = "publish"
  /\ LET merged == Merge(board, job[r].fresh) IN
       \/ /\ Joined(r) /\ ~job[r].unscored
          /\ job' = [job EXCEPT ![r].merged = merged]
          /\ Goto(r, "promote")
       \/ Halt(r) /\ UNCHANGED job
  /\ UNCHANGED <<blocked, lock, engine, artifacts, bounds>>

\* run_rerank_publish and combine_and_assemble: the rows that have been joined, over the
\* prior board.  It refuses rows without a rank, and a merged board in which an excluded
\* ticker is left.
Combine(r) ==
  /\ pc[r] = "publish"
  /\ LET merged == Merge(board, job[r].fresh) IN
       \/ /\ Joined(r) /\ ~job[r].unscored
          /\ \A s \in Secs : merged[s].members \cap job[r].excl = {}
          /\ job' = [job EXCEPT ![r].merged = merged]
          /\ Goto(r, "promote")
       \/ Halt(r) /\ UNCHANGED job
  /\ UNCHANGED <<blocked, lock, engine, artifacts, bounds>>

Promote(r) ==
  /\ pc[r] = "promote"
  /\ \/ board' = job[r].merged
     \/ UNCHANGED board
  /\ Halt(r)
  /\ UNCHANGED <<blocked, lock, job, engine, universe, onepass, refreshed, workbook, stacks,
                 bounds>>

\* A faulty variant: a run that the gates turn away leaves the lock.
ReleaseOfPassed(r) ==
  /\ pc[r] = "release"
  /\ lock' = IF job[r].kind = "build" /\ ~job[r].passes THEN lock ELSE None
  /\ Goto(r, "ended")
  /\ job' = [job EXCEPT ![r] = NoJob]
  /\ UNCHANGED <<blocked, engine, artifacts, bounds>>

\* The finally block: the file is unlinked, whatever it names.
Release(r) ==
  /\ pc[r] = "release"
  /\ lock' = None
  /\ Goto(r, "ended")
  /\ job' = [job EXCEPT ![r] = NoJob]
  /\ UNCHANGED <<blocked, engine, artifacts, bounds>>

-----------------------------------------------------------------------------
\* A run is killed: its engine may go down with it.  A kill before it has the lock leaves
\* what a refusal leaves.
Kill(r) ==
  /\ lock = r /\ Running(r)
  /\ kills < MaxKills /\ kills' = kills + 1
  /\ Goto(r, "dead")
  /\ job' = [job EXCEPT ![r] = NoJob]
  /\ Stop(r) \/ UNCHANGED engine
  /\ UNCHANGED <<blocked, lock, artifacts, edits>>

\* An engine whose parent is dead goes on: it writes what it writes, all of it or some.
Orphan(r) ==
  /\ pc[r] = "dead" /\ engine[r] # NoEngine
  /\ \/ /\ engine[r].stage = "onepass"
        /\ refreshed' \in {refreshed, refreshed \cup engine[r].input}
        /\ UNCHANGED <<workbook, stacks>>
     \/ /\ engine[r].stage = "impactsearch"
        /\ \E done \in SUBSET Rebuild : WriteWorkbooks(engine[r].input, done)
        /\ UNCHANGED <<refreshed, stacks>>
     \/ /\ engine[r].stage = "stackbuilder"
        /\ \E made \in Outputs(r) : WriteStacks(r, made)
        /\ UNCHANGED <<refreshed, workbook, quarantine>>
  /\ Stop(r)
  /\ UNCHANGED <<blocked, lock, pc, job, universe, onepass, board, bounds>>

\* The operator edits the list of blocked tickers, which only a preflight reads: an edit
\* that no launch follows shows nothing.
Edit ==
  /\ edits < MaxEdits /\ edits' = edits + 1
  /\ \E r \in Runs : pc[r] = "idle"
  /\ \E t \in Members : blocked' = IF t \in blocked THEN blocked \ {t} ELSE blocked \cup {t}
  /\ UNCHANGED <<lock, pc, job, engine, artifacts, kills>>

-----------------------------------------------------------------------------
\* A run that has been launched goes on.
Advance(r) ==
  \/ TakeLock(r) \/ Gates(r)
  \/ StartOnePass(r) \/ EndOnePass(r)
  \/ MoveWorkbook(r) \/ StartImpactSearch(r) \/ EndImpactSearch(r)
  \/ MoveStack(r) \/ StartStackBuilder(r) \/ EndStackBuilder(r)
  \/ Recook(r) \/ Combine(r) \/ Promote(r) \/ Release(r)
=============================================================================
