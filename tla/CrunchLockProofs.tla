-------------------------- MODULE CrunchLockProofs --------------------------
(***************************************************************************)
(* The safety of the crunch lock for every set of processes, when nobody   *)
(* reclaims or every reclaim is attended.                                  *)
(***************************************************************************)
EXTENDS CrunchLock, TLAPS

\* A holder's pid stays readable in the file for as long as it holds, so every
\* contender of acquire_lock can identify it and probe it.
HolderIsNamed == \A p \in Pids : pc[p] = "held" => file = File(p, TRUE)

\* acquire_lock and release_lock never take the file of a live peer away: the
\* step that ends a running process's file is that process's own release.
OwnStepOnly ==
  \A p \in Pids : (file # NoFile /\ file.by = p /\ Running(p) /\ file' # file)
                  => \/ file' = File(p, TRUE)
                     \/ pc[p] = "held" /\ pc'[p] = "done"
NeverStealsLive == [][OwnStepOnly]_vars

\* The file that a killed run, or a failed unlink, left behind blocks every
\* run until one started with --reclaim-stale-lock takes it over: no release,
\* no creation and no late write of another run ever clears it.
ReclaimOnly ==
  (file # NoFile /\ pc[file.by] \notin {"fill", "held"} /\ file' # file)
  => \E r \in Reclaimers : file' = File(r, TRUE) /\ pc'[r] = "held"
OnlyReclaimClearsStale == [][ReclaimOnly]_vars

\* While a reclaimer acquires, no other run exists: what the attended use of
\* --reclaim-stale-lock guarantees.
ReclaimsAlone ==
  \A r \in Reclaimers :
    pc[r] \in Acquiring => \A p \in Pids \ {r} : ~Running(p)

\* Only --reclaim-stale-lock leads to the overwriting of the file.
OnlyReclaimersReclaim == \A p \in Pids : pc[p] = "reclaim" => p \in Reclaimers

\* The file at the lock path is that of the process that fills or holds it.
FileIsHolders ==
  \A p \in Pids : /\ pc[p] = "fill" => file = File(p, FALSE)
                  /\ pc[p] = "held" => file = File(p, TRUE)

IInv == TypeOK /\ ReclaimsAlone /\ OnlyReclaimersReclaim /\ FileIsHolders

LEMMA Files ==
  ASSUME NEW p \in Pids, NEW named \in BOOLEAN
  PROVE  File(p, named) \in Contents /\ File(p, named) # NoFile
<1>1. File(p, named) \in [by : Pids, named : BOOLEAN]
  BY DEF File
<1> QED
  BY <1>1, NoFileIsNoFile DEF Contents

\* The contents of the lock path are what TypeOK says in every behaviour.
THEOREM TypeCorrect == Spec => []TypeOK
<1>1. Init => TypeOK
  BY DEF Init, TypeOK, Contents, Steps
<1>2. TypeOK /\ [Next]_vars => TypeOK'
  <2> SUFFICES ASSUME TypeOK, [Next]_vars PROVE TypeOK'
    OBVIOUS
  <2> USE DEF TypeOK, Contents, Steps, Acquiring, File, Goto
  <2>1. CASE UNCHANGED vars
    BY <2>1 DEF vars
  <2>2. ASSUME NEW p \in Pids, Launch(p) PROVE TypeOK'
    BY <2>2 DEF Launch
  <2>3. ASSUME NEW p \in Pids, Create(p) PROVE TypeOK'
    <3>1. file' \in Contents
      <4>1. File(p, FALSE) \in Contents
        BY Files
      <4> QED
        BY <2>3, <4>1 DEF Create
    <3> QED
      BY <2>3, <3>1 DEF Create
  <2>4. ASSUME NEW p \in Pids, Fill(p) PROVE TypeOK'
    BY <2>4 DEF Fill
  <2>5. ASSUME NEW p \in Pids, Read(p) PROVE TypeOK'
    BY <2>5 DEF Read
  <2>6. ASSUME NEW p \in Pids, Judge(p) PROVE TypeOK'
    BY <2>6 DEF Judge
  <2>7. ASSUME NEW p \in Pids, Reclaim(p) PROVE TypeOK'
    BY <2>7 DEF Reclaim
  <2>8. ASSUME NEW p \in Pids, Release(p) PROVE TypeOK'
    BY <2>8 DEF Release
  <2>9. ASSUME NEW p \in Pids, Crash(p) PROVE TypeOK'
    BY <2>9 DEF Crash
  <2> QED
    BY <2>1, <2>2, <2>3, <2>4, <2>5, <2>6, <2>7, <2>8, <2>9 DEF Next, Acquire
<1> QED
  BY <1>1, <1>2, PTL DEF Spec

-----------------------------------------------------------------------------
\* The inductive invariant.  Without the discipline it is false: a reclaimer
\* that read a blank file overwrites it while its creator fills it.
LEMMA Inductive ==
  ASSUME Attended \/ Reclaimers = {},
         IInv, [Next]_vars, TypeOK'
  PROVE  IInv'
<1> USE ReclaimersAreProcesses, NoFileIsNoFile
    DEF IInv, TypeOK, Contents, Steps, Acquiring, Running, File, Goto
<1>1. CASE UNCHANGED vars
  BY <1>1 DEF vars, ReclaimsAlone, OnlyReclaimersReclaim, FileIsHolders
<1>2. ASSUME NEW p \in Pids, Launch(p) PROVE IInv'
  <2>1. ReclaimsAlone'
    BY <1>2 DEF Launch, ReclaimsAlone
  <2>2. OnlyReclaimersReclaim' /\ FileIsHolders'
    BY <1>2 DEF Launch, OnlyReclaimersReclaim, FileIsHolders
  <2> QED BY <2>1, <2>2
<1>3. ASSUME NEW p \in Pids, Create(p) PROVE IInv'
  <2>1. ReclaimsAlone'
    BY <1>3 DEF Create, ReclaimsAlone
  <2>2. OnlyReclaimersReclaim'
    BY <1>3 DEF Create, OnlyReclaimersReclaim
  <2>3. CASE file = NoFile /\ file' = File(p, FALSE) /\ Goto(p, "fill")
    <3>1. ASSUME NEW q \in Pids PROVE pc[q] # "fill" /\ pc[q] # "held"
      <4>1. File(q, FALSE) # NoFile /\ File(q, TRUE) # NoFile
        BY Files
      <4> QED
        BY <2>3, <4>1 DEF FileIsHolders
    <3>2. FileIsHolders'
      BY <2>3, <3>1 DEF FileIsHolders
    <3> QED BY <2>1, <2>2, <3>2, <1>3
  <2>4. CASE Goto(p, "read") /\ UNCHANGED file
    BY <2>1, <2>2, <2>4, <1>3 DEF FileIsHolders
  <2> QED BY <1>3, <2>3, <2>4 DEF Create
<1>4. ASSUME NEW p \in Pids, Fill(p) PROVE IInv'
  <2>1. ReclaimsAlone'
    BY <1>4 DEF Fill, ReclaimsAlone
  <2>2. OnlyReclaimersReclaim'
    BY <1>4 DEF Fill, OnlyReclaimersReclaim
  <2>3. \A q \in Pids \ {p} : pc[q] # "fill" /\ pc[q] # "held"
    BY <1>4 DEF Fill, FileIsHolders
  <2>4. FileIsHolders'
    BY <1>4, <2>3 DEF Fill, FileIsHolders
  <2> QED BY <2>1, <2>2, <2>4
<1>5. ASSUME NEW p \in Pids, Read(p) PROVE IInv'
  BY <1>5 DEF Read, ReclaimsAlone, OnlyReclaimersReclaim, FileIsHolders
<1>6. ASSUME NEW p \in Pids, Judge(p) PROVE IInv'
  <2>1. PICK alive \in PidAlive(seen[p]) :
          Goto(p, IF alive = "alive" \/ p \notin Reclaimers
                    THEN "refused" ELSE "reclaim")
    BY <1>6 DEF Judge
  <2> QED
    BY <1>6, <2>1 DEF Judge, ReclaimsAlone, OnlyReclaimersReclaim, FileIsHolders
<1>7. ASSUME NEW p \in Pids, Reclaim(p) PROVE IInv'
  <2>1. p \in Reclaimers /\ \A q \in Pids \ {p} : ~Running(q)
    BY <1>7 DEF Reclaim, OnlyReclaimersReclaim, ReclaimsAlone
  <2> QED
    BY <1>7, <2>1 DEF Reclaim, ReclaimsAlone, OnlyReclaimersReclaim,
                      FileIsHolders
<1>8. ASSUME NEW p \in Pids, Release(p) PROVE IInv'
  <2>1. \A q \in Pids \ {p} : pc[q] # "fill" /\ pc[q] # "held"
    BY <1>8 DEF Release, FileIsHolders
  <2> QED
    BY <1>8, <2>1 DEF Release, ReclaimsAlone, OnlyReclaimersReclaim,
                      FileIsHolders
<1>9. ASSUME NEW p \in Pids, Crash(p) PROVE IInv'
  BY <1>9 DEF Crash, ReclaimsAlone, OnlyReclaimersReclaim, FileIsHolders
<1> QED
  BY <1>1, <1>2, <1>3, <1>4, <1>5, <1>6, <1>7, <1>8, <1>9 DEF Next, Acquire

LEMMA Invariant ==
  ASSUME Attended \/ Reclaimers = {}
  PROVE  Spec => []IInv
<1>1. Init => IInv
  BY ReclaimersAreProcesses
     DEF Init, IInv, TypeOK, Contents, Steps, Acquiring, Running, File,
         ReclaimsAlone, OnlyReclaimersReclaim, FileIsHolders
<1>2. IInv /\ TypeOK' /\ [Next]_vars => IInv'
  BY Inductive
<1> QED
  BY <1>1, <1>2, TypeCorrect, PTL DEF Spec

\* Two runs never hold the crunch lock together, and a holder is always
\* identified by the file, for any number of processes.
THEOREM LockIsExclusive ==
  ASSUME Attended \/ Reclaimers = {}
  PROVE  Spec => [](MutualExclusion /\ HolderIsNamed)
<1>1. IInv => MutualExclusion /\ HolderIsNamed
  BY DEF IInv, FileIsHolders, MutualExclusion, HolderIsNamed, File
<1> QED
  BY <1>1, Invariant, PTL

\* A contender that is refused can always read which process to probe or to wait for:
\* as long as a run holds the lock, its pid is in the file.
THEOREM HolderIsAlwaysNamed ==
  ASSUME Attended \/ Reclaimers = {}
  PROVE  Spec => []HolderIsNamed
BY LockIsExclusive, PTL

-----------------------------------------------------------------------------
\* No run ever takes the file of a running peer away.
THEOREM LiveFilesAreSafe ==
  ASSUME Attended \/ Reclaimers = {}
  PROVE  Spec => NeverStealsLive
<1>1. IInv /\ [Next]_vars => [OwnStepOnly]_vars
  <2> SUFFICES ASSUME IInv, Next, NEW p \in Pids,
                      file # NoFile, file.by = p, Running(p), file' # file
               PROVE  \/ file' = File(p, TRUE)
                      \/ pc[p] = "held" /\ pc'[p] = "done"
    BY DEF OwnStepOnly
  <2>1. PICK q \in Pids :
          Launch(q) \/ Acquire(q) \/ Release(q) \/ Crash(q)
    BY DEF Next
  <2>2. CASE Fill(q)
    <3>1. file = File(q, FALSE) /\ file' = File(q, TRUE)
      BY <2>2 DEF Fill
    <3>2. p = q
      BY <3>1 DEF File
    <3> QED
      BY <3>1, <3>2
  <2>3. CASE Reclaim(q)
    <3>1. q \in Reclaimers /\ pc[q] \in Acquiring
      BY <2>3 DEF Reclaim, IInv, OnlyReclaimersReclaim, Acquiring
    <3>2. p = q
      BY <3>1 DEF IInv, ReclaimsAlone
    <3> QED
      BY <2>3, <3>2 DEF Reclaim
  <2>4. CASE Release(q)
    BY <2>4 DEF Release, IInv, TypeOK, FileIsHolders, File, Goto
  <2> QED
    BY <2>1, <2>2, <2>3, <2>4 DEF Launch, Acquire, Create, Read, Judge, Crash
<1> QED
  BY <1>1, Invariant, PTL DEF Spec, NeverStealsLive

\* What a dead run left at the lock path is cleared by a reclaim alone.
THEOREM StaleFilesStay ==
  ASSUME Attended \/ Reclaimers = {}
  PROVE  Spec => OnlyReclaimClearsStale
<1>1. IInv /\ [Next]_vars => [ReclaimOnly]_vars
  <2> SUFFICES ASSUME IInv, Next, file # NoFile,
                      pc[file.by] \notin {"fill", "held"}, file' # file
               PROVE  \E r \in Reclaimers :
                        file' = File(r, TRUE) /\ pc'[r] = "held"
    BY DEF ReclaimOnly
  <2>1. PICK q \in Pids :
          Launch(q) \/ Acquire(q) \/ Release(q) \/ Crash(q)
    BY DEF Next
  <2>2. CASE Fill(q)
    <3>1. file = File(q, FALSE) /\ pc[q] = "fill"
      BY <2>2 DEF Fill
    <3>2. file.by = q
      BY <3>1 DEF File
    <3> QED
      BY <3>1, <3>2
  <2>3. CASE Reclaim(q)
    BY <2>3 DEF Reclaim, IInv, TypeOK, OnlyReclaimersReclaim, Goto
  <2>4. CASE Release(q)
    BY <2>4 DEF Release, IInv, FileIsHolders, File
  <2> QED
    BY <2>1, <2>2, <2>3, <2>4 DEF Launch, Acquire, Create, Read, Judge, Crash
<1> QED
  BY <1>1, Invariant, PTL DEF Spec, OnlyReclaimClearsStale

-----------------------------------------------------------------------------
(* The refinement of RunLock. *)

\* The lock is claimed by whoever put the file there, and by nobody else.
Claim == IF file = NoFile THEN {} ELSE {file.by}
Inside == {p \in Pids : pc[p] \in {"fill", "held"}}

LEMMA WhoIsInside ==
  ASSUME IInv
  PROVE  /\ \A p \in Inside : p \in Pids /\ Claim = {p} /\ Inside = {p}
         /\ file = NoFile => Inside = {}
<1>1. ASSUME NEW p \in Inside PROVE p \in Pids /\ file # NoFile /\ file.by = p
  <2>1. p \in Pids /\ (file = File(p, FALSE) \/ file = File(p, TRUE))
    BY DEF Inside, IInv, FileIsHolders
  <2>2. File(p, FALSE) # NoFile /\ File(p, TRUE) # NoFile
    BY <2>1, Files
  <2> QED
    BY <2>1, <2>2 DEF File
<1>2. ASSUME NEW p \in Inside PROVE Claim = {p} /\ Inside = {p}
  BY <1>1, <1>2 DEF Claim
<1> QED
  BY <1>1, <1>2

\* Who comes in, or goes out, is the one who moves.
LEMMA StepsRunLock ==
  ASSUME Attended \/ Reclaimers = {}, IInv, Next
  PROVE  Lock!Next \/ UNCHANGED Lock!vars
<1>1. PICK p \in Pids : Launch(p) \/ Acquire(p) \/ Release(p) \/ Crash(p)
  BY DEF Next
<1>2. pc \in [Pids -> Steps]
  BY DEF IInv, TypeOK
<1>3. ASSUME NEW step, Goto(p, step), step \notin {"fill", "held"}
      PROVE  Inside' = Inside \ {p}
  BY <1>2, <1>3 DEF Goto, Inside
<1>4. ASSUME NEW step, Goto(p, step), step \in {"fill", "held"}
      PROVE  Inside' = Inside \cup {p}
  BY <1>2, <1>4 DEF Goto, Inside
<1>6. CASE Launch(p)
  BY <1>3, <1>6 DEF Launch, Lock!vars, Inside
<1>7. CASE Create(p) /\ file = NoFile
  <2>1. file' = File(p, FALSE) /\ Inside' = Inside \cup {p}
    BY <1>4, <1>7 DEF Create
  <2>2. Claim = {} /\ Inside = {} /\ Claim' = {p} /\ Inside' = {p}
    BY <1>7, <2>1, WhoIsInside, Files DEF Claim, File
  <2> QED
    BY <2>2 DEF Lock!Next, Lock!Take, Lock!Enter, Claim, Inside
<1>8. CASE Create(p) /\ file # NoFile
  BY <1>3, <1>8 DEF Create, Lock!vars, Inside
<1>9. CASE Fill(p)
  <2>1. p \in Inside /\ Inside' = Inside \cup {p}
    BY <1>4, <1>9 DEF Fill, Inside
  <2>2. file = File(p, FALSE) /\ file' = File(p, TRUE)
    BY <1>9 DEF Fill, IInv, FileIsHolders
  <2>3. Claim' = Claim /\ Inside' = Inside
    BY <2>1, <2>2, Files DEF Claim, File
  <2> QED
    BY <2>3 DEF Lock!vars, Claim, Inside
<1>10. CASE Read(p)
  BY <1>3, <1>10 DEF Read, Lock!vars, Inside
<1>11. CASE Judge(p)
  <2>1. PICK alive \in PidAlive(seen[p]) :
          Goto(p, IF alive = "alive" \/ p \notin Reclaimers
                    THEN "refused" ELSE "reclaim")
    BY <1>11 DEF Judge
  <2> QED
    BY <1>3, <1>11, <2>1 DEF Judge, Lock!vars, Inside
<1>12. CASE Reclaim(p)
  <2>1. p \in Reclaimers /\ \A q \in Pids \ {p} : ~Running(q)
    BY <1>12 DEF Reclaim, IInv, OnlyReclaimersReclaim, ReclaimsAlone, Acquiring
  <2>2. Inside = {}
    BY <1>12, <2>1 DEF Reclaim, Inside, Running, Acquiring
  <2>3. Claim' = {p} /\ Inside' = {p}
    BY <1>4, <1>12, <2>2, Files DEF Reclaim, Claim, File
  <2> QED
    BY <2>1, <2>2, <2>3 DEF Lock!Next, Lock!Take, Lock!TakeOver, Lock!Enter, Claim, Inside
<1>13. CASE Release(p) \/ (Crash(p) /\ p \in Inside)
  <2>1. p \in Inside /\ Inside' = Inside \ {p} /\ file' \in {NoFile, file}
    BY <1>3, <1>13 DEF Release, Crash, Inside
  <2>2. Claim = {p} /\ Inside = {p}
    BY <2>1, WhoIsInside
  <2>3. Inside' = {} /\ Claim' \in {{}, Claim}
    BY <2>1, <2>2 DEF Claim
  <2> QED
    BY <2>2, <2>3 DEF Lock!Next, Lock!Leave, Claim, Inside
<1>14. CASE Crash(p) /\ p \notin Inside
  BY <1>3, <1>14 DEF Crash, Lock!vars, Inside
<1> QED
  BY <1>1, <1>6, <1>7, <1>8, <1>9, <1>10, <1>11, <1>12, <1>13, <1>14 DEF Acquire

\* The lock protocol, one file-system call at a time, is one lock: entered by the
\* creation or the replacement of the file, and left by an unlink or a death.
THEOREM ImplementsALock ==
  ASSUME Attended \/ Reclaimers = {}
  PROVE  Spec => ImplementsRunLock
<1>1. Init => Lock!Init
  BY DEF Init, Lock!Init
<1>2. IInv /\ [Next]_vars => [Lock!Next]_(Lock!vars)
  <2>1. ASSUME UNCHANGED vars PROVE UNCHANGED Lock!vars
    BY <2>1 DEF vars, Lock!vars
  <2> QED
    BY <2>1, StepsRunLock
<1> QED
  BY <1>1, <1>2, Invariant, PTL DEF Spec, ImplementsRunLock, Lock!Spec
=============================================================================
