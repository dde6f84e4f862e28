---------------------- MODULE ControlledComputeProofs -----------------------
(***************************************************************************)
(* Proofs about ControlledCompute, for any number of jobs and processors:  *)
(* the types, what a job recorded as succeeded has found, that results are *)
(* final, and why a job is left planned.                                   *)
(*                                                                         *)
(* The argument about sidecars: what a job writes lies under its own root  *)
(* and was not there when it looked before its command, so it is among the *)
(* candidates, and a job succeeds only with a single one.  The argument    *)
(* about the serial loop: it takes the jobs in order and one at a time, so *)
(* at a failure everything later still waits.                              *)
(***************************************************************************)
EXTENDS ControlledCompute, FiniteSetTheorems, TLAPS

\* What is recorded of a job that has ended is final: no time limit, no skip and no
\* death of another worker changes it, and no job is run a second time.
ResultsAreFinal ==
  [][\A j \in Jobs : pc[j] = "done" => pc'[j] = "done" /\ result'[j] = result[j]]_vars

\* Nothing is begun before the specification is valid, and the manifest comes last.
Phased ==
  /\ phase \in {"given", "rejected"} => \A j \in Jobs : pc[j] = "waiting"
  /\ phase \in {"running", "written"} => ValidSpec
  /\ phase = "written" => \A j \in Jobs : pc[j] = "done"

\* Nothing is recorded of a job that is not done.
Unjudged == \A j \in Jobs : pc[j] # "done" => result[j] = Result("planned", NoSidecar)

Running(j) == pc[j] \in {"running", "exited"}

\* The look before a command sees all that earlier runs have left.
SeesEarlier ==
  \A j \in Jobs : Running(j) /\ spec.look[j] = "search" =>
    \A s \in sidecars : s.by = Earlier /\ s.root = spec.root[j] => s \in before[j]

\* What a job has written is under its root, comes after its look, and not before
\* its command is started.
Authored ==
  /\ \A s \in sidecars : \A j \in Jobs :
       s.by = j => s.root = spec.root[j] /\ pc[j] # "waiting"
  /\ \A j \in Jobs : \A s \in before[j] : s.by # j

\* A job that was given up on has failed.
GivenUp == \A j \in orphans : pc[j] = "done" /\ Bad(j)

Written == /\ IsFiniteSet(sidecars)
           /\ SeesEarlier /\ Authored /\ GivenUp

\* Jobs are taken in their order, in a serial run one at a time, and none after a
\* failure that stops the loop.
Serial == spec.mode = "serial"
InOrder ==
  /\ \A i, j \in Jobs : i < j /\ pc[i] = "waiting" => pc[j] = "waiting"
  /\ Serial => \A i, j \in Jobs : i < j /\ Running(i) => pc[j] = "waiting"
  /\ Stopped => \A j \in Jobs : ~Running(j)

\* Why a job that is done is planned.
Planned ==
  /\ spec.dryRun /\ phase \in {"running", "written"} =>
       \A j \in Jobs : pc[j] = "done" /\ result[j].status = "planned"
  /\ ~spec.dryRun => \A j \in Jobs :
       pc[j] = "done" /\ result[j].status = "planned" =>
         Serial /\ spec.failFast /\ \E i \in Jobs : i < j /\ Bad(i)
  /\ Serial /\ spec.failFast => \A i, j \in Jobs :
       i < j /\ Bad(i) /\ pc[j] = "done" => result[j].status = "planned"

Found == OwnSidecar /\ RequiredIsFound /\ FreshlyFound

IInv == TypeOK /\ Phased /\ Unjudged /\ Written /\ InOrder /\ Planned /\ Found

-----------------------------------------------------------------------------
USE CountsAreCounts, RootsAreFinite, RequestsAreShaped, NoSidecarIsNone

\* The request has its shape.
LEMMA SpecShape ==
  ASSUME TypeOK
  PROVE  /\ spec.look \in [Jobs -> Looks] /\ spec.root \in [Jobs -> Roots]
         /\ spec.required \in [Jobs -> BOOLEAN]
         /\ spec.failFast \in BOOLEAN /\ spec.dryRun \in BOOLEAN
         /\ spec.mode \in {"serial", "local_process_pool"}
BY DEF TypeOK, RequestShape

\* A job under way is a job of a valid specification that is being run.
LEMMA RunningIsRun ==
  ASSUME TypeOK, Phased, NEW j \in Jobs, Running(j)
  PROVE  phase = "running" /\ ValidSpec
BY DEF TypeOK, Phased, Running

\* In a serial run a job is started only when no other is under way.
LEMMA OneAtATime ==
  ASSUME TypeOK, Serial, Cardinality(Busy) < Workers
  PROVE  \A j \in Jobs : ~Running(j)
<1>1. Workers = 1
  BY DEF Workers, Serial
<1>2. IsFiniteSet(Busy)
  <2>1. IsFiniteSet(Jobs)
    BY FS_Interval DEF Jobs
  <2>2. Busy \subseteq Jobs
    BY DEF Busy
  <2> QED
    BY <2>1, <2>2, FS_Subset
<1>3. Cardinality(Busy) \in Nat
  BY <1>2, FS_CardinalityType
<1>4. Cardinality(Busy) = 0
  BY <1>1, <1>3
<1>5. Busy = {}
  BY <1>2, <1>4, FS_EmptySet
<1> QED
  BY <1>5 DEF Busy, Running

\* A set with a member and at most one is that member alone.
LEMMA OnlyCandidate ==
  ASSUME NEW S, IsFiniteSet(S), Cardinality(S) <= 1, NEW a \in S, NEW b \in S
  PROVE  a = b
<1>1. SUFFICES ASSUME a # b PROVE FALSE
  OBVIOUS
<1>2. IsFiniteSet({a}) /\ Cardinality({a}) = 1
  BY FS_Singleton
<1>3. {a} \subseteq S /\ b \notin {a}
  BY <1>1
<1>4. Cardinality({a}) <= Cardinality(S) /\ (Cardinality({a}) = Cardinality(S) => S = {a})
  BY <1>2, <1>3, FS_Subset
<1>5. Cardinality(S) \in Nat
  BY FS_CardinalityType
<1> QED
  BY <1>2, <1>3, <1>4, <1>5

\* What the judgement of a returned command may record, and of which candidates.
LEMMA VerdictFacts ==
  ASSUME TypeOK, IsFiniteSet(sidecars), NEW j \in Jobs, ValidSpec
  PROVE  /\ Verdict(j) \in [status : {"succeeded", "failed"}, sidecar : Sidecars \cup {NoSidecar}]
         /\ spec.required[j] /\ Verdict(j).status = "succeeded"
              => Verdict(j).sidecar # NoSidecar /\ Verdict(j).sidecar.sound
         /\ spec.look[j] = "search" /\ Verdict(j).sidecar # NoSidecar
              => Verdict(j).sidecar \in New(j)
         /\ spec.look[j] = "search" /\ Verdict(j).status = "succeeded"
              => \A s \in New(j) : Verdict(j).sidecar = s
<1> DEFINE C == IF spec.look[j] = "exact" THEN Under(spec.root[j]) ELSE New(j)
           c == CHOOSE s \in C : TRUE
<1>1. C \subseteq sidecars /\ C \subseteq Sidecars
  BY DEF Under, New, TypeOK
<1>2. IsFiniteSet(C)
  BY <1>1, FS_Subset
<1>3. Verdict(j) = JudgedAgainst(j, C)
  BY DEF Verdict
<1>4. spec.look[j] \in Looks /\ spec.required[j] \in BOOLEAN
  BY SpecShape
<1>5. spec.required[j] => spec.look[j] # "none"
  BY DEF ValidSpec
<1> HIDE DEF C
<1>6. CASE spec.look[j] = "none"
  BY <1>3, <1>4, <1>5, <1>6 DEF JudgedAgainst, Result
<1>7. CASE spec.look[j] # "none" /\ C = {}
  <2>1. Verdict(j) = Result(IF spec.required[j] THEN "failed" ELSE "succeeded", NoSidecar)
    BY <1>3, <1>7 DEF JudgedAgainst
  <2>2. spec.look[j] = "search" => New(j) = {}
    BY <1>7 DEF C
  <2> QED
    BY <2>1, <2>2, <1>4 DEF Result
<1>8. CASE spec.look[j] # "none" /\ C # {} /\ Cardinality(C) > 1
  BY <1>3, <1>8 DEF JudgedAgainst, Result
<1>9. CASE spec.look[j] # "none" /\ C # {} /\ ~(Cardinality(C) > 1)
  <2>1. Verdict(j) = IF c.sound THEN Result("succeeded", c) ELSE Result("failed", NoSidecar)
    BY <1>3, <1>9 DEF JudgedAgainst
  <2>2. c \in C
    BY <1>9
  <2>3. Cardinality(C) <= 1
    BY <1>2, <1>9, FS_CardinalityType
  <2>4. \A s \in C : s = c
    BY <1>2, <2>2, <2>3, OnlyCandidate
  <2>5. c \in Sidecars /\ c # NoSidecar /\ c.sound \in BOOLEAN
    BY <2>2, <1>1 DEF Sidecars
  <2>6. spec.look[j] = "search" => New(j) = C
    BY DEF C
  <2> HIDE DEF c
  <2> QED
    BY <2>1, <2>2, <2>4, <2>5, <2>6 DEF Result
<1> QED
  BY <1>6, <1>7, <1>8, <1>9

-----------------------------------------------------------------------------
\* Every kind of step, for the case splits below.
LEMMA StepKinds ==
  ASSUME [Next]_vars
  PROVE  \/ Validate \/ WriteManifest \/ BreakPool \/ WriteOutside
         \/ \E j \in Jobs : Start(j) \/ Skip(j) \/ Exit(j) \/ Timeout(j) \/ Judge(j) \/ Write(j)
         \/ UNCHANGED vars
BY DEF Next, Job

\* A sidecar that is written is added, in the place of others perhaps.
LEMMA PutAdds ==
  ASSUME NEW s, NEW exact \in BOOLEAN, Put(s, exact)
  PROVE  sidecars' \subseteq sidecars \cup {s}
BY DEF Put, Under

\* The author of a sidecar that a step adds, and where it lies.
LEMMA NewSidecars ==
  ASSUME TypeOK, Written, [Next]_vars
  PROVE  /\ \A s \in sidecars' \ sidecars :
              /\ s \in Sidecars /\ s.by # Earlier
              /\ s.by \in Jobs => /\ s.root = spec.root[s.by] /\ spec.look[s.by] # "none"
                                  /\ pc[s.by] = "running" \/ s.by \in orphans
                                  /\ UNCHANGED <<pc, result, before>>
         /\ IsFiniteSet(sidecars')
<1>1. CASE UNCHANGED sidecars
  BY <1>1 DEF Written
<1>2. CASE WriteOutside
  <2>1. PICK j \in Jobs : Put([root |-> spec.root[j], by |-> Outside, sound |-> TRUE], FALSE)
    BY <1>2 DEF WriteOutside
  <2> DEFINE o == [root |-> spec.root[j], by |-> Outside, sound |-> TRUE]
  <2>2. sidecars' \subseteq sidecars \cup {o}
    BY <2>1, PutAdds
  <2>3. o \in Sidecars /\ o.by # Earlier /\ o.by \notin Jobs
    BY SpecShape DEF Sidecars, Outside, Earlier, Jobs
  <2>4. IsFiniteSet(sidecars \cup {o})
    BY FS_AddElement DEF Written
  <2> HIDE DEF o
  <2> QED
    BY <2>2, <2>3, <2>4, FS_Subset
<1>3. ASSUME NEW j \in Jobs, Write(j)
      PROVE  /\ \A s \in sidecars' \ sidecars :
                  /\ s \in Sidecars /\ s.by # Earlier
                  /\ s.by \in Jobs => /\ s.root = spec.root[s.by] /\ spec.look[s.by] # "none"
                                      /\ pc[s.by] = "running" \/ s.by \in orphans
                                      /\ UNCHANGED <<pc, result, before>>
             /\ IsFiniteSet(sidecars')
  <2>1. PICK sound \in BOOLEAN :
          Put([root |-> spec.root[j], by |-> j, sound |-> sound], spec.look[j] = "exact")
    BY <1>3 DEF Write
  <2> DEFINE o == [root |-> spec.root[j], by |-> j, sound |-> sound]
  <2>2. sidecars' \subseteq sidecars \cup {o}
    BY <2>1, PutAdds
  <2>3. o \in Sidecars /\ o.by # Earlier /\ o.by = j /\ o.root = spec.root[j]
    BY SpecShape DEF Sidecars, Earlier, Jobs
  <2>4. IsFiniteSet(sidecars \cup {o})
    BY FS_AddElement DEF Written
  <2>5. /\ spec.look[j] # "none" /\ (pc[j] = "running" \/ j \in orphans)
        /\ UNCHANGED <<pc, result, before>>
    BY <1>3 DEF Write
  <2> HIDE DEF o
  <2> QED
    BY <2>2, <2>3, <2>4, <2>5, FS_Subset
<1> QED
  BY <1>1, <1>2, <1>3, StepKinds DEF Validate, WriteManifest, BreakPool, Start, Skip, Exit,
     Timeout, Judge, vars

-----------------------------------------------------------------------------
\* The initial states.
LEMMA InitInv == Init => IInv
<1> SUFFICES ASSUME Init PROVE IInv
  OBVIOUS
<1> DEFINE Old == [root : Roots, by : {Earlier}, sound : {TRUE}]
<1>1. sidecars \subseteq Old
  BY DEF Init
<1>2. IsFiniteSet(Old)
  <2> DEFINE f == [r \in Roots |-> [root |-> r, by |-> Earlier, sound |-> TRUE]]
  <2>1. f \in Surjection(Roots, Old)
    <3>1. f \in [Roots -> Old]
      OBVIOUS
    <3>2. ASSUME NEW o \in Old PROVE \E r \in Roots : f[r] = o
      <4>1. o.root \in Roots /\ o = [root |-> o.root, by |-> Earlier, sound |-> TRUE]
        OBVIOUS
      <4> QED
        BY <4>1
    <3> QED
      BY <3>1, <3>2 DEF Surjection
  <2> QED
    BY <2>1, FS_Surjection
<1>3. IsFiniteSet(sidecars)
  BY <1>1, <1>2, FS_Subset
<1>a. Earlier \notin Jobs /\ Earlier \in 0..N+1
  BY DEF Earlier, Jobs
<1>b. ASSUME NEW o \in Old PROVE o \in Sidecars /\ o.by = Earlier
  BY <1>a DEF Sidecars
<1> HIDE DEF Old
<1>4. TypeOK
  BY <1>1, <1>a, <1>b DEF Init, TypeOK, Result, Statuses
<1>5. Phased /\ Unjudged
  BY DEF Init, Phased, Unjudged
<1>6. SeesEarlier /\ Authored /\ GivenUp
  BY <1>1, <1>a, <1>b DEF Init, SeesEarlier, Authored, GivenUp, Running
<1>7. \A j \in Jobs : ~Running(j) /\ pc[j] = "waiting" /\ result[j].status = "planned"
                      /\ result[j].sidecar = NoSidecar /\ ~Bad(j)
  BY DEF Init, Running, Result, Bad
<1>8. InOrder
  BY <1>7 DEF InOrder, Stopped
<1>9. Planned
  BY <1>7 DEF Init, Planned
<1>10. Found
  BY <1>7 DEF Found, OwnSidecar, RequiredIsFound, FreshlyFound
<1> QED
  BY <1>3, <1>4, <1>5, <1>6, <1>8, <1>9, <1>10 DEF IInv, Written

\* The types, and what is known of jobs that are not done.
LEMMA TypeStep == IInv /\ [Next]_vars => TypeOK'
<1> SUFFICES ASSUME IInv, [Next]_vars PROVE TypeOK'
  OBVIOUS
<1> USE DEF IInv
<1>1. sidecars' \subseteq Sidecars
  BY NewSidecars DEF TypeOK
<1>2. CASE Validate
  BY <1>1, <1>2 DEF Validate, TypeOK
<1>3. CASE WriteManifest
  BY <1>1, <1>3 DEF WriteManifest, TypeOK
<1>4. CASE BreakPool
  BY <1>1, <1>4 DEF BreakPool, TypeOK, Result, Statuses
<1>5. CASE WriteOutside
  BY <1>1, <1>5 DEF WriteOutside, TypeOK
<1>6. ASSUME NEW j \in Jobs, Start(j) PROVE TypeOK'
  <2>1. Under(spec.root[j]) \in SUBSET Sidecars
    BY DEF Under, TypeOK
  <2> QED
    BY <1>1, <1>6, <2>1 DEF Start, TypeOK
<1>7. ASSUME NEW j \in Jobs, Skip(j) \/ Exit(j) PROVE TypeOK'
  BY <1>1, <1>7 DEF Skip, Exit, Settle, TypeOK, Result, Statuses
<1>8. ASSUME NEW j \in Jobs, Timeout(j) PROVE TypeOK'
  BY <1>1, <1>8 DEF Timeout, Settle, TypeOK, Result, Statuses
<1>9. ASSUME NEW j \in Jobs, Judge(j) PROVE TypeOK'
  <2>1. ValidSpec
    BY <1>9, RunningIsRun DEF Judge, Running
  <2>2. Verdict(j) \in [status : Statuses, sidecar : Sidecars \cup {NoSidecar}]
    BY <2>1, VerdictFacts DEF Written, Statuses
  <2> QED
    BY <1>1, <1>9, <2>2 DEF Judge, Settle, TypeOK
<1>10. ASSUME NEW j \in Jobs, Write(j) PROVE TypeOK'
  BY <1>1, <1>10 DEF Write, TypeOK
<1>11. CASE UNCHANGED vars
  BY <1>11 DEF vars, TypeOK
<1> QED
  BY <1>2, <1>3, <1>4, <1>5, <1>6, <1>7, <1>8, <1>9, <1>10, <1>11, StepKinds

\* The phases, and nothing is recorded before a job is done.
LEMMA PhaseStep == IInv /\ [Next]_vars => Phased' /\ Unjudged'
<1> SUFFICES ASSUME IInv, [Next]_vars PROVE Phased' /\ Unjudged'
  OBVIOUS
<1> USE DEF IInv, TypeOK, Phased, Unjudged
<1>1. ValidSpec' <=> ValidSpec
  BY StepKinds DEF ValidSpec, Validate, WriteManifest, BreakPool, WriteOutside, Start, Skip,
     Exit, Timeout, Judge, Write, vars
<1>2. CASE Validate
  BY <1>1, <1>2 DEF Validate
<1>3. CASE WriteManifest
  BY <1>1, <1>3 DEF WriteManifest
<1>4. CASE BreakPool
  BY <1>1, <1>4 DEF BreakPool
<1>5. CASE WriteOutside
  BY <1>1, <1>5 DEF WriteOutside
<1>6. ASSUME NEW j \in Jobs, Start(j) PROVE Phased' /\ Unjudged'
  BY <1>1, <1>6 DEF Start
<1>7. ASSUME NEW j \in Jobs, Skip(j) \/ Exit(j) \/ Timeout(j) \/ Judge(j)
      PROVE  Phased' /\ Unjudged'
  <2>1. phase = "running" /\ phase' = phase
    BY <1>7, RunningIsRun DEF Running, Skip, Exit, Timeout, Judge
  <2>2. \A i \in Jobs : pc'[i] # "done" => pc[i] # "done" /\ result'[i] = result[i]
    BY <1>7 DEF Skip, Exit, Timeout, Judge, Settle
  <2> QED
    BY <1>1, <2>1, <2>2
<1>8. ASSUME NEW j \in Jobs, Write(j) PROVE Phased' /\ Unjudged'
  BY <1>1, <1>8 DEF Write
<1>9. CASE UNCHANGED vars
  BY <1>1, <1>9 DEF vars
<1> QED
  BY <1>2, <1>3, <1>4, <1>5, <1>6, <1>7, <1>8, <1>9, StepKinds

-----------------------------------------------------------------------------
\* What no step does: change the request, take back a result, send a job back, or
\* look again for a job that has looked.
LEMMA OnlyForward ==
  ASSUME IInv, [Next]_vars
  PROVE  /\ spec' = spec
         /\ \A j \in Jobs : pc[j] = "done" => pc'[j] = "done" /\ result'[j] = result[j]
         /\ \A j \in Jobs : pc'[j] = "waiting" => pc[j] = "waiting"
         /\ \A j \in Jobs : Running(j)' => Running(j) \/ Start(j)
         /\ \A j \in Jobs : pc[j] # "waiting" => before'[j] = before[j]
         /\ \A j \in Jobs : before'[j] \subseteq before[j] \cup Under(spec.root[j])
<1> USE DEF IInv, TypeOK, Phased
<1>1. CASE Validate
  BY <1>1 DEF Validate, Running
<1>2. CASE WriteManifest \/ WriteOutside \/ UNCHANGED vars
  BY <1>2 DEF WriteManifest, WriteOutside, Running, vars
<1>3. CASE BreakPool
  BY <1>3 DEF BreakPool, Running
<1>4. ASSUME NEW i \in Jobs, Start(i)
      PROVE  /\ spec' = spec /\ result' = result
             /\ pc' = [pc EXCEPT ![i] = "running"] /\ pc[i] = "waiting"
             /\ \A j \in Jobs : j # i => before'[j] = before[j]
             /\ before'[i] \subseteq Under(spec.root[i])
  BY <1>4 DEF Start
<1>5. ASSUME NEW i \in Jobs, Skip(i) \/ Exit(i) \/ Timeout(i) \/ Judge(i)
      PROVE  /\ spec' = spec /\ before' = before /\ pc[i] # "done"
             /\ \A j \in Jobs : j # i => pc'[j] = pc[j] /\ result'[j] = result[j]
             /\ pc'[i] = "done" \/ (pc'[i] = "exited" /\ pc[i] = "running")
  BY <1>5 DEF Skip, Exit, Timeout, Judge, Settle
<1>6. ASSUME NEW i \in Jobs, Write(i) PROVE UNCHANGED <<spec, pc, before, result>>
  BY <1>6 DEF Write
<1>7. ASSUME NEW i \in Jobs, Start(i)
      PROVE  /\ spec' = spec
             /\ \A j \in Jobs : pc[j] = "done" => pc'[j] = "done" /\ result'[j] = result[j]
             /\ \A j \in Jobs : pc'[j] = "waiting" => pc[j] = "waiting"
             /\ \A j \in Jobs : Running(j)' => Running(j) \/ Start(j)
             /\ \A j \in Jobs : pc[j] # "waiting" => before'[j] = before[j]
             /\ \A j \in Jobs : before'[j] \subseteq before[j] \cup Under(spec.root[j])
  BY <1>4, <1>7 DEF Running
<1> QED
  BY <1>1, <1>2, <1>3, <1>5, <1>6, <1>7, StepKinds DEF Running

\* Sidecars: finitely many, seen when they are early, by their authors, and what a
\* command that was given up on still writes is by a job that has failed.
LEMMA WrittenStep == IInv /\ [Next]_vars => Written'
<1> SUFFICES ASSUME IInv, [Next]_vars PROVE Written'
  OBVIOUS
<1> USE DEF IInv, Written
<1>1. IsFiniteSet(sidecars')
  BY NewSidecars
<1>2. SeesEarlier'
  <2> SUFFICES ASSUME NEW j \in Jobs, Running(j)', spec.look[j] = "search",
                      NEW s \in sidecars', s.by = Earlier, s.root = spec.root[j]
               PROVE  s \in before'[j]
    BY OnlyForward DEF SeesEarlier
  <2>1. s \in sidecars
    BY NewSidecars
  <2>2. CASE Running(j)
    <3>1. s \in before[j]
      BY <2>1, <2>2 DEF SeesEarlier
    <3>2. pc[j] # "waiting"
      BY <2>2 DEF Running
    <3> QED
      BY <3>1, <3>2, OnlyForward
  <2>3. CASE Start(j)
    <3>1. before'[j] = Under(spec.root[j])
      BY <2>3 DEF Start, TypeOK
    <3> QED
      BY <2>1, <3>1 DEF Under
  <2> QED
    BY <2>2, <2>3, OnlyForward
<1>3. Authored'
  <2>1. ASSUME NEW s \in sidecars', NEW j \in Jobs, s.by = j
        PROVE  s.root = spec'.root[j] /\ pc'[j] # "waiting"
    <3>1. s.root = spec.root[j] /\ pc[j] # "waiting"
      <4>1. CASE s \in sidecars
        BY <2>1, <4>1 DEF Authored
      <4>2. CASE s \notin sidecars
        BY <2>1, <4>2, NewSidecars DEF GivenUp
      <4> QED
        BY <4>1, <4>2
    <3> QED
      BY <3>1, OnlyForward
  <2>2. ASSUME NEW j \in Jobs, NEW s \in before'[j] PROVE s.by # j
    <3>1. CASE pc[j] = "waiting"
      <4>1. s \in before[j] \/ s \in sidecars
        BY OnlyForward DEF Under
      <4> QED
        BY <3>1, <4>1 DEF Authored
    <3>2. CASE pc[j] # "waiting"
      BY <3>2, OnlyForward DEF Authored
    <3> QED
      BY <3>1, <3>2
  <2> QED
    BY <2>1, <2>2 DEF Authored
<1>4. GivenUp'
  <2> SUFFICES ASSUME NEW j \in orphans' PROVE pc'[j] = "done" /\ Bad(j)'
    BY DEF GivenUp
  <2>1. j \in Jobs
    BY TypeStep DEF TypeOK
  <2>2. CASE j \in orphans
    BY <2>1, <2>2, OnlyForward DEF GivenUp, Bad
  <2>3. CASE j \notin orphans
    <3>1. CASE BreakPool
      BY <2>1, <2>3, <3>1 DEF BreakPool, Bad, Result
    <3>2. ASSUME NEW i \in Jobs, Timeout(i) PROVE pc'[j] = "done" /\ Bad(j)'
      <4>1. j = i
        BY <2>3, <3>2 DEF Timeout
      <4> QED
        BY <3>2, <4>1 DEF Timeout, Settle, Bad, Result, TypeOK
    <3> QED
      BY <2>3, <3>1, <3>2, StepKinds DEF Validate, WriteManifest, WriteOutside, Start, Skip,
         Exit, Judge, Write, vars
  <2> QED
    BY <2>2, <2>3
<1> QED
  BY <1>1, <1>2, <1>3, <1>4


-----------------------------------------------------------------------------
\* A job whose command ends settles alone: in a serial run nothing else is under way,
\* what comes later waits, and no failure has stopped the loop.
LEMMA Settles ==
  ASSUME IInv, NEW j \in Jobs, Exit(j) \/ Timeout(j) \/ Judge(j)
  PROVE  /\ spec' = spec /\ phase = "running" /\ phase' = phase
         /\ Running(j) /\ ~Stopped
         /\ \A i \in Jobs : i # j => pc'[i] = pc[i] /\ result'[i] = result[i]
         /\ pc'[j] = "done" \/ (pc'[j] = "exited" /\ result'[j] = result[j])
         /\ pc'[j] = "done" => result'[j].status # "planned"
         /\ Serial => \A i \in Jobs : (i < j => ~Running(i)) /\ (j < i => pc[i] = "waiting")
<1> USE DEF IInv, TypeOK
<1>1. Running(j)
  BY DEF Exit, Timeout, Judge, Running
<1>2. phase = "running" /\ ValidSpec
  BY <1>1, RunningIsRun
<1>3. ~Stopped
  BY <1>1 DEF InOrder
<1>4. Verdict(j).status # "planned"
  BY <1>2, VerdictFacts DEF Written
<1>5. /\ pc'[j] = "done" \/ (pc'[j] = "exited" /\ result'[j] = result[j])
      /\ pc'[j] = "done" => result'[j].status # "planned"
  BY <1>4 DEF Exit, Timeout, Judge, Settle, Result
<1>6. /\ spec' = spec /\ phase' = phase
      /\ \A i \in Jobs : i # j => pc'[i] = pc[i] /\ result'[i] = result[i]
  BY DEF Exit, Timeout, Judge, Settle
<1>7. Serial => \A i \in Jobs : (i < j => ~Running(i)) /\ (j < i => pc[i] = "waiting")
  BY <1>1 DEF InOrder, Running
<1> QED
  BY <1>1, <1>2, <1>3, <1>5, <1>6, <1>7

\* The serial loop passes a job over because an earlier one has failed.
LEMMA Skips ==
  ASSUME IInv, NEW j \in Jobs, Skip(j)
  PROVE  /\ UNCHANGED <<spec, phase>> /\ phase = "running" /\ pc[j] = "waiting" /\ Stopped
         /\ \A i \in Jobs : i # j => pc'[i] = pc[i] /\ result'[i] = result[i]
         /\ pc'[j] = "done" /\ result'[j].status = "planned"
         /\ \E i \in Jobs : i < j /\ Bad(i)
         /\ \A i \in Jobs : i < j => pc[i] # "waiting"
<1> USE DEF IInv, TypeOK
<1>1. PICK i \in Jobs : Bad(i)
  BY DEF Skip, Stopped
<1>2. pc[i] = "done"
  BY <1>1 DEF Unjudged, Bad, Result
<1>3. i < j
  BY <1>2 DEF Skip, InOrder, Jobs
<1>4. \A m \in Jobs : m < j => m \in 1..j-1
  BY DEF Jobs
<1> QED
  BY <1>1, <1>3, <1>4 DEF Skip, Settle, Result

\* Jobs are taken in order and one at a time.
LEMMA OrderStep == IInv /\ [Next]_vars => InOrder'
<1> SUFFICES ASSUME IInv, [Next]_vars PROVE InOrder'
  OBVIOUS
<1> USE DEF IInv
<1>1. CASE UNCHANGED <<spec, pc, result>>
  BY <1>1 DEF InOrder, Serial, Running, Stopped, Bad
<1>2. CASE Validate
  <2>1. \A j \in Jobs : pc[j] = "waiting"
    BY <1>2 DEF Validate, Phased
  <2>2. (pc' = [j \in Jobs |-> "done"] \/ pc' = pc) /\ UNCHANGED <<spec, result>>
    BY <1>2 DEF Validate
  <2> QED
    BY <2>1, <2>2 DEF InOrder, Running
<1>3. CASE BreakPool
  BY <1>3 DEF BreakPool, InOrder, Running, Serial, Stopped
<1>4. ASSUME NEW j \in Jobs, Start(j) PROVE InOrder'
  <2>1. /\ UNCHANGED <<spec, result>> /\ pc[j] = "waiting" /\ pc'[j] = "running" /\ ~Stopped
        /\ \A i \in Jobs : i # j => pc'[i] = pc[i]
    BY <1>4 DEF Start, TypeOK
  <2>2. \A i \in Jobs : i < j => pc[i] # "waiting"
    BY <1>4 DEF Start, Jobs
  <2>3. Serial => \A i \in Jobs : ~Running(i)
    BY <1>4, OneAtATime DEF Start
  <2>4. ~Stopped'
    BY <2>1 DEF Stopped, Bad
  <2>5. \A i, m \in Jobs : i < m /\ pc'[i] = "waiting" => pc'[m] = "waiting"
    BY <2>1, <2>2 DEF InOrder, Jobs
  <2>6. Serial' => \A i, m \in Jobs : i < m /\ Running(i)' => pc'[m] = "waiting"
    BY <2>1, <2>3 DEF InOrder, Running, Serial, Jobs
  <2> QED
    BY <2>4, <2>5, <2>6 DEF InOrder
<1>5. ASSUME NEW j \in Jobs, Skip(j) PROVE InOrder'
  <2>1. \A i \in Jobs : ~Running(i) /\ ~Running(i)'
    BY <1>5, Skips DEF InOrder, Running
  <2>2. \A i, m \in Jobs : i < m /\ pc'[i] = "waiting" => pc'[m] = "waiting"
    BY <1>5, Skips DEF InOrder, Jobs
  <2> QED
    BY <2>1, <2>2 DEF InOrder
<1>6. ASSUME NEW j \in Jobs, Exit(j) \/ Timeout(j) \/ Judge(j) PROVE InOrder'
  <2>1. \A i, m \in Jobs : i < m /\ pc'[i] = "waiting" => pc'[m] = "waiting"
    BY <1>6, Settles DEF InOrder, Running, Jobs
  <2>2. Serial' => \A i, m \in Jobs : i < m /\ Running(i)' => pc'[m] = "waiting"
    BY <1>6, Settles DEF InOrder, Running, Serial, Jobs
  <2>3. Stopped' => \A i \in Jobs : ~Running(i)'
    <3> SUFFICES ASSUME Stopped' PROVE \A i \in Jobs : ~Running(i)'
      OBVIOUS
    <3>1. Serial /\ pc'[j] = "done"
      <4>1. CASE pc'[j] = "exited" /\ result'[j] = result[j]
        BY <1>6, <4>1, Settles DEF Stopped, Bad
      <4>2. CASE pc'[j] = "done"
        BY <1>6, <4>2, Settles DEF Stopped, Serial
      <4> QED
        BY <1>6, <4>1, <4>2, Settles
    <3> QED
      BY <1>6, <3>1, Settles DEF Running, Jobs
  <2> QED
    BY <2>1, <2>2, <2>3 DEF InOrder
<1> QED
  BY <1>1, <1>2, <1>3, <1>4, <1>5, <1>6, StepKinds DEF WriteManifest, WriteOutside, Write, vars

\* Why a job is planned.
LEMMA PlannedStep == IInv /\ [Next]_vars => Planned'
<1> SUFFICES ASSUME IInv, [Next]_vars PROVE Planned'
  OBVIOUS
<1> USE DEF IInv
<1>1. CASE UNCHANGED <<spec, pc, result>> /\ (phase' = phase \/ phase = "running")
  BY <1>1 DEF Planned, Serial, Bad
<1>2. CASE Validate
  <2>1. \A j \in Jobs : pc[j] = "waiting" /\ result[j] = Result("planned", NoSidecar) /\ ~Bad(j)
    BY <1>2 DEF Validate, Phased, Unjudged, Result, Bad
  <2>2. UNCHANGED <<spec, result>> /\ \A j \in Jobs : ~Bad(j)'
    BY <1>2, <2>1 DEF Validate, Bad
  <2>3. CASE phase' = "running"
    <3>1. pc' = IF spec.dryRun THEN [j \in Jobs |-> "done"] ELSE pc
      BY <1>2, <2>3 DEF Validate
    <3> QED
      BY <2>1, <2>2, <3>1 DEF Planned, Result
  <2>4. CASE phase' = "rejected"
    <3>1. pc' = pc
      BY <1>2, <2>4 DEF Validate
    <3> QED
      BY <2>1, <2>2, <2>4, <3>1 DEF Planned
  <2> QED
    BY <1>2, <2>3, <2>4 DEF Validate
<1>3. CASE BreakPool
  <2>1. \E j \in Jobs : pc[j] # "done"
    BY <1>3 DEF BreakPool, Busy
  <2>2. ~Serial /\ ~Serial' /\ UNCHANGED <<spec, phase>> /\ phase = "running"
    BY <1>3 DEF BreakPool, Serial
  <2>3. ~spec.dryRun
    BY <2>1, <2>2 DEF Planned
  <2>4. \A j \in Jobs : IF pc[j] = "done" THEN result'[j] = result[j]
                        ELSE result'[j].status = "failed"
    BY <1>3 DEF BreakPool, Result
  <2> QED
    BY <2>2, <2>3, <2>4 DEF Planned
<1>4. ASSUME NEW j \in Jobs, Start(j) PROVE Planned'
  <2>1. /\ UNCHANGED <<spec, phase, result>> /\ pc[j] = "waiting" /\ pc'[j] = "running"
        /\ \A i \in Jobs : i # j => pc'[i] = pc[i]
    BY <1>4 DEF Start, TypeOK
  <2> QED
    BY <2>1 DEF Planned, Serial, Bad
<1>5. ASSUME NEW j \in Jobs, Skip(j) PROVE Planned'
  <2>1. \A i \in Jobs : Bad(i)' <=> Bad(i)
    <3>1. ~Bad(j) /\ ~Bad(j)'
      BY <1>5, Skips DEF Bad, Unjudged, Result
    <3> QED
      BY <1>5, <3>1, Skips DEF Bad
  <2>2. Serial /\ spec.failFast
    BY <1>5, Skips DEF Stopped, Serial
  <2> QED
    BY <1>5, <2>1, <2>2, Skips DEF Planned, Serial
<1>6. ASSUME NEW j \in Jobs, Exit(j) \/ Timeout(j) \/ Judge(j) PROVE Planned'
  <2>1. \A i \in Jobs : Bad(i) => Bad(i)' /\ i # j
    BY <1>6, Settles DEF Bad, Unjudged, Running, Result
  <2>2. \A i \in Jobs : i # j => (Bad(i)' <=> Bad(i))
    BY <1>6, Settles DEF Bad
  <2>3. ~spec.dryRun
    BY <1>6, Settles DEF Planned, Running
  <2>4. Serial /\ spec.failFast => \A i, m \in Jobs :
          i < m /\ Bad(i)' /\ pc'[m] = "done" => result'[m].status = "planned"
    <3> SUFFICES ASSUME Serial, spec.failFast, NEW i \in Jobs, NEW m \in Jobs,
                        i < m, Bad(i)', pc'[m] = "done"
                 PROVE  result'[m].status = "planned"
      OBVIOUS
    <3>1. \A n \in Jobs : ~Bad(n)
      BY <1>6, Settles DEF Stopped, Serial
    <3>2. i = j
      BY <2>2, <3>1
    <3>3. pc[m] = "waiting" /\ m # j
      BY <1>6, <3>2, Settles DEF Jobs
    <3> QED
      BY <1>6, <3>3, Settles
  <2>5. \A m \in Jobs : pc'[m] = "done" /\ result'[m].status = "planned" =>
           Serial /\ spec.failFast /\ \E i \in Jobs : i < m /\ Bad(i)'
    BY <1>6, <2>1, <2>3, Settles DEF Planned
  <2> QED
    BY <1>6, <2>3, <2>4, <2>5, Settles DEF Planned, Serial
<1> QED
  BY <1>1, <1>2, <1>3, <1>4, <1>5, <1>6, StepKinds DEF WriteManifest, WriteOutside, Write, vars

-----------------------------------------------------------------------------
\* What is recorded of a job changes to a success only in the judgement of its command.
LEMMA SuccessIsJudged ==
  ASSUME IInv, [Next]_vars, NEW j \in Jobs, pc[j] # "done"
  PROVE  \/ result'[j].status # "succeeded" /\ result'[j].sidecar = NoSidecar
         \/ Judge(j) /\ result'[j] = Verdict(j)
<1> USE DEF IInv, TypeOK
<1>1. result[j] = Result("planned", NoSidecar)
  BY DEF Unjudged
<1>2. CASE BreakPool
  BY <1>1, <1>2 DEF BreakPool, Result
<1>3. ASSUME NEW i \in Jobs, Skip(i) \/ Exit(i) \/ Timeout(i)
      PROVE  result'[j].status # "succeeded" /\ result'[j].sidecar = NoSidecar
  BY <1>1, <1>3 DEF Skip, Exit, Timeout, Settle, Result
<1>4. ASSUME NEW i \in Jobs, Judge(i)
      PROVE  \/ result'[j] = result[j]
             \/ Judge(j) /\ result'[j] = Verdict(j)
  BY <1>4 DEF Judge, Settle
<1>5. CASE UNCHANGED result
  BY <1>1, <1>5 DEF Result
<1>6. \/ UNCHANGED result \/ BreakPool
      \/ \E i \in Jobs : Skip(i) \/ Exit(i) \/ Timeout(i) \/ Judge(i)
  BY StepKinds DEF Validate, WriteManifest, WriteOutside, Start, Write, vars
<1>7. CASE \E i \in Jobs : Judge(i)
  BY <1>1, <1>4, <1>7 DEF Result
<1> QED
  BY <1>2, <1>3, <1>5, <1>6, <1>7

\* A verdict on a returned command is about the job's own sidecar, new and sound.
LEMMA FoundStep == IInv /\ [Next]_vars => Found'
<1> SUFFICES ASSUME IInv, [Next]_vars PROVE Found'
  OBVIOUS
<1> USE DEF IInv
<1>1. ASSUME NEW j \in Jobs, pc[j] = "done"
      PROVE  /\ result'[j] = result[j] /\ before'[j] = before[j] /\ spec' = spec
             /\ result[j].status = "succeeded" =>
                  \A s \in sidecars' : s.by = j => s \in sidecars
  <2>1. j \in orphans => Bad(j)
    BY DEF Written, GivenUp
  <2> QED
    BY <1>1, <2>1, OnlyForward, NewSidecars DEF Bad
<1>2. ASSUME NEW j \in Jobs, Judge(j), result'[j] = Verdict(j)
      PROVE  /\ UNCHANGED <<spec, before, sidecars>>
             /\ spec.required[j] /\ result'[j].status = "succeeded"
                  => result'[j].sidecar # NoSidecar /\ result'[j].sidecar.sound
             /\ spec.look[j] = "search" /\ result'[j].sidecar # NoSidecar
                  => result'[j].sidecar.by # Earlier /\ result'[j].sidecar \notin before[j]
             /\ spec.look[j] = "search" /\ result'[j].status = "succeeded"
                  => \A s \in sidecars : s.by = j => result'[j].sidecar = s
  <2>1. Running(j) /\ UNCHANGED <<spec, before, sidecars>>
    BY <1>2 DEF Judge, Running
  <2>2. ValidSpec
    BY <2>1, RunningIsRun
  <2>3. \A s \in New(j) : s \notin before[j] /\ s \in sidecars /\ s.root = spec.root[j]
    BY DEF New, Under
  <2>4. spec.look[j] = "search" => \A s \in New(j) : s.by # Earlier
    BY <2>1, <2>3 DEF Written, SeesEarlier
  <2>5. \A s \in sidecars : s.by = j => s \in New(j)
    BY DEF Written, Authored, New, Under
  <2> QED
    BY <1>2, <2>1, <2>2, <2>3, <2>4, <2>5, VerdictFacts DEF Written
<1>3. OwnSidecar'
  <2> SUFFICES ASSUME NEW j \in Jobs, spec'.look[j] = "search",
                      result'[j].status = "succeeded",
                      NEW s \in sidecars', s.by = j
               PROVE  result'[j].sidecar # NoSidecar /\ result'[j].sidecar.by = j
    BY DEF OwnSidecar
  <2>1. CASE pc[j] = "done"
    BY <1>1, <2>1 DEF Found, OwnSidecar
  <2>2. CASE pc[j] # "done"
    <3>1. Judge(j) /\ result'[j] = Verdict(j)
      BY <2>2, SuccessIsJudged
    <3>2. result'[j].sidecar = s /\ s \in sidecars
      BY <1>2, <3>1
    <3> QED
      BY <3>2 DEF TypeOK
  <2> QED
    BY <2>1, <2>2
<1>4. RequiredIsFound'
  BY <1>1, <1>2, SuccessIsJudged DEF Found, RequiredIsFound
<1>5. FreshlyFound'
  BY <1>1, <1>2, SuccessIsJudged DEF Found, FreshlyFound
<1> QED
  BY <1>3, <1>4, <1>5 DEF Found

-----------------------------------------------------------------------------
\* The invariant is inductive.
LEMMA InvStep == IInv /\ [Next]_vars => IInv'
BY TypeStep, PhaseStep, WrittenStep, OrderStep, PlannedStep, FoundStep DEF IInv

\* Every behaviour keeps the invariant.
THEOREM Invariance == Spec => []IInv
<1>1. Init => IInv
  BY InitInv
<1>2. IInv /\ [Next]_vars => IInv'
  BY InvStep
<1> QED
  BY <1>1, <1>2, PTL DEF Spec

\* The variables keep their types (the worker's records of controlled_compute.py).
THEOREM TypeCorrect == Spec => []TypeOK
<1>1. IInv => TypeOK
  BY DEF IInv
<1> QED
  BY <1>1, Invariance, PTL

\* A job that wrote a sidecar under its search root and succeeded is recorded with
\* that one, whoever else writes under the root meanwhile
\* (_discover_new_validation_sidecars fails on two candidates).
THEOREM RecordsItsOwn == Spec => []OwnSidecar
<1>1. IInv => OwnSidecar
  BY DEF IInv, Found
<1> QED
  BY <1>1, Invariance, PTL

\* Success of a job whose sidecar is required means a sound one was found.
THEOREM RequiredFound == Spec => []RequiredIsFound
<1>1. IInv => RequiredIsFound
  BY DEF IInv, Found
<1> QED
  BY <1>1, Invariance, PTL

\* A discovered sidecar was made after the look before the command.
THEOREM NeverStale == Spec => []FreshlyFound
<1>1. IInv => FreshlyFound
  BY DEF IInv, Found
<1> QED
  BY <1>1, Invariance, PTL

\* In a written manifest "planned" means a dry run, or a serial one that an earlier
\* failure has stopped (fail_fast of run_controlled_compute).
THEOREM PlannedIsExplained == Spec => []SkipsAreExplained
<1>1. ASSUME IInv PROVE SkipsAreExplained
  <2> SUFFICES ASSUME phase = "written", NEW j \in Jobs
               PROVE  result[j].status = "planned" <=>
                        \/ spec.dryRun
                        \/ Serial /\ spec.failFast /\ \E i \in 1..j-1 : Bad(i)
    BY DEF SkipsAreExplained, Serial
  <2>1. \A i \in Jobs : pc[i] = "done"
    BY <1>1 DEF IInv, Phased
  <2>2. \A i : i \in 1..j-1 <=> i \in Jobs /\ i < j
    BY DEF Jobs
  <2> QED
    BY <1>1, <2>1, <2>2 DEF IInv, Planned
<1> QED
  BY <1>1, Invariance, PTL

\* A recorded result is never revised, whatever befalls the other jobs
\* (results_by_index of run_controlled_compute).
THEOREM ResultsStay == Spec => ResultsAreFinal
<1>1. IInv /\ [Next]_vars =>
        [\A j \in Jobs : pc[j] = "done" => pc'[j] = "done" /\ result'[j] = result[j]]_vars
  BY OnlyForward
<1> QED
  BY <1>1, Invariance, PTL DEF Spec, ResultsAreFinal
=============================================================================
