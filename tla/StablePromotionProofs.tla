----------------------- MODULE StablePromotionProofs ------------------------
(***************************************************************************)
(* What a promotion does to production, for any number of libraries and    *)
(* whatever is staged, rebuilt, lost or killed meanwhile.                  *)
(***************************************************************************)
EXTENDS StablePromotion, TLAPS

\* At every moment of a batch, and so after a kill at that moment, every production
\* file is whole: it holds what it held before or what was staged, and the ones that
\* were touched are the ones that can be put back to what they held.
TornBatchIsRepairable ==
  pc \in InBatch /\ lost = 0 =>
    /\ \A f \in Files : prod[f] # start[f] =>
         /\ prod[f] = staged[f] \/ f[1] \in restaged
         /\ \E i \in DOMAIN touched : touched[i].file = f
    /\ \A i \in DOMAIN touched : touched[i].prior = start[touched[i].file]

Entries == [file : Files, prior : Contents]

\* The library is behind the writer in its batch.
Past(l) == pc = "complete" \/ (pc \in Copying /\ l < at)

\* While a plan is in force it fits what production was when it was made.
PlanFits ==
  pc \in InBatch \cup {"planned", "reported"} =>
    \A l \in Libs : /\ plan[l].outcome = "add" => start[Pkl(l)] = Absent
                    /\ plan[l].outcome = "replace" => start[Pkl(l)] # Absent

\* Between the plan and the gate nothing has been done.
NothingYet ==
  pc = "planned" => /\ prod = start /\ touched = <<>> /\ lost = 0 /\ at = 1
                    /\ report = Nothing /\ overlooked = {}

\* What the log of touched files says of production.
LogIsComplete ==
  pc \in InBatch =>
    /\ \A i \in DOMAIN touched : touched[i].prior = start[touched[i].file]
    /\ lost = 0 => \A f \in Files : prod[f] # start[f] =>
                     /\ \E i \in DOMAIN touched : touched[i].file = f
                     /\ prod[f] = staged[f] \/ f[1] \in restaged

\* The writer touches no file twice: what it has touched is behind it.
TouchedIsPast ==
  pc \in Copying => \A i \in DOMAIN touched : \/ touched[i].file[1] < at
                                              \/ pc = "side" /\ touched[i].file = Pkl(at)

\* Until something fails, nothing is lost, the report names what was touched, and it is as
\* the plan has it.
ReportIsTrue ==
  pc \in Copying \cup {"complete"} =>
    /\ lost = 0 /\ PlanReady
    /\ \A i \in DOMAIN touched, l \in Libs :
         /\ touched[i].file = Pkl(l) => l \in report.added \cup report.replaced
         /\ touched[i].file = Side(l) => l \in report.sides
    /\ \A l \in report.added : plan[l].outcome = "add"
    /\ \A l \in report.replaced : plan[l].outcome = "replace"
    /\ \A l \in report.sides : plan[l].side /\ plan[l].outcome # "unchanged"

\* A library planned as unchanged is staged as production had it, unless it was staged
\* anew, before the second look or after it.
UnchangedIsStaged ==
  pc # "idle" =>
    \A l \in Libs : plan[l].outcome = "unchanged" /\ l \notin restaged \cup overlooked =>
                     staged[Pkl(l)] = start[Pkl(l)]

\* Until something fails, what is behind the writer is in production as it is staged, and
\* what is staged loads, unless it has been staged anew.
PastIsPromoted ==
  pc \in Copying \cup {"complete"} =>
    /\ pc = "side" => plan[at].outcome # "unchanged" /\ plan[at].side
    /\ \A l \in Libs \ restaged :
         /\ Loads(staged, l)
         /\ plan[l].outcome # "unchanged" /\ (Past(l) \/ (pc = "side" /\ l = at)) =>
              prod[Pkl(l)] = staged[Pkl(l)]
         /\ plan[l].outcome # "unchanged" /\ plan[l].side /\ Past(l) =>
              prod[Side(l)] = staged[Side(l)]
    /\ \A l \in Libs : plan[l].outcome = "unchanged" => prod[Pkl(l)] = start[Pkl(l)]

IInv == /\ TypeOK /\ PlanFits /\ UnchangedIsStaged /\ NothingYet /\ LogIsComplete /\ TouchedIsPast
        /\ ReportIsTrue /\ PastIsPromoted
        /\ AllOrNothing /\ CompleteIsPromoted /\ PromotedLoads

Results == AllOrNothing /\ CompleteIsPromoted /\ PromotedLoads
Batch == LogIsComplete /\ TouchedIsPast /\ ReportIsTrue /\ PastIsPromoted

LEMMA FilesDiffer ==
  /\ \A l \in Libs : Pkl(l) \in Files /\ Side(l) \in Files /\ Pkl(l)[1] = l /\ Side(l)[1] = l
  /\ \A l, m \in Libs : /\ Pkl(l) # Side(m)
                        /\ Pkl(l) = Pkl(m) => l = m
                        /\ Side(l) = Side(m) => l = m
  /\ \A f \in Files : f[1] \in Libs /\ (f = Pkl(f[1]) \/ f = Side(f[1]))
BY DEF Files, Pkl, Side

LEMMA Steps ==
  /\ InBatch = {"pkl", "side", "complete", "rollback"} /\ Copying = {"pkl", "side"}
  /\ 1 \in Libs /\ N \in Libs /\ N \in Nat /\ Libs \subseteq Nat
BY CountsAreCounts DEF InBatch, Copying, Libs

-----------------------------------------------------------------------------
(* Types. *)
LEMMA Blanks ==
  /\ NoPlan \in [Libs -> [outcome : Outcomes, side : BOOLEAN]]
  /\ Nothing \in [wrote : BOOLEAN, added : SUBSET Libs, replaced : SUBSET Libs,
                  sides : SUBSET Libs]
  /\ <<>> \in Seq([file : Files, prior : Contents])
  /\ 1 \in Libs /\ 0 \in 0 .. MaxLosses /\ 0 \in 0 .. MaxChanges
BY Steps, CountsAreCounts DEF NoPlan, Nothing, Outcomes

LEMMA InitTyped == Init => TypeOK
BY Blanks DEF Init, TypeOK

LEMMA ChangesTyped ==
  ASSUME TypeOK, NEW l \in Libs, Stage(l) \/ Rebuild(l)
  PROVE  TypeOK'
<1>1. changes' \in 0 .. MaxChanges
  BY CountsAreCounts DEF TypeOK, Stage, Rebuild
<1>2. Pkl(l) \in Files /\ Side(l) \in Files /\ Builds \subseteq Contents /\ Sound \subseteq Contents
  BY FilesDiffer, KindsOfBuilds DEF Contents
<1>3. \A g \in [Files -> Contents], b, s \in Contents :
        [g EXCEPT ![Pkl(l)] = b, ![Side(l)] = s] \in [Files -> Contents]
  BY <1>2
<1>4. CASE Stage(l)
  <2>1. PICK b \in Builds, s \in Contents :
             staged' = [staged EXCEPT ![Pkl(l)] = b, ![Side(l)] = s]
    BY <1>4 DEF Stage
  <2>2. staged' \in [Files -> Contents]
    BY <1>2, <1>3, <2>1 DEF TypeOK
  <2> QED
    BY <1>1, <1>4, <2>2 DEF TypeOK, Stage, Copying
<1>5. CASE Rebuild(l)
  <2>1. PICK b \in Sound, s \in Contents :
             prod' = [prod EXCEPT ![Pkl(l)] = b, ![Side(l)] = s]
    BY <1>5 DEF Rebuild
  <2>2. prod' \in [Files -> Contents]
    BY <1>2, <1>3, <2>1 DEF TypeOK
  <2> QED
    BY <1>1, <1>5, <2>2 DEF TypeOK, Rebuild, Copying
<1> QED
  BY <1>4, <1>5

LEMMA PlanTyped ==
  ASSUME TypeOK, Plan \/ Gate
  PROVE  TypeOK'
<1>1. Planned \in [Libs -> [outcome : Outcomes, side : BOOLEAN]]
  <2>1. \A l \in Libs : OutcomeOf(l) \in Outcomes
    BY DEF OutcomeOf, Outcomes
  <2> QED
    BY <2>1 DEF Planned
<1>3. CASE Plan
  BY <1>1, <1>3, Blanks DEF Plan, TypeOK
<1>4. CASE Gate
  BY <1>4 DEF Gate, LookedAt, TypeOK, Copying
<1> QED
  BY <1>3, <1>4

LEMMA Advanced ==
  ASSUME TypeOK, Advance(at)
  PROVE  /\ at' \in Libs
         /\ \/ pc' = "pkl" /\ at < N /\ at' = at + 1
            \/ pc' = "complete" /\ at = N /\ at' = at
BY CountsAreCounts DEF Advance, TypeOK, Libs

LEMMA Copied ==
  ASSUME TypeOK, NEW f \in Files, Copy(f)
  PROVE  /\ prod' \in [Files -> Contents]
         /\ touched' \in Seq(Entries)
         /\ prod'[f] = staged[f] /\ \A g \in Files : g # f => prod'[g] = prod[g]
         /\ DOMAIN touched \subseteq DOMAIN touched'
         /\ \A i \in DOMAIN touched : touched'[i] = touched[i]
         /\ \E i \in DOMAIN touched' : touched'[i] = [file |-> f, prior |-> prod[f]]
         /\ \A i \in DOMAIN touched' : \/ i \in DOMAIN touched
                                       \/ touched'[i] = [file |-> f, prior |-> prod[f]]
<1> DEFINE e == [file |-> f, prior |-> prod[f]]
<1>1. e \in Entries /\ touched \in Seq(Entries) /\ touched' = Append(touched, e)
  BY DEF TypeOK, Entries, Copy
<1> HIDE DEF e
<1>2. /\ Len(touched) \in Nat /\ DOMAIN touched = 1 .. Len(touched)
      /\ DOMAIN touched' = 1 .. Len(touched) + 1
      /\ touched'[Len(touched) + 1] = e
      /\ \A i \in 1 .. Len(touched) : touched'[i] = touched[i]
  BY <1>1
<1>3. touched' \in Seq(Entries)
  BY <1>1
<1>4. staged[f] \in Contents /\ prod' = [prod EXCEPT ![f] = staged[f]] /\ prod \in [Files -> Contents]
  BY DEF Copy, TypeOK
<1>5. /\ prod' \in [Files -> Contents]
      /\ prod'[f] = staged[f] /\ \A g \in Files : g # f => prod'[g] = prod[g]
  BY <1>4
<1>6. /\ DOMAIN touched \subseteq DOMAIN touched'
      /\ \A i \in DOMAIN touched : touched'[i] = touched[i]
      /\ \E i \in DOMAIN touched' : touched'[i] = e
      /\ \A i \in DOMAIN touched' : i \in DOMAIN touched \/ touched'[i] = e
  BY <1>2
<1> QED
  BY <1>3, <1>5, <1>6 DEF e

LEMMA CopyTyped ==
  ASSUME TypeOK, CopyPkl \/ CopySide
  PROVE  TypeOK'
<1> DEFINE Reports == [wrote : BOOLEAN, added : SUBSET Libs, replaced : SUBSET Libs,
                       sides : SUBSET Libs]
<1>1. at \in Libs /\ Pkl(at) \in Files /\ Side(at) \in Files
  BY FilesDiffer DEF TypeOK
<1>2. Logged(at) \in Reports /\ [report EXCEPT !.sides = @ \cup {at}] \in Reports
  BY <1>1 DEF TypeOK, Logged
<1>3. CASE CopyPkl
  <2>1. CASE Advance(at) /\ UNCHANGED <<prod, touched, report>>
    BY <1>3, <2>1, Advanced DEF CopyPkl, TypeOK, Copying
  <2>2. CASE /\ Copy(Pkl(at)) /\ report' = Logged(at)
             /\ IF plan[at].side THEN pc' = "side" /\ at' = at ELSE Advance(at)
    <3>1. at' \in Libs /\ pc' \in {"pkl", "side", "complete"}
      BY <1>1, <2>2, Advanced
    <3>2. prod' \in [Files -> Contents] /\ touched' \in Seq(Entries)
      BY <1>1, <2>2, Copied
    <3> QED
      BY <1>2, <1>3, <2>2, <3>1, <3>2 DEF CopyPkl, TypeOK, Copying, Entries
  <2>3. CASE Fail
    BY <1>3, <2>3 DEF CopyPkl, Fail, TypeOK
  <2> QED
    BY <1>3, <2>1, <2>2, <2>3 DEF CopyPkl
<1>4. CASE CopySide
  <2>1. CASE Copy(Side(at)) /\ Advance(at) /\ report' = [report EXCEPT !.sides = @ \cup {at}]
    <3>1. at' \in Libs /\ pc' \in {"pkl", "complete"}
      BY <2>1, Advanced
    <3>2. prod' \in [Files -> Contents] /\ touched' \in Seq(Entries)
      BY <1>1, <2>1, Copied
    <3> QED
      BY <1>2, <1>4, <2>1, <3>1, <3>2 DEF CopySide, TypeOK, Copying, Entries
  <2>2. CASE Fail
    BY <1>4, <2>2 DEF CopySide, Fail, TypeOK
  <2> QED
    BY <1>4, <2>1, <2>2 DEF CopySide
<1> QED
  BY <1>3, <1>4

LEMMA Restored ==
  ASSUME TypeOK, Restore
  PROVE  \E k \in DOMAIN touched :
           /\ touched[k] \in Entries
           /\ \/ prod' = [prod EXCEPT ![touched[k].file] = touched[k].prior] /\ UNCHANGED lost
              \/ UNCHANGED prod /\ lost' = lost + 1 /\ lost < MaxLosses
           /\ touched' \in Seq(Entries)
           /\ DOMAIN touched' = DOMAIN touched \ {k}
           /\ \A i \in DOMAIN touched' : touched'[i] = touched[i]
<1> DEFINE k == Len(touched)
<1>1. touched \in Seq(Entries) /\ touched # <<>>
  BY DEF TypeOK, Entries, Restore
<1>2. k \in Nat \ {0} /\ DOMAIN touched = 1 .. k
  BY <1>1
<1>3. /\ touched' = SubSeq(touched, 1, k - 1)
      /\ \/ prod' = [prod EXCEPT ![touched[k].file] = touched[k].prior] /\ UNCHANGED lost
         \/ UNCHANGED prod /\ lost' = lost + 1 /\ lost < MaxLosses
  BY DEF Restore
<1> HIDE DEF k
<1>4. /\ touched' \in Seq(Entries) /\ DOMAIN touched' = 1 .. k - 1
      /\ \A i \in 1 .. k - 1 : touched'[i] = touched[i]
  BY <1>1, <1>2, <1>3
<1>5. k \in DOMAIN touched /\ touched[k] \in Entries
  BY <1>1, <1>2
<1>6. DOMAIN touched' = DOMAIN touched \ {k}
  BY <1>2, <1>4
<1> QED
  BY <1>3, <1>4, <1>5, <1>6

LEMMA EndTyped ==
  ASSUME TypeOK, Complete \/ Restore \/ RolledBack \/ Kill
  PROVE  TypeOK'
<1>1. CASE Complete
  BY <1>1 DEF Complete, TypeOK
<1>2. CASE Restore
  <2>1. PICK k \in DOMAIN touched :
           /\ touched[k] \in Entries
           /\ \/ prod' = [prod EXCEPT ![touched[k].file] = touched[k].prior] /\ UNCHANGED lost
              \/ UNCHANGED prod /\ lost' = lost + 1 /\ lost < MaxLosses
           /\ touched' \in Seq(Entries)
    BY <1>2, Restored
  <2>2. prod' \in [Files -> Contents]
    BY <2>1 DEF TypeOK, Entries
  <2>3. lost' \in 0 .. MaxLosses
    BY <2>1, CountsAreCounts DEF TypeOK
  <2> QED
    BY <1>2, <2>1, <2>2, <2>3 DEF Restore, TypeOK, Entries
<1>3. CASE RolledBack
  BY <1>3, Blanks DEF RolledBack, TypeOK
<1>4. CASE Kill
  BY <1>4, Blanks DEF Kill, TypeOK
<1> QED
  BY <1>1, <1>2, <1>3, <1>4

LEMMA NextTyped == TypeOK /\ [Next]_vars => TypeOK'
<1> SUFFICES ASSUME TypeOK, [Next]_vars PROVE TypeOK'
  OBVIOUS
<1>1. CASE UNCHANGED vars
  BY <1>1 DEF vars, TypeOK
<1>2. CASE Next
  BY <1>2, ChangesTyped, PlanTyped, CopyTyped, EndTyped DEF Next
<1> QED
  BY <1>1, <1>2

\* Every variable keeps its type, for any number of libraries.
THEOREM TypesHold == Spec => []TypeOK
BY InitTyped, NextTyped, PTL DEF Spec

-----------------------------------------------------------------------------
(* The invariant, action by action. *)
Rest == PlanFits /\ UnchangedIsStaged /\ NothingYet /\ Batch /\ Results

LEMMA InitRest == Init => Rest
BY DEF Init, Rest, PlanFits, UnchangedIsStaged, NothingYet, Batch, Results, LogIsComplete, TouchedIsPast,
       ReportIsTrue, PastIsPromoted, AllOrNothing, CompleteIsPromoted, PromotedLoads,
       InBatch, Copying

\* While nothing is in progress there is nothing to show.
LEMMA IdleRest == ASSUME pc' = "idle" PROVE Rest'
BY DEF Rest, PlanFits, UnchangedIsStaged, NothingYet, Batch, Results, LogIsComplete, TouchedIsPast,
       ReportIsTrue, PastIsPromoted, AllOrNothing, CompleteIsPromoted, PromotedLoads,
       InBatch, Copying

LEMMA StageRest ==
  ASSUME TypeOK, Rest, NEW l \in Libs, Stage(l)
  PROVE  Rest'
<1>1. CASE pc = "reported"
  BY <1>1, IdleRest DEF Stage
<1>2. CASE pc # "reported"
  <2>1. /\ pc' = pc /\ restaged' = restaged \cup {l}
        /\ UNCHANGED <<prod, at, plan, granted, touched, start, report, lost, overlooked>>
    BY <1>2 DEF Stage
  <2>2. \A f \in Files : f[1] # l => staged'[f] = staged[f]
    BY FilesDiffer DEF Stage, TypeOK
  <2>3. PlanFits' /\ NothingYet' /\ TouchedIsPast' /\ ReportIsTrue'
    BY <2>1 DEF Rest, Batch, PlanFits, NothingYet, TouchedIsPast, ReportIsTrue, PlanReady
  <2>4. LogIsComplete'
    <3>1. ASSUME NEW f \in Files, prod[f] = staged[f] \/ f[1] \in restaged
          PROVE  prod'[f] = staged'[f] \/ f[1] \in restaged'
      BY <2>1, <2>2, <3>1
    <3> QED
      BY <2>1, <3>1 DEF Rest, Batch, LogIsComplete
  <2>5. PastIsPromoted'
    <3>1. \A m \in Libs \ restaged' : /\ m \in Libs \ restaged
                                      /\ staged'[Pkl(m)] = staged[Pkl(m)]
                                      /\ staged'[Side(m)] = staged[Side(m)]
      BY <2>1, <2>2, FilesDiffer
    <3>2. \A m \in Libs \ restaged' : Loads(staged, m) => Loads(staged', m)
      BY <3>1 DEF Loads
    <3>3. \A m : Past(m)' <=> Past(m)
      BY <2>1 DEF Past
    <3> QED
      BY <2>1, <3>1, <3>2, <3>3 DEF Rest, Batch, PastIsPromoted
  <2>6. Results'
    BY <1>2, <2>1 DEF Results, AllOrNothing, CompleteIsPromoted, PromotedLoads
  <2>7. UnchangedIsStaged'
    <3>1. ASSUME NEW m \in Libs, m \notin restaged' \cup overlooked'
          PROVE  m \notin restaged \cup overlooked /\ staged'[Pkl(m)] = staged[Pkl(m)]
      BY <2>1, <2>2, <3>1, FilesDiffer
    <3> QED
      BY <2>1, <3>1 DEF Rest, UnchangedIsStaged
  <2> QED
    BY <2>3, <2>4, <2>5, <2>6, <2>7 DEF Rest, Batch
<1> QED
  BY <1>1, <1>2

LEMMA PlanRest ==
  ASSUME Plan
  PROVE  Rest'
<1>1. /\ pc' = "planned" /\ plan' = Planned /\ start' = prod /\ prod' = prod
      /\ touched' = <<>> /\ report' = Nothing /\ lost' = 0 /\ at' = 1 /\ overlooked' = {}
  BY DEF Plan
<1>2. PlanFits'
  BY <1>1 DEF PlanFits, Planned, OutcomeOf
<1>3. NothingYet'
  BY <1>1 DEF NothingYet
<1>4. Batch' /\ Results'
  BY <1>1 DEF Batch, Results, LogIsComplete, TouchedIsPast, ReportIsTrue, PastIsPromoted,
              AllOrNothing, CompleteIsPromoted, PromotedLoads, InBatch, Copying
<1>5. UnchangedIsStaged'
  <2>1. \A l \in Libs : OutcomeOf(l) = "unchanged" => prod[Pkl(l)] = staged[Pkl(l)]
    BY DEF OutcomeOf
  <2>2. UNCHANGED staged
    BY DEF Plan
  <2> QED
    BY <1>1, <2>1, <2>2 DEF UnchangedIsStaged, Planned
<1> QED
  BY <1>2, <1>3, <1>4, <1>5 DEF Rest

LEMMA GateRest ==
  ASSUME TypeOK, Rest, Gate
  PROVE  Rest'
<1>1. /\ pc = "planned" /\ restaged' = {}
      /\ overlooked' = {l \in restaged : plan[l].outcome = "unchanged"}
      /\ UNCHANGED <<staged, prod, at, plan, granted, touched, start, report, lost, changes>>
  BY DEF Gate, LookedAt
<1>2. prod = start /\ touched = <<>> /\ lost = 0 /\ at = 1 /\ report = Nothing
      /\ overlooked = {}
  BY <1>1 DEF Rest, NothingYet
<1>3. PlanFits'
  BY <1>1 DEF Gate, Rest, PlanFits
<1>6. UnchangedIsStaged'
  <2>1. \A l : l \in restaged /\ plan[l].outcome = "unchanged" => l \in overlooked'
    BY <1>1
  <2>2. \A l \in Libs : plan[l].outcome = "unchanged" /\ l \notin restaged =>
                       staged[Pkl(l)] = start[Pkl(l)]
    <3>1. ASSUME NEW l \in Libs, plan[l].outcome = "unchanged", l \notin restaged
          PROVE  staged[Pkl(l)] = start[Pkl(l)]
      BY <1>1, <1>2, <3>1 DEF Rest, UnchangedIsStaged
    <3> QED
      BY <3>1
  <2> QED
    BY <1>1, <2>1, <2>2 DEF UnchangedIsStaged
<1>4. CASE pc' = "reported"
  BY <1>1, <1>2, <1>3, <1>4, <1>6
  DEF Rest, NothingYet, Batch, Results, LogIsComplete, TouchedIsPast, ReportIsTrue,
      PastIsPromoted, AllOrNothing, CompleteIsPromoted, PromotedLoads, InBatch, Copying, Nothing
<1>5. CASE pc' = "pkl" /\ PlanReady /\ \A l \in Libs : Loads(staged, l)
  <2>1. NothingYet' /\ Results'
    BY <1>5 DEF NothingYet, Results, AllOrNothing, CompleteIsPromoted, PromotedLoads
  <2>2. LogIsComplete' /\ TouchedIsPast'
    BY <1>1, <1>2, <1>5 DEF LogIsComplete, TouchedIsPast
  <2>3. ReportIsTrue'
    BY <1>1, <1>2, <1>5 DEF ReportIsTrue, PlanReady, Nothing
  <2>4. \A l \in Libs : ~Past(l)'
    BY <1>1, <1>2, <1>5 DEF Past, Libs
  <2>5. PastIsPromoted'
    BY <1>1, <1>2, <1>5, <2>4 DEF PastIsPromoted, Loads
  <2> QED
    BY <1>3, <1>6, <2>1, <2>2, <2>3, <2>5 DEF Rest, Batch
<1> QED
  BY <1>4, <1>5 DEF Gate

\* A step that fails leaves the log as it is.
LEMMA FailRest ==
  ASSUME TypeOK, Rest, CopyPkl \/ CopySide, Fail
  PROVE  Rest'
<1>1. /\ pc \in Copying /\ pc' = "rollback"
      /\ UNCHANGED <<staged, at, prod, touched, report, plan, start, lost, restaged,
                   overlooked>>
  BY DEF CopyPkl, CopySide, Fail, Copying
<1>2. PlanFits' /\ LogIsComplete'
  BY <1>1 DEF Rest, Batch, PlanFits, LogIsComplete, InBatch
<1>3. UnchangedIsStaged'
  BY <1>1 DEF Rest, UnchangedIsStaged, Copying
<1> QED
  BY <1>1, <1>2, <1>3 DEF Rest, NothingYet, Batch, Results, TouchedIsPast, ReportIsTrue,
      PastIsPromoted, AllOrNothing, CompleteIsPromoted, PromotedLoads, Copying

\* What a copy of a file that has not been touched leaves of the log.
LEMMA CopyLogged ==
  ASSUME TypeOK, Rest, NEW f \in Files, Copy(f), pc \in Copying,
         \A i \in DOMAIN touched : touched[i].file # f,
         UNCHANGED <<staged, start, restaged, lost>>
  PROVE  LogIsComplete'
<1>1. lost = 0 /\ pc \in InBatch
  BY DEF Rest, Batch, ReportIsTrue, InBatch
<1>2. \A g \in Files : prod[g] # start[g] =>
        /\ \E i \in DOMAIN touched : touched[i].file = g
        /\ prod[g] = staged[g] \/ g[1] \in restaged
  BY <1>1 DEF Rest, Batch, LogIsComplete
<1>3. prod[f] = start[f]
  BY <1>2
<1>4. \A i \in DOMAIN touched' : touched'[i].prior = start'[touched'[i].file]
  <2> SUFFICES ASSUME NEW i \in DOMAIN touched' PROVE touched'[i].prior = start[touched'[i].file]
    OBVIOUS
  <2>1. CASE i \in DOMAIN touched
    BY <1>1, <2>1, Copied DEF Rest, Batch, LogIsComplete
  <2>2. CASE touched'[i] = [file |-> f, prior |-> prod[f]]
    BY <1>3, <2>2
  <2> QED
    BY <2>1, <2>2, Copied
<1>5. ASSUME NEW g \in Files, prod'[g] # start'[g]
      PROVE  /\ \E i \in DOMAIN touched' : touched'[i].file = g
             /\ prod'[g] = staged'[g] \/ g[1] \in restaged'
  <2>1. CASE g = f
    <3>1. PICK i \in DOMAIN touched' : touched'[i] = [file |-> f, prior |-> prod[f]]
      BY Copied
    <3>2. touched'[i].file = g
      BY <2>1, <3>1
    <3>3. prod'[g] = staged'[g]
      BY <2>1, Copied
    <3> QED
      BY <3>2, <3>3
  <2>2. CASE g # f
    <3>1. prod'[g] = prod[g]
      BY <2>2, Copied
    <3>2. PICK i \in DOMAIN touched : touched[i].file = g
      BY <1>2, <1>5, <3>1
    <3>3. i \in DOMAIN touched' /\ touched'[i].file = g
      BY <3>2, Copied
    <3> QED
      BY <1>2, <1>5, <3>1, <3>3
  <2> QED
    BY <2>1, <2>2
<1> QED
  BY <1>4, <1>5 DEF LogIsComplete

LEMMA EntriesTyped == ASSUME TypeOK PROVE \A k \in DOMAIN touched : touched[k] \in Entries
<1>1. touched \in Seq(Entries)
  BY DEF TypeOK, Entries
<1> QED
  BY <1>1

LEMMA NotPast == ASSUME TypeOK, pc \in Copying PROVE ~Past(at)
BY Steps DEF Past, TypeOK, Copying

LEMMA PastGrows ==
  ASSUME TypeOK, pc \in Copying, Advance(at)
  PROVE  \A l \in Libs : Past(l)' => Past(l) \/ l = at
<1> SUFFICES ASSUME NEW l \in Libs, Past(l)' PROVE Past(l) \/ l = at
  OBVIOUS
<1>1. l \in Nat /\ at \in Nat /\ l <= N /\ N \in Nat
  BY CountsAreCounts DEF TypeOK, Libs
<1>2. CASE pc' = "pkl" /\ at' = at + 1
  BY <1>1, <1>2 DEF Past
<1>3. CASE at = N
  BY <1>1, <1>3 DEF Past
<1> QED
  BY <1>2, <1>3, Advanced

\* Going on with the next library, when the writer has done what the plan asks of this one.
LEMMA SkipRest ==
  ASSUME TypeOK, Rest, CopyPkl, plan[at].outcome = "unchanged", Advance(at),
         UNCHANGED <<prod, touched, report>>
  PROVE  Rest'
<1>1. /\ pc = "pkl" /\ pc \in Copying /\ pc \in InBatch
      /\ UNCHANGED <<staged, plan, start, lost, restaged, overlooked, prod, touched, report>>
  BY DEF CopyPkl, Copying, InBatch
<1>2. pc' \in {"pkl", "complete"}
  BY Advanced
<1>3. PlanFits' /\ UnchangedIsStaged' /\ LogIsComplete' /\ NothingYet' /\ Results'
  BY <1>1, <1>2 DEF Rest, Batch, PlanFits, UnchangedIsStaged, LogIsComplete, NothingYet, InBatch,
                    Results, AllOrNothing, CompleteIsPromoted, PromotedLoads
<1>4. ReportIsTrue'
  BY <1>1, <1>2 DEF Rest, Batch, ReportIsTrue, PlanReady
<1>5. TouchedIsPast'
  <2>1. CASE pc' = "pkl" /\ at' = at + 1
    <3> SUFFICES ASSUME NEW k \in DOMAIN touched PROVE touched[k].file[1] < at + 1
      BY <1>1, <2>1 DEF TouchedIsPast
    <3>1. touched[k].file[1] < at
      BY <1>1 DEF Rest, Batch, TouchedIsPast
    <3>2. touched[k] \in Entries
      BY EntriesTyped
    <3>3. touched[k].file[1] \in Nat /\ at \in Nat
      BY <3>2, FilesDiffer DEF Entries, TypeOK, Libs
    <3> QED
      BY <3>1, <3>3
  <2>2. CASE pc' = "complete"
    BY <2>2 DEF TouchedIsPast, Copying
  <2> QED
    BY <2>1, <2>2, Advanced
<1>6. PastIsPromoted'
  <2>1. \A l \in Libs : Past(l)' => Past(l) \/ l = at
    BY <1>1, PastGrows
  <2>2. \A l \in Libs : Loads(staged, l) => Loads(staged', l)
    BY <1>1
  <2> QED
    BY <1>1, <1>2, <2>1, <2>2 DEF Rest, Batch, PastIsPromoted
<1> QED
  BY <1>3, <1>4, <1>5, <1>6 DEF Rest, Batch

\* What the writer is about to copy it has not touched.
LEMMA Untouched ==
  ASSUME TypeOK, Rest, NEW f \in Files, pc \in Copying, f[1] = at, pc = "side" => f = Side(at)
  PROVE  \A k \in DOMAIN touched : touched[k].file # f
<1> SUFFICES ASSUME NEW k \in DOMAIN touched, touched[k].file = f PROVE FALSE
  OBVIOUS
<1>1. at \in Nat
  BY DEF TypeOK, Libs
<1>2. ~(touched[k].file[1] < at)
  BY <1>1
<1>3. pc = "side" /\ f = Pkl(at)
  BY <1>2 DEF Rest, Batch, TouchedIsPast
<1> QED
  BY <1>3, FilesDiffer DEF TypeOK

\* What is common to the two copies of a library.
LEMMA CopyRest ==
  ASSUME TypeOK, Rest, NEW f \in Files, pc \in Copying, Copy(f), f[1] = at,
         pc = "side" => f = Side(at), pc = "pkl" => f = Pkl(at),
         plan[at].outcome # "unchanged",
         pc' \in Copying \cup {"complete"},
         UNCHANGED <<staged, plan, granted, start, lost, restaged, overlooked, changes>>
  PROVE  PlanFits' /\ UnchangedIsStaged' /\ LogIsComplete' /\ NothingYet' /\ Results'
<1>1. \A k \in DOMAIN touched : touched[k].file # f
  BY Untouched
<1>2. LogIsComplete'
  BY <1>1, CopyLogged
<1>3. PlanFits'
  BY DEF Rest, PlanFits, InBatch, Copying
<1>4. NothingYet' /\ Results'
  BY DEF NothingYet, Results, AllOrNothing, CompleteIsPromoted, PromotedLoads, Copying
<1>5. UnchangedIsStaged'
  BY DEF Rest, UnchangedIsStaged, Copying
<1> QED
  BY <1>2, <1>3, <1>4, <1>5

\* What a copy of a library's file leaves of the others.
LEMMA CopyKeepsPast ==
  ASSUME TypeOK, Rest, NEW f \in Files, pc \in Copying, Copy(f), f[1] = at,
         plan[at].outcome # "unchanged",
         UNCHANGED <<staged, plan, granted, start, lost, restaged, overlooked, changes>>
  PROVE  /\ \A l \in Libs \ (restaged \cup {at}) :
              /\ plan[l].outcome # "unchanged" /\ Past(l) => prod'[Pkl(l)] = staged[Pkl(l)]
              /\ plan[l].outcome # "unchanged" /\ plan[l].side /\ Past(l) =>
                   prod'[Side(l)] = staged[Side(l)]
         /\ \A l \in Libs : plan[l].outcome = "unchanged" => prod'[Pkl(l)] = start'[Pkl(l)]
         /\ \A l \in Libs \ restaged : Loads(staged', l)
<1>1. \A l \in Libs : l # at => prod'[Pkl(l)] = prod[Pkl(l)] /\ prod'[Side(l)] = prod[Side(l)]
  BY Copied, FilesDiffer
<1>2. PastIsPromoted
  BY DEF Rest, Batch
<1> QED
  BY <1>1, <1>2 DEF PastIsPromoted

\* A touched file stays behind the writer.
LEMMA TouchedStaysPast ==
  ASSUME TypeOK, Rest, NEW f \in Files, pc \in Copying, Copy(f), f[1] = at, Advance(at)
  PROVE  TouchedIsPast'
<1>1. CASE pc' = "complete"
  BY <1>1 DEF TouchedIsPast, Copying
<1>2. CASE pc' = "pkl" /\ at' = at + 1
  <2> SUFFICES ASSUME NEW k \in DOMAIN touched' PROVE touched'[k].file[1] < at + 1
    BY <1>2 DEF TouchedIsPast
  <2>1. at \in Nat
    BY DEF TypeOK, Libs
  <2>2. CASE k \in DOMAIN touched
    <3>1. touched'[k] = touched[k] /\ touched[k] \in Entries
      BY <2>2, Copied, EntriesTyped
    <3>2. touched[k].file[1] < at \/ touched[k].file = Pkl(at)
      BY <2>2 DEF Rest, Batch, TouchedIsPast
    <3>3. touched[k].file[1] \in Nat
      BY <3>1, FilesDiffer DEF Entries, Libs
    <3>4. Pkl(at)[1] = at
      BY FilesDiffer DEF TypeOK
    <3> QED
      BY <2>1, <3>1, <3>2, <3>3, <3>4
  <2>3. CASE touched'[k] = [file |-> f, prior |-> prod[f]]
    BY <2>1, <2>3
  <2> QED
    BY <2>2, <2>3, Copied
<1> QED
  BY <1>1, <1>2, Advanced

LEMMA CopyPklRest ==
  ASSUME TypeOK, Rest, CopyPkl, plan[at].outcome # "unchanged",
         Copy(Pkl(at)), report' = Logged(at),
         IF plan[at].side THEN pc' = "side" /\ at' = at ELSE Advance(at)
  PROVE  Rest'
<1>1. /\ pc = "pkl" /\ pc \in Copying /\ pc' \in Copying \cup {"complete"}
      /\ UNCHANGED <<staged, plan, granted, start, lost, restaged, overlooked, changes>>
  BY Advanced DEF CopyPkl, Copying
<1>2. at \in Libs /\ Pkl(at) \in Files /\ Pkl(at)[1] = at
  BY FilesDiffer DEF TypeOK
<1>3. PlanFits' /\ UnchangedIsStaged' /\ LogIsComplete' /\ NothingYet' /\ Results'
  BY <1>1, <1>2, CopyRest
<1>4. TouchedIsPast'
  <2>1. CASE ~plan[at].side
    BY <1>1, <1>2, <2>1, TouchedStaysPast
  <2>2. CASE plan[at].side
    <3> SUFFICES ASSUME NEW k \in DOMAIN touched'
                 PROVE  touched'[k].file[1] < at \/ touched'[k].file = Pkl(at)
      BY <2>2 DEF TouchedIsPast
    <3>1. CASE k \in DOMAIN touched
      BY <1>1, <1>2, <3>1, Copied DEF Rest, Batch, TouchedIsPast
    <3>2. CASE touched'[k] = [file |-> Pkl(at), prior |-> prod[Pkl(at)]]
      BY <3>2
    <3> QED
      BY <1>2, <3>1, <3>2, Copied
  <2> QED
    BY <2>1, <2>2
<1>5. ReportIsTrue'
  <2>1. ReportIsTrue /\ lost = 0 /\ PlanReady
    BY <1>1 DEF Rest, Batch, ReportIsTrue
  <2>2. /\ report'.sides = report.sides
        /\ at \in report'.added \cup report'.replaced
        /\ report.added \subseteq report'.added /\ report.replaced \subseteq report'.replaced
        /\ \A l \in report'.added : l \in report.added \/ (l = at /\ plan[at].outcome = "add")
        /\ \A l \in report'.replaced :
             l \in report.replaced \/ (l = at /\ plan[at].outcome # "add")
    BY DEF Logged, TypeOK
  <2>3. plan[at].outcome \in {"add", "replace"}
    BY <1>2, <2>1 DEF PlanReady, TypeOK, Outcomes
  <2>4. ASSUME NEW k \in DOMAIN touched', NEW l \in Libs
        PROVE  /\ touched'[k].file = Pkl(l) => l \in report'.added \cup report'.replaced
               /\ touched'[k].file = Side(l) => l \in report'.sides
    <3>1. CASE k \in DOMAIN touched
      BY <1>1, <1>2, <2>1, <2>2, <3>1, Copied DEF ReportIsTrue
    <3>2. CASE touched'[k].file = Pkl(at)
      BY <1>2, <2>2, <3>2, FilesDiffer
    <3> QED
      BY <1>2, <3>1, <3>2, Copied
  <2>5. PlanReady' /\ lost' = 0
    BY <1>1, <2>1 DEF PlanReady
  <2>6. /\ \A l \in report'.added : plan'[l].outcome = "add"
        /\ \A l \in report'.replaced : plan'[l].outcome = "replace"
        /\ \A l \in report'.sides : plan'[l].side /\ plan'[l].outcome # "unchanged"
    BY <1>1, <2>1, <2>2, <2>3 DEF ReportIsTrue
  <2> QED
    BY <2>4, <2>5, <2>6 DEF ReportIsTrue
<1>6. PastIsPromoted'
  <2>1. /\ \A l \in Libs \ (restaged \cup {at}) :
             /\ plan[l].outcome # "unchanged" /\ Past(l) => prod'[Pkl(l)] = staged[Pkl(l)]
             /\ plan[l].outcome # "unchanged" /\ plan[l].side /\ Past(l) =>
                  prod'[Side(l)] = staged[Side(l)]
        /\ \A l \in Libs : plan[l].outcome = "unchanged" => prod'[Pkl(l)] = start'[Pkl(l)]
        /\ \A l \in Libs \ restaged : Loads(staged', l)
    BY <1>1, <1>2, CopyKeepsPast
  <2>2. prod'[Pkl(at)] = staged[Pkl(at)]
    BY <1>2, Copied
  <2>3. \A l \in Libs : Past(l)' => Past(l) \/ (l = at /\ ~plan[at].side)
    <3>1. CASE ~plan[at].side
      BY <1>1, <3>1, PastGrows
    <3>2. CASE plan[at].side
      BY <1>1, <3>2 DEF Past, Copying
    <3> QED
      BY <3>1, <3>2
  <2>4. pc' = "side" => at' = at /\ plan[at].side
    BY Advanced
  <2>5. ASSUME NEW l \in Libs \ restaged
        PROVE  /\ plan[l].outcome # "unchanged" /\ (Past(l)' \/ (pc' = "side" /\ l = at')) =>
                    prod'[Pkl(l)] = staged[Pkl(l)]
               /\ plan[l].outcome # "unchanged" /\ plan[l].side /\ Past(l)' =>
                    prod'[Side(l)] = staged[Side(l)]
    <3>1. CASE l = at
      BY <1>1, <2>2, <2>3, <2>4, <3>1, NotPast
    <3>2. CASE l # at
      BY <2>1, <2>3, <2>4, <3>2
    <3> QED
      BY <3>1, <3>2
  <2> QED
    BY <1>1, <2>1, <2>4, <2>5 DEF PastIsPromoted
<1> QED
  BY <1>3, <1>4, <1>5, <1>6 DEF Rest, Batch

LEMMA CopySideRest ==
  ASSUME TypeOK, Rest, CopySide, Copy(Side(at)), Advance(at),
         report' = [report EXCEPT !.sides = @ \cup {at}]
  PROVE  Rest'
<1>1. /\ pc = "side" /\ pc \in Copying /\ pc' \in {"pkl", "complete"}
      /\ UNCHANGED <<staged, plan, granted, start, lost, restaged, overlooked, changes>>
  BY Advanced DEF CopySide, Copying
<1>2. at \in Libs /\ Side(at) \in Files /\ Side(at)[1] = at
  BY FilesDiffer DEF TypeOK
<1>3. plan[at].outcome # "unchanged" /\ plan[at].side
  BY <1>1 DEF Rest, Batch, PastIsPromoted
<1>4. PlanFits' /\ UnchangedIsStaged' /\ LogIsComplete' /\ NothingYet' /\ Results'
  BY <1>1, <1>2, <1>3, CopyRest DEF Copying
<1>5. TouchedIsPast'
  BY <1>1, <1>2, TouchedStaysPast
<1>6. ReportIsTrue'
  <2>1. ReportIsTrue
    BY DEF Rest, Batch
  <2>2. /\ report'.sides = report.sides \cup {at}
        /\ report'.added = report.added /\ report'.replaced = report.replaced
    BY DEF TypeOK
  <2>3. ASSUME NEW k \in DOMAIN touched', NEW l \in Libs
        PROVE  /\ touched'[k].file = Pkl(l) => l \in report'.added \cup report'.replaced
               /\ touched'[k].file = Side(l) => l \in report'.sides
    <3>1. CASE k \in DOMAIN touched
      BY <1>1, <1>2, <2>1, <2>2, <3>1, Copied DEF ReportIsTrue
    <3>2. CASE touched'[k].file = Side(at)
      BY <1>2, <2>2, <3>2, FilesDiffer
    <3> QED
      BY <1>2, <3>1, <3>2, Copied
  <2> QED
    BY <1>1, <1>3, <2>1, <2>2, <2>3 DEF ReportIsTrue, PlanReady
<1>7. PastIsPromoted'
  <2>1. /\ \A l \in Libs \ (restaged \cup {at}) :
             /\ plan[l].outcome # "unchanged" /\ Past(l) => prod'[Pkl(l)] = staged[Pkl(l)]
             /\ plan[l].outcome # "unchanged" /\ plan[l].side /\ Past(l) =>
                  prod'[Side(l)] = staged[Side(l)]
        /\ \A l \in Libs : plan[l].outcome = "unchanged" => prod'[Pkl(l)] = start'[Pkl(l)]
        /\ \A l \in Libs \ restaged : Loads(staged', l)
    BY <1>1, <1>2, <1>3, CopyKeepsPast
  <2>2. prod'[Side(at)] = staged[Side(at)] /\ prod'[Pkl(at)] = prod[Pkl(at)]
    BY <1>2, Copied, FilesDiffer
  <2>3. at \notin restaged => prod[Pkl(at)] = staged[Pkl(at)]
    BY <1>1, <1>2, <1>3 DEF Rest, Batch, PastIsPromoted
  <2>4. \A l \in Libs : Past(l)' => Past(l) \/ l = at
    BY <1>1, PastGrows
  <2> QED
    BY <1>1, <2>1, <2>2, <2>3, <2>4 DEF PastIsPromoted
<1> QED
  BY <1>4, <1>5, <1>6, <1>7 DEF Rest, Batch

LEMMA CompleteRest ==
  ASSUME TypeOK, Rest, Complete
  PROVE  Rest'
<1>1. /\ pc = "complete" /\ pc' = "reported" /\ report' = [report EXCEPT !.wrote = TRUE]
      /\ UNCHANGED <<staged, prod, at, plan, granted, touched, start, lost, restaged,
                   overlooked>>
  BY DEF Complete
<1>2. report'.added = report.added /\ report'.replaced = report.replaced
      /\ report'.sides = report.sides
  BY <1>1 DEF TypeOK
<1>3. pc \in InBatch /\ pc \in Copying \cup {"complete"} /\ \A l \in Libs : Past(l)
  BY <1>1 DEF InBatch, Past
<1>4. ReportIsTrue /\ LogIsComplete /\ PastIsPromoted /\ PlanFits /\ UnchangedIsStaged
  BY DEF Rest, Batch
<1>5. PlanFits' /\ UnchangedIsStaged'
  BY <1>1, <1>3, <1>4 DEF PlanFits, UnchangedIsStaged
<1>6. NothingYet' /\ Batch'
  BY <1>1 DEF NothingYet, Batch, LogIsComplete, TouchedIsPast, ReportIsTrue, PastIsPromoted,
              InBatch, Copying
<1>7. ASSUME NEW l \in Libs
      PROVE  /\ prod[Pkl(l)] # start[Pkl(l)] => l \in report.added \cup report.replaced
             /\ prod[Side(l)] # start[Side(l)] => l \in report.sides
  BY <1>3, <1>4, FilesDiffer DEF ReportIsTrue, LogIsComplete
<1>8. AllOrNothing' /\ CompleteIsPromoted'
  <2>1. AllOrNothing'
    BY <1>1, <1>2, <1>7 DEF AllOrNothing
  <2>2. ASSUME NEW l \in Libs, l \notin restaged \cup overlooked
        PROVE  /\ prod[Pkl(l)] = staged[Pkl(l)]
               /\ plan[l].outcome # "unchanged" /\ plan[l].side => prod[Side(l)] = staged[Side(l)]
    <3>1. CASE plan[l].outcome = "unchanged"
      BY <1>1, <1>3, <1>4, <2>2, <3>1 DEF PastIsPromoted, UnchangedIsStaged
    <3>2. CASE plan[l].outcome # "unchanged"
      BY <1>3, <1>4, <2>2, <3>2 DEF PastIsPromoted
    <3> QED
      BY <3>1, <3>2
  <2>3. ASSUME NEW l \in Libs
        PROVE  /\ plan[l].outcome = "unchanged" => prod[Pkl(l)] = start[Pkl(l)]
               /\ ~(plan[l].outcome # "unchanged" /\ plan[l].side) =>
                    prod[Side(l)] = start[Side(l)]
               /\ l \in report.added => start[Pkl(l)] = Absent
               /\ l \in report.replaced => start[Pkl(l)] # Absent
    BY <1>3, <1>4, <1>7 DEF PastIsPromoted, ReportIsTrue, PlanFits
  <2> QED
    BY <1>1, <1>2, <2>1, <2>2, <2>3 DEF CompleteIsPromoted
<1>9. PromotedLoads'
  <2>1. ASSUME NEW l \in (report.added \cup report.replaced) \ restaged,
               prod[Pkl(l)] \in Embedded \/ plan[l].side
        PROVE  Loads(prod, l)
    <3>1. l \in Libs /\ plan[l].outcome # "unchanged"
      BY <1>3, <1>4 DEF ReportIsTrue, TypeOK
    <3>2. Loads(staged, l) /\ prod[Pkl(l)] = staged[Pkl(l)]
          /\ (plan[l].side => prod[Side(l)] = staged[Side(l)])
      BY <1>3, <1>4, <2>1, <3>1 DEF PastIsPromoted
    <3> QED
      BY <2>1, <3>2 DEF Loads, Verifies
  <2> QED
    BY <1>1, <1>2, <2>1 DEF PromotedLoads, Loads
<1> QED
  BY <1>5, <1>6, <1>8, <1>9 DEF Rest, Results

\* The last target that is still logged is put back to what it held at the start.
LEMMA RestoreRest ==
  ASSUME TypeOK, Rest, Restore
  PROVE  Rest'
<1>1. /\ pc = "rollback" /\ pc' = "rollback" /\ pc \in InBatch
      /\ UNCHANGED <<staged, at, plan, granted, start, report, restaged, overlooked, changes>>
  BY DEF Restore, InBatch
<1>2. PICK k \in DOMAIN touched :
        /\ touched[k] \in Entries
        /\ \/ prod' = [prod EXCEPT ![touched[k].file] = touched[k].prior] /\ UNCHANGED lost
           \/ UNCHANGED prod /\ lost' = lost + 1 /\ lost < MaxLosses
        /\ DOMAIN touched' = DOMAIN touched \ {k}
        /\ \A i \in DOMAIN touched' : touched'[i] = touched[i]
  BY Restored
<1>3. LogIsComplete
  BY DEF Rest, Batch
<1>4. PlanFits' /\ UnchangedIsStaged'
  BY <1>1 DEF Rest, PlanFits, UnchangedIsStaged
<1>5. \A i \in DOMAIN touched' : touched'[i].prior = start'[touched'[i].file]
  BY <1>1, <1>2, <1>3 DEF LogIsComplete
<1>6. ASSUME lost' = 0, NEW g \in Files, prod'[g] # start'[g]
      PROVE  /\ \E i \in DOMAIN touched' : touched'[i].file = g
             /\ prod'[g] = staged'[g] \/ g[1] \in restaged'
  <2>1. lost \in Nat
    BY CountsAreCounts DEF TypeOK
  <2>2. lost = 0 /\ prod' = [prod EXCEPT ![touched[k].file] = touched[k].prior]
    BY <1>2, <1>6, <2>1
  <2>3. touched[k].file \in Files /\ touched[k].prior = start[touched[k].file]
    BY <1>1, <1>2, <1>3 DEF LogIsComplete, Entries
  <2>4. g # touched[k].file /\ prod'[g] = prod[g]
    BY <1>1, <1>6, <2>2, <2>3 DEF TypeOK
  <2>5. PICK i \in DOMAIN touched : touched[i].file = g
    BY <1>1, <1>3, <1>6, <2>2, <2>4 DEF LogIsComplete
  <2>6. i \in DOMAIN touched' /\ touched'[i].file = g
    BY <1>2, <2>4, <2>5
  <2>7. prod[g] = staged[g] \/ g[1] \in restaged
    BY <1>1, <1>3, <1>6, <2>2, <2>4 DEF LogIsComplete
  <2> QED
    BY <1>1, <2>4, <2>6, <2>7
<1>7. LogIsComplete'
  BY <1>5, <1>6 DEF LogIsComplete
<1> QED
  BY <1>1, <1>4, <1>7 DEF Rest, NothingYet, Batch, Results, TouchedIsPast, ReportIsTrue,
      PastIsPromoted, AllOrNothing, CompleteIsPromoted, PromotedLoads, Copying

\* With nothing left in the log, and no restore lost, production is what it was.
LEMMA RolledBackRest ==
  ASSUME TypeOK, Rest, RolledBack
  PROVE  Rest'
<1>1. /\ pc = "rollback" /\ pc' = "reported" /\ pc \in InBatch /\ touched = <<>>
      /\ report' = Nothing
      /\ UNCHANGED <<staged, prod, at, plan, granted, touched, start, lost, restaged,
                   overlooked>>
  BY DEF RolledBack, InBatch
<1>2. lost = 0 => \A f \in Files : prod[f] = start[f]
  BY <1>1 DEF Rest, Batch, LogIsComplete
<1>3. PlanFits' /\ UnchangedIsStaged'
  BY <1>1 DEF Rest, PlanFits, UnchangedIsStaged
<1>4. AllOrNothing' /\ CompleteIsPromoted' /\ PromotedLoads'
  BY <1>1, <1>2, FilesDiffer DEF AllOrNothing, CompleteIsPromoted, PromotedLoads, Nothing
<1> QED
  BY <1>1, <1>3, <1>4 DEF Rest, NothingYet, Batch, Results, LogIsComplete, TouchedIsPast,
      ReportIsTrue, PastIsPromoted, InBatch, Copying

LEMMA RestKept ==
  ASSUME TypeOK, Rest, [Next]_vars
  PROVE  Rest'
<1>1. CASE UNCHANGED vars
  BY <1>1 DEF vars, Rest, PlanFits, UnchangedIsStaged, NothingYet, Batch, Results, LogIsComplete, TouchedIsPast,
       ReportIsTrue, PastIsPromoted, AllOrNothing, CompleteIsPromoted, PromotedLoads,
       Past, PlanReady, Loads
<1>2. CASE Plan
  BY <1>2, PlanRest
<1>3. CASE Gate
  BY <1>3, GateRest
<1>4. CASE CopyPkl
  <2>1. CASE plan[at].outcome = "unchanged" /\ Advance(at) /\ UNCHANGED <<prod, touched, report>>
    BY <1>4, <2>1, SkipRest
  <2>2. CASE /\ plan[at].outcome # "unchanged" /\ Copy(Pkl(at)) /\ report' = Logged(at)
             /\ IF plan[at].side THEN pc' = "side" /\ at' = at ELSE Advance(at)
    BY <1>4, <2>2, CopyPklRest
  <2>3. CASE Fail
    BY <1>4, <2>3, FailRest
  <2> QED
    BY <1>4, <2>1, <2>2, <2>3 DEF CopyPkl
<1>5. CASE CopySide
  BY <1>5, CopySideRest, FailRest DEF CopySide
<1>6. CASE Complete
  BY <1>6, CompleteRest
<1>7. CASE Restore
  BY <1>7, RestoreRest
<1>8. CASE RolledBack
  BY <1>8, RolledBackRest
<1>9. CASE Kill
  BY <1>9, IdleRest DEF Kill
<1>10. ASSUME NEW l \in Libs, Stage(l) \/ Rebuild(l) PROVE Rest'
  BY <1>10, StageRest, IdleRest DEF Rebuild
<1> QED
  BY <1>1, <1>2, <1>3, <1>4, <1>5, <1>6, <1>7, <1>8, <1>9, <1>10 DEF Next

LEMMA RestIsInvariant == Spec => [](TypeOK /\ Rest)
<1>1. Init => TypeOK /\ Rest
  BY InitTyped, InitRest
<1>2. TypeOK /\ Rest /\ [Next]_vars => (TypeOK /\ Rest)'
  BY NextTyped, RestKept
<1> QED
  BY <1>1, <1>2, PTL DEF Spec

-----------------------------------------------------------------------------
(* A promotion is one replacement. *)

\* The log has each file once, and what it has is wanted and has been replaced.
Distinct == \A i, j \in DOMAIN touched : touched[i].file = touched[j].file => i = j
Holds(f) == prod[f] = staged[f] \/ f[1] \in restaged
LogIsOfBatch == pc \in InBatch => /\ Distinct
                                  /\ \A i \in DOMAIN touched : /\ touched[i].file \in Wanted
                                                               /\ Holds(touched[i].file)

LEMMA WhatIsWanted ==
  ASSUME TypeOK
  PROVE  /\ Wanted \subseteq Files
         /\ \A l \in Libs : /\ Pkl(l) \in Wanted <=> plan[l].outcome # "unchanged"
                            /\ Side(l) \in Wanted <=> plan[l].outcome # "unchanged" /\ plan[l].side
BY FilesDiffer DEF Wanted, Pkl, Side

LEMMA UndoneNow ==
  ASSUME Distinct, NEW f \in Files
  PROVE  /\ \A i \in DOMAIN touched : touched[i].file = f => Undone[f] = touched[i].prior
         /\ (\A i \in DOMAIN touched : touched[i].file # f) => Undone[f] = prod[f]
<1>1. ASSUME NEW i \in DOMAIN touched, touched[i].file = f PROVE Undone[f] = touched[i].prior
  <2>1. Logs(f) = {i}
    BY <1>1 DEF Distinct, Logs
  <2> QED
    BY <2>1 DEF Undone
<1>2. (\A i \in DOMAIN touched : touched[i].file # f) => Undone[f] = prod[f]
  BY DEF Undone, Logs
<1> QED
  BY <1>1, <1>2

LEMMA UndoneNext ==
  ASSUME Distinct', NEW f \in Files
  PROVE  /\ \A i \in DOMAIN touched' : touched'[i].file = f => Undone'[f] = touched'[i].prior
         /\ (\A i \in DOMAIN touched' : touched'[i].file # f) => Undone'[f] = prod'[f]
<1>1. ASSUME NEW i \in DOMAIN touched', touched'[i].file = f PROVE Undone'[f] = touched'[i].prior
  <2>1. Logs(f)' = {i}
    BY <1>1 DEF Distinct, Logs
  <2> QED
    BY <2>1 DEF Undone
<1>2. (\A i \in DOMAIN touched' : touched'[i].file # f) => Undone'[f] = prod'[f]
  BY DEF Undone, Logs
<1> QED
  BY <1>1, <1>2

\* A copy logs its file, once, and leaves what production counts as.
LEMMA CopyOfBatch ==
  ASSUME TypeOK, LogIsOfBatch, NEW f \in Wanted, pc \in Copying, pc' \in InBatch, Copy(f),
         \A i \in DOMAIN touched : touched[i].file # f,
         UNCHANGED <<staged, restaged, plan>>
  PROVE  LogIsOfBatch' /\ Undone' = Undone
<1>1. f \in Files /\ pc \in InBatch /\ Wanted' = Wanted
  BY WhatIsWanted DEF InBatch, Wanted
<1>2. PICK k : /\ k \notin DOMAIN touched /\ DOMAIN touched' = DOMAIN touched \cup {k}
               /\ touched'[k] = [file |-> f, prior |-> prod[f]]
               /\ \A i \in DOMAIN touched : touched'[i] = touched[i]
  <2> DEFINE e == [file |-> f, prior |-> prod[f]]
  <2>1. e \in Entries /\ touched \in Seq(Entries) /\ touched' = Append(touched, e)
    BY <1>1 DEF TypeOK, Entries, Copy
  <2> HIDE DEF e
  <2>2. /\ Len(touched) \in Nat /\ DOMAIN touched = 1 .. Len(touched)
        /\ DOMAIN touched' = 1 .. Len(touched) + 1
        /\ touched'[Len(touched) + 1] = e
        /\ \A i \in 1 .. Len(touched) : touched'[i] = touched[i]
    BY <2>1
  <2>3. DOMAIN touched' = DOMAIN touched \cup {Len(touched) + 1}
    BY <2>2
  <2>4. Len(touched) + 1 \notin DOMAIN touched
    BY <2>2
  <2> QED
    BY <2>2, <2>3, <2>4 DEF e
<1>3. \A i \in DOMAIN touched : touched'[i].file = touched[i].file /\ touched'[i].file # f
  BY <1>2
<1>4. touched'[k].file = f /\ touched'[k].prior = prod[f]
  BY <1>2
<1>5. Distinct'
  BY <1>1, <1>2, <1>3, <1>4 DEF LogIsOfBatch, Distinct
<1>6. ASSUME NEW i \in DOMAIN touched' PROVE touched'[i].file \in Wanted /\ Holds(touched[i].file)'
  <2>1. CASE i = k
    BY <1>1, <1>4, <2>1, Copied DEF Holds
  <2>2. CASE i \in DOMAIN touched
    <3>1. touched[i].file \in Wanted /\ touched[i].file \in Files /\ Holds(touched[i].file)
      BY <1>1, <2>2, WhatIsWanted DEF LogIsOfBatch
    <3> QED
      BY <1>1, <1>3, <2>2, <3>1, Copied DEF Holds
  <2> QED
    BY <1>2, <2>1, <2>2
<1>7. LogIsOfBatch'
  BY <1>1, <1>5, <1>6 DEF LogIsOfBatch
<1>8. ASSUME NEW g \in Files PROVE Undone'[g] = Undone[g]
  <2>1. CASE g = f
    <3>1. Undone[g] = prod[f]
      BY <1>1, <2>1, UndoneNow DEF LogIsOfBatch
    <3>2. Undone'[g] = prod[f]
      BY <1>2, <1>4, <1>5, <2>1, UndoneNext
    <3> QED
      BY <3>1, <3>2
  <2>2. CASE g # f /\ \E i \in DOMAIN touched : touched[i].file = g
    <3>1. PICK i \in DOMAIN touched : touched[i].file = g
      BY <2>2
    <3>2. Undone[g] = touched[i].prior
      BY <1>1, <3>1, UndoneNow DEF LogIsOfBatch
    <3>3. i \in DOMAIN touched' /\ touched'[i] = touched[i]
      BY <1>2
    <3> QED
      BY <1>5, <3>1, <3>2, <3>3, UndoneNext
  <2>3. CASE g # f /\ \A i \in DOMAIN touched : touched[i].file # g
    <3>1. \A i \in DOMAIN touched' : touched'[i].file # g
      BY <1>2, <1>3, <1>4, <2>3
    <3>2. Undone'[g] = prod'[g] /\ Undone[g] = prod[g]
      BY <1>1, <1>5, <2>3, <3>1, UndoneNext, UndoneNow DEF LogIsOfBatch
    <3> QED
      BY <1>1, <2>3, <3>2, Copied
  <2> QED
    BY <2>1, <2>2, <2>3
<1>9. Undone' = Undone
  BY <1>8 DEF Undone
<1> QED
  BY <1>7, <1>9

\* A batch that begins has no log.
LEMMA BeginsEmpty ==
  ASSUME touched = <<>>
  PROVE  Distinct /\ Undone = [f \in Files |-> prod[f]] /\ DOMAIN touched = {}
BY DEF Distinct, Undone, Logs

\* What one step of the writer is to the replacement.
LEMMA CopyStep ==
  ASSUME TypeOK, Rest, LogIsOfBatch, CopyPkl \/ CopySide
  PROVE  LogIsOfBatch' /\ (Atomic!Next \/ UNCHANGED Atomic!vars)
<1>1. /\ pc \in Copying /\ pc \in InBatch
      /\ UNCHANGED <<staged, plan, granted, start, lost, restaged, overlooked, changes>>
      /\ Wanted' = Wanted
  BY DEF CopyPkl, CopySide, Copying, InBatch, Wanted
<1>2. at \in Libs /\ Pkl(at) \in Files /\ Side(at) \in Files /\ Pkl(at)[1] = at /\ Side(at)[1] = at
  BY FilesDiffer DEF TypeOK
<1>3. ASSUME Advance(at) PROVE pc' \in {"pkl", "complete"}
  BY <1>3, Advanced
<1>4. ASSUME UNCHANGED <<prod, touched>> PROVE Undone' = Undone /\ (pc' \in InBatch => LogIsOfBatch')
  BY <1>1, <1>4 DEF Undone, Logs, LogIsOfBatch, Distinct, Holds
<1>5. ASSUME Undone' = Undone, pc' \in {"pkl", "side", "complete"} PROVE UNCHANGED Atomic!vars
  BY <1>1, <1>5 DEF Atomic!vars, Copying, InBatch
<1>6. CASE CopyPkl /\ Advance(at) /\ UNCHANGED <<prod, touched, report>>
  BY <1>3, <1>4, <1>5, <1>6 DEF InBatch, Copying
<1>7. CASE /\ CopyPkl /\ plan[at].outcome # "unchanged" /\ Copy(Pkl(at))
           /\ IF plan[at].side THEN pc' = "side" /\ at' = at ELSE Advance(at)
  <2>1. pc = "pkl" /\ pc' \in {"pkl", "side", "complete"} /\ Pkl(at) \in Wanted
    BY <1>2, <1>3, <1>7, WhatIsWanted DEF CopyPkl
  <2>2. \A k \in DOMAIN touched : touched[k].file # Pkl(at)
    BY <1>1, <1>2, <2>1, Untouched
  <2>3. LogIsOfBatch' /\ Undone' = Undone
    BY <1>1, <1>7, <2>1, <2>2, CopyOfBatch DEF InBatch, Copying
  <2> QED
    BY <1>5, <2>1, <2>3
<1>8. CASE CopySide /\ Copy(Side(at)) /\ Advance(at)
  <2>1. pc = "side" /\ pc' \in {"pkl", "complete"}
    BY <1>3, <1>8 DEF CopySide
  <2>2. Side(at) \in Wanted
    BY <1>1, <1>2, <2>1, WhatIsWanted DEF Rest, Batch, PastIsPromoted
  <2>3. \A k \in DOMAIN touched : touched[k].file # Side(at)
    BY <1>1, <1>2, <2>1, Untouched
  <2>4. LogIsOfBatch' /\ Undone' = Undone
    BY <1>1, <1>8, <2>1, <2>2, <2>3, CopyOfBatch DEF InBatch, Copying
  <2> QED
    BY <1>5, <2>1, <2>4
<1>9. CASE Fail
  <2>1. pc' = "rollback" /\ pc' \in InBatch /\ pc' \notin Copying \cup {"complete"}
    BY <1>9 DEF Fail, InBatch, Copying
  <2>2. Undone' = Undone /\ LogIsOfBatch'
    BY <1>4, <1>9, <2>1 DEF Fail
  <2>3. Atomic!Fail
    BY <1>1, <2>1, <2>2 DEF Atomic!Fail
  <2> QED
    BY <2>2, <2>3 DEF Atomic!Next
<1> QED
  BY <1>6, <1>7, <1>8, <1>9 DEF CopyPkl, CopySide

\* The files that an ended batch leaves as it has put them are wanted ones.
LEMMA WhatIsLeft ==
  ASSUME TypeOK, LogIsOfBatch, pc \in InBatch, NEW f \in Files
  PROVE  prod[f] # Undone[f] => f \in Wanted /\ Holds(f)
<1>1. CASE \E i \in DOMAIN touched : touched[i].file = f
  BY <1>1 DEF LogIsOfBatch
<1>2. CASE \A i \in DOMAIN touched : touched[i].file # f
  BY <1>2, UndoneNow DEF LogIsOfBatch
<1> QED
  BY <1>1, <1>2

LEMMA RestoreStep ==
  ASSUME TypeOK, LogIsOfBatch, Restore
  PROVE  LogIsOfBatch' /\ (Atomic!Next \/ UNCHANGED Atomic!vars)
<1>1. /\ pc = "rollback" /\ pc' = "rollback" /\ pc \in InBatch /\ pc \notin Copying \cup {"complete"}
      /\ UNCHANGED <<staged, plan, restaged>> /\ Wanted' = Wanted
  BY DEF Restore, InBatch, Copying, Wanted
<1>2. PICK k \in DOMAIN touched :
        /\ touched[k] \in Entries
        /\ \/ prod' = [prod EXCEPT ![touched[k].file] = touched[k].prior] /\ UNCHANGED lost
           \/ UNCHANGED prod /\ lost' = lost + 1 /\ lost < MaxLosses
        /\ DOMAIN touched' = DOMAIN touched \ {k}
        /\ \A i \in DOMAIN touched' : touched'[i] = touched[i]
  BY Restored
<1> DEFINE h == touched[k].file
<1>3. h \in Files /\ h \in Wanted /\ Holds(h)
  BY <1>1, <1>2 DEF LogIsOfBatch, Entries
<1>4. Distinct /\ Distinct'
  BY <1>1, <1>2 DEF LogIsOfBatch, Distinct
<1>5. \A i \in DOMAIN touched' : i \in DOMAIN touched /\ touched'[i].file = touched[i].file
                                 /\ touched[i].file # h
  BY <1>2, <1>4 DEF Distinct
<1>6. \A g \in Files : g # h => prod'[g] = prod[g]
  BY <1>2, <1>3 DEF TypeOK
<1>7. LogIsOfBatch'
  <2>1. ASSUME NEW i \in DOMAIN touched'
        PROVE  touched'[i].file \in Wanted /\ Holds(touched[i].file)' /\ touched'[i].file = touched[i].file
    <3>1. touched[i].file \in Wanted /\ touched[i].file \in Files /\ Holds(touched[i].file)
      BY <1>1, <1>5, WhatIsWanted DEF LogIsOfBatch
    <3> QED
      BY <1>1, <1>2, <1>5, <1>6, <2>1, <3>1 DEF Holds
  <2> QED
    BY <1>1, <1>4, <2>1 DEF LogIsOfBatch, Holds
<1>8. \A g \in Files : g # h => Undone'[g] = Undone[g]
  <2> SUFFICES ASSUME NEW g \in Files, g # h PROVE Undone'[g] = Undone[g]
    OBVIOUS
  <2>1. CASE \E i \in DOMAIN touched : touched[i].file = g
    <3>1. PICK i \in DOMAIN touched : touched[i].file = g
      BY <2>1
    <3>2. i \in DOMAIN touched' /\ touched'[i] = touched[i]
      BY <1>2, <3>1
    <3>3. Undone[g] = touched[i].prior
      BY <1>4, <3>1, UndoneNow
    <3>4. Undone'[g] = touched'[i].prior
      BY <1>4, <3>1, <3>2, UndoneNext
    <3> QED
      BY <3>2, <3>3, <3>4
  <2>2. CASE \A i \in DOMAIN touched : touched[i].file # g
    <3>1. \A i \in DOMAIN touched' : touched'[i].file # g
      BY <1>5, <2>2
    <3> QED
      BY <1>4, <1>6, <2>2, <3>1, UndoneNow, UndoneNext
  <2> QED
    BY <2>1, <2>2
<1>9. Undone[h] = touched[k].prior /\ Undone'[h] = prod'[h]
  BY <1>2, <1>3, <1>4, <1>5, UndoneNow, UndoneNext
<1>10. CASE prod' = [prod EXCEPT ![touched[k].file] = touched[k].prior]
  <2>1. Undone'[h] = Undone[h]
    BY <1>3, <1>9, <1>10 DEF TypeOK
  <2>2. Undone' = Undone
    BY <1>8, <2>1 DEF Undone
  <2> QED
    BY <1>1, <1>7, <2>2 DEF Atomic!vars
<1>11. CASE UNCHANGED prod
  <2>1. Undone' \in [Files -> Contents]
    <3>1. \A i \in DOMAIN touched : touched[i].prior \in Contents
      BY EntriesTyped DEF Entries
    <3>2. ASSUME NEW g \in Files PROVE Undone[g] \in Contents
      <4>1. CASE \E i \in DOMAIN touched : touched[i].file = g
        BY <1>4, <3>1, <4>1, UndoneNow
      <4>2. CASE \A i \in DOMAIN touched : touched[i].file # g
        BY <1>4, <4>2, UndoneNow DEF TypeOK
      <4> QED
        BY <4>1, <4>2
    <3>3. \A g \in Files : Undone'[g] \in Contents
      BY <1>3, <1>8, <1>9, <1>11, <3>2 DEF TypeOK
    <3> QED
      BY <3>3 DEF Undone
  <2>2. Undone'[h] = staged[h] \/ h[1] \in restaged
    BY <1>3, <1>9, <1>11 DEF Holds
  <2>3. Atomic!Files = Files
    BY DEF Atomic!Files, Files
  <2>4. Atomic!LoseRestore
    BY <1>1, <1>3, <1>8, <2>1, <2>2, <2>3 DEF Atomic!LoseRestore, Atomic!Replaced
  <2> QED
    BY <1>7, <2>4 DEF Atomic!Next
<1> QED
  BY <1>2, <1>10, <1>11

-----------------------------------------------------------------------------
\* A promotion that fails anywhere in its batch leaves production as it found it, and one
\* that succeeds changes only what it reports, for any number of libraries: when the batch
\* is rolled back every file that differs is still in the log, with what it held before.
THEOREM AllOrNothingHolds == Spec => []AllOrNothing
BY RestIsInvariant, PTL DEF Rest, Results

\* At every step, and so after a kill at any step, a file of production is what it was or
\* what was staged, and the log has what it was.
THEOREM TornBatchIsRepairableHolds == Spec => []TornBatchIsRepairable
<1>1. TypeOK /\ Rest => TornBatchIsRepairable
  BY DEF Rest, Batch, LogIsComplete, TornBatchIsRepairable, InBatch
<1> QED
  BY <1>1, RestIsInvariant, PTL

\* After a completed promotion every library, with the sidecar the plan copies, is in
\* production as it is staged, but for one staged anew after the second look and one
\* planned as unchanged and staged anew before it; what is not copied is as it was.
THEOREM CompleteIsPromotedHolds == Spec => []CompleteIsPromoted
BY RestIsInvariant, PTL DEF Rest, Results

\* What was promoted loads from production.
THEOREM PromotedLoadsHolds == Spec => []PromotedLoads
BY RestIsInvariant, PTL DEF Rest, Results

LEMMA EndStep ==
  ASSUME TypeOK, Rest, LogIsOfBatch, Complete \/ RolledBack \/ Kill
  PROVE  LogIsOfBatch' /\ Atomic!Next
<1>1. /\ pc \in InBatch /\ pc' \in {"reported", "idle"} /\ pc' \notin InBatch
      /\ pc' \notin Copying \cup {"complete"} /\ pc' # "rollback"
      /\ UNCHANGED <<staged, prod, restaged>>
  BY DEF Complete, RolledBack, Kill, InBatch, Copying
<1>2. LogIsOfBatch'
  BY <1>1 DEF LogIsOfBatch
<1>3. Atomic!Close
  BY <1>1 DEF Atomic!Close
<1>4. Atomic!Files = Files /\ prod \in [Files -> Contents]
  BY DEF Atomic!Files, Files, TypeOK
<1>5. CASE Complete
  <2>1. pc = "complete" /\ pc \in Copying \cup {"complete"} /\ \A l \in Libs : Past(l)
    BY <1>5 DEF Complete, Past
  <2>2. ASSUME NEW f \in Files
        PROVE  IF f \in Wanted THEN prod[f] = staged[f] \/ f[1] \in restaged
               ELSE prod[f] = Undone[f]
    <3>1. CASE f \in Wanted /\ f[1] \notin restaged
      <4>1. PastIsPromoted
        BY DEF Rest, Batch
      <4>2. /\ f[1] \in Libs \ restaged
            /\ plan[f[1]].outcome # "unchanged" /\ Past(f[1])
            /\ f = Pkl(f[1]) \/ (f = Side(f[1]) /\ plan[f[1]].side)
        BY <2>1, <3>1, FilesDiffer, WhatIsWanted
      <4> QED
        BY <2>1, <3>1, <4>1, <4>2 DEF PastIsPromoted
    <3>2. CASE f \notin Wanted
      BY <1>1, <3>2, WhatIsLeft
    <3> QED
      BY <3>1, <3>2
  <2>3. Atomic!Commit
    BY <1>1, <1>3, <1>4, <2>1, <2>2 DEF Atomic!Commit, Atomic!Replaced
  <2> QED
    BY <1>2, <2>3 DEF Atomic!Next
<1>6. CASE RolledBack
  <2>1. pc = "rollback" /\ pc \notin Copying \cup {"complete"} /\ touched = <<>>
    BY <1>6 DEF RolledBack, Copying
  <2>2. Undone = prod
    BY <1>4, <2>1, BeginsEmpty
  <2>3. Atomic!Abandon
    BY <1>1, <1>3, <2>1, <2>2 DEF Atomic!Abandon
  <2> QED
    BY <1>2, <2>3 DEF Atomic!Next
<1>7. CASE Kill
  <2>1. \A f \in Files : prod[f] # Undone[f] => f \in Wanted /\ (prod[f] = staged[f] \/ f[1] \in restaged)
    BY <1>1, WhatIsLeft DEF Holds
  <2>2. pc \in Copying \cup {"complete"} \/ pc = "rollback"
    BY <1>1 DEF InBatch
  <2>3. Atomic!Break
    BY <1>1, <1>3, <1>4, <2>1, <2>2 DEF Atomic!Break, Atomic!Replaced
  <2> QED
    BY <1>2, <2>3 DEF Atomic!Next
<1> QED
  BY <1>5, <1>6, <1>7

LEMMA BeginStep ==
  ASSUME TypeOK, Rest, Plan \/ Gate
  PROVE  LogIsOfBatch' /\ (Atomic!Next \/ UNCHANGED Atomic!vars)
<1>1. pc \notin InBatch /\ pc \notin Copying \cup {"complete"} /\ pc # "rollback" /\ UNCHANGED <<staged, prod>>
  BY DEF Plan, Gate, InBatch, Copying
<1>2. CASE pc' \in {"planned", "reported"}
  <2>1. pc' \notin InBatch /\ pc' \notin Copying \cup {"complete"} /\ pc' # "rollback"
    BY <1>2 DEF InBatch, Copying
  <2> QED
    BY <1>1, <2>1 DEF LogIsOfBatch, Atomic!vars
<1>3. CASE Gate /\ pc' = "pkl"
  <2>1. pc' \in InBatch /\ pc' \in Copying \cup {"complete"} /\ restaged' = {}
    BY <1>3 DEF Gate, LookedAt, InBatch, Copying
  <2>2. touched = <<>> /\ touched' = <<>>
    BY <1>3 DEF Gate, Rest, NothingYet
  <2>3. Undone = prod
    BY <2>2, BeginsEmpty DEF TypeOK
  <2>4. Undone' = Undone /\ Distinct' /\ DOMAIN touched' = {}
    BY <1>1, <2>2 DEF Undone, Logs, Distinct
  <2>5. Wanted' \in SUBSET Atomic!Files
    BY DEF Wanted, Atomic!Files, Files
  <2>6. Atomic!Begin
    BY <1>1, <2>1, <2>3, <2>4, <2>5 DEF Atomic!Begin
  <2>7. LogIsOfBatch'
    BY <2>4 DEF LogIsOfBatch
  <2> QED
    BY <2>6, <2>7 DEF Atomic!Next
<1> QED
  BY <1>2, <1>3 DEF Plan, Gate

LEMMA OthersStep ==
  ASSUME TypeOK, LogIsOfBatch, NEW l \in Libs, Stage(l) \/ Rebuild(l)
  PROVE  LogIsOfBatch' /\ Atomic!Next
<1>1. Atomic!Files = Files
  BY DEF Atomic!Files, Files
<1>2. TypeOK'
  BY ChangesTyped
<1>3. CASE Stage(l)
  <2>1. /\ pc' = pc \/ (pc = "reported" /\ pc' = "idle")
        /\ restaged' = restaged \cup {l}
        /\ UNCHANGED <<prod, plan, touched>>
    BY <1>3 DEF Stage
  <2>2. /\ pc' \in InBatch <=> pc \in InBatch
        /\ pc' \in Copying \cup {"complete"} <=> pc \in Copying \cup {"complete"}
        /\ pc' = "rollback" <=> pc = "rollback"
        /\ Wanted' = Wanted /\ Undone' = Undone
    BY <2>1 DEF InBatch, Copying, Wanted, Undone, Logs
  <2>3. \A f \in Files : f[1] # l => staged'[f] = staged[f]
    BY <1>3, FilesDiffer DEF Stage, TypeOK
  <2>4. \A f \in Files : Holds(f) => Holds(f)'
    BY <2>1, <2>3 DEF Holds
  <2>5. LogIsOfBatch'
    BY <2>1, <2>2, <2>4, WhatIsWanted DEF LogIsOfBatch, Distinct
  <2>6. pc \in InBatch <=> pc \in Copying \cup {"complete"} \/ pc = "rollback"
    BY DEF InBatch
  <2>7. Atomic!Restage(l)
    BY <1>1, <1>2, <2>1, <2>2, <2>3, <2>6 DEF Atomic!Restage, TypeOK
  <2> QED
    BY <2>5, <2>7 DEF Atomic!Next
<1>4. CASE Rebuild(l)
  <2>1. pc \in {"idle", "reported"} /\ pc' = "idle" /\ UNCHANGED staged
    BY <1>4 DEF Rebuild
  <2>2. /\ pc \notin InBatch /\ pc' \notin InBatch
        /\ pc \notin Copying \cup {"complete"} /\ pc # "rollback"
        /\ pc' \notin Copying \cup {"complete"} /\ pc' # "rollback"
    BY <2>1 DEF InBatch, Copying
  <2>3. \A f \in Files : f[1] # l => prod'[f] = prod[f]
    BY <1>4, FilesDiffer DEF Rebuild, TypeOK
  <2>4. Atomic!Write(l)
    BY <1>1, <1>2, <2>1, <2>2, <2>3 DEF Atomic!Write, TypeOK
  <2> QED
    BY <2>2, <2>4 DEF Atomic!Next, LogIsOfBatch
<1> QED
  BY <1>3, <1>4

LEMMA StepsAtomic ==
  ASSUME TypeOK, Rest, LogIsOfBatch, [Next]_vars
  PROVE  LogIsOfBatch' /\ (Atomic!Next \/ UNCHANGED Atomic!vars)
<1>1. CASE UNCHANGED vars
  BY <1>1 DEF vars, LogIsOfBatch, Distinct, Holds, Wanted, Undone, Logs, Atomic!vars
<1>2. CASE Next
  BY <1>2, CopyStep, RestoreStep, EndStep, BeginStep, OthersStep DEF Next
<1> QED
  BY <1>1, <1>2

\* The promotion, copied and restored one file at a time, is one replacement of all the
\* files its plan wants or of none of them, whatever fails, is staged anew, or is killed:
\* the log turns what production holds into what it counts as.
THEOREM PromotionIsOneReplacement == Spec => ImplementsAtomicReplace
<1> DEFINE All == TypeOK /\ Rest /\ LogIsOfBatch
<1>1. Init => LogIsOfBatch /\ Atomic!Init
  <2>1. ASSUME Init PROVE LogIsOfBatch /\ Atomic!Init
    <3>1. pc \notin InBatch /\ pc \notin Copying \cup {"complete"} /\ pc # "rollback"
      BY <2>1 DEF Init, InBatch, Copying
    <3> QED
      BY <2>1, <3>1 DEF Init, LogIsOfBatch, Atomic!Init, Atomic!Files, Files
  <2> QED
    BY <2>1
<1>2. Init => All
  BY <1>1, InitTyped, InitRest
<1>3. All /\ [Next]_vars => All' /\ [Atomic!Next]_(Atomic!vars)
  BY NextTyped, RestKept, StepsAtomic
<1> QED
  BY <1>1, <1>2, <1>3, PTL DEF Spec, ImplementsAtomicReplace, Atomic!Spec
=============================================================================
