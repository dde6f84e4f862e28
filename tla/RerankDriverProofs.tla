------------------------- MODULE RerankDriverProofs -------------------------
(***************************************************************************)
(* What holds of Build-and-Rank and Re-Rank side by side for any number of *)
(* launches, run directories, secondaries and tickers.                     *)
(***************************************************************************)
EXTENDS RerankDriver, TLAPS

\* What the board shows can be looked up: the StackBuilder run behind each row is in its
\* place or in some quarantine, though later runs have moved the stacks away and again
\* away, and though what was published was carried over from a board published before.
PublishedIsKept == \A s \in Secs : board[s] # NoBuild => Kept(s, board[s])

\* A lock that is taken has an owner who will give it back, or one that was killed: a run
\* that is refused, halted, orphaned or turned away at the gates leaves none behind.
LockHasOwner == lock # None => pc[lock] \in Working \cup {"gates", "release", "dead"}

\* The steps that a run takes with the lock in its hand.
Holding == Working \cup {"gates", "release"}

\* The steps of a run that has been let through the gates and whose engines may run.
EngineSteps == {"onepass", "impactsearch", "stackbuilder"}
Stages == EngineSteps \cup {"stage1", "stage2", "stage3", "stage4"}

Orphaned(q) == pc[q] = "dead" /\ engine[q] # NoEngine

\* What the gates let through knows its run directory.
DirKnown == \A r \in Runs : job[r].passes => job[r].dir \in Dirs

\* At most one run is past the lock, and the file names it.
HolderHolds == \A r \in Runs : pc[r] \in Holding => lock = r

\* An engine runs for a run that waits for it, or for a dead one.
EngineHasParent == \A r \in Runs : engine[r] # NoEngine => pc[r] \in EngineSteps \cup {"dead"}

\* Only a run that the gates let through comes to the stages.
StagesPassed == \A r \in Runs : pc[r] \in Stages => job[r].passes

\* A reclaimer is alone until it has the lock.
ReclaimerAlone ==
  \A r \in Runs : pc[r] = "lock" /\ job[r].reclaim => \A q \in Runs : q # r => ~Running(q)

\* While an orphan writes, the run that holds the lock is not let through, and one that
\* looked at the processes before there was an orphan is refused the lock, which is still
\* that of the orphan's parent.
OrphanBars ==
  \A q, r \in Runs : Orphaned(q) /\ job[r].passes =>
    /\ pc[r] \notin Holding
    /\ pc[r] = "lock" => lock = q /\ ~job[r].reclaim

Exclusion == /\ HolderHolds /\ EngineHasParent /\ StagesPassed /\ ReclaimerAlone /\ OrphanBars

IInv == /\ TypeOK /\ DirKnown /\ OneEngine
        /\ HolderHolds /\ EngineHasParent /\ StagesPassed /\ ReclaimerAlone /\ OrphanBars

-----------------------------------------------------------------------------
(* Types. *)
LEMMA Blanks ==
  /\ NoBuild \in Builds /\ Rows0 \in [Secs -> Builds]
  /\ NoJob \in Jobs /\ NoEngine \in Engines
BY DEF NoBuild, Builds, Rows0, NoJob, Jobs, NoEngine, Engines

LEMMA InitTyped == Init => TypeOK
<1> SUFFICES ASSUME Init PROVE TypeOK
  OBVIOUS
<1>1. [by |-> None, members |-> Carried] \in Builds
  BY CarriedIsSome DEF Builds
<1>2. stack \in [Secs -> Seq(Builds)] /\ board \in [Secs -> Builds]
  BY <1>1 DEF Init
<1>3. <<>> \in Seq(Seq(Builds)) /\ Len(<<>>) = 0
  OBVIOUS
<1>4. /\ quarantine \in [Dirs -> [Secs -> Seq(Seq(Builds))]]
      /\ \A d \in Dirs, s \in Secs : Len(quarantine[d][s]) <= 2
  BY <1>3 DEF Init
<1> QED
  BY <1>2, <1>4, Blanks, CarriedIsSome, BoundsAreBounds DEF Init, TypeOK, PCs

LEMMA JobsMade ==
  ASSUME NEW d \in Dirs, NEW from \in Dirs \cup {None}, NEW reclaim \in BOOLEAN,
         NEW excl \in SUBSET Members
  PROVE  /\ [NoJob EXCEPT !.kind = "build", !.dir = d, !.reuse = from, !.reclaim = reclaim,
                          !.excl = excl, !.passes = TRUE] \in Jobs
         /\ [NoJob EXCEPT !.kind = "build", !.reclaim = reclaim] \in Jobs
BY Blanks DEF NoJob, Jobs

LEMMA RerankJob == [NoJob EXCEPT !.kind = "rerank"] \in Jobs
BY Blanks DEF NoJob, Jobs

LEMMA JobsUpdated ==
  ASSUME NEW j \in Jobs, NEW f \in [Secs -> Builds], NEW l \in SUBSET Secs, NEW u \in BOOLEAN
  PROVE  /\ [j EXCEPT !.fresh = f, !.unscored = u] \in Jobs
         /\ [j EXCEPT !.fresh = f, !.listed = l, !.unscored = u] \in Jobs
         /\ [j EXCEPT !.merged = f] \in Jobs
BY DEF Jobs

LEMMA LaunchTyped ==
  ASSUME TypeOK, DirKnown, NEW r \in Runs, LaunchBuild(r) \/ LaunchRerank(r)
  PROVE  TypeOK' /\ DirKnown'
<1>1. CASE LaunchBuild(r)
  <2>1. PICK d \in Dirs, from \in Dirs \cup {None}, mode \in {"dry", "execute"},
             reclaim \in BOOLEAN : Launch(r, reclaim) /\ Preflight(r, d, from, mode, reclaim)
    BY <1>1 DEF LaunchBuild
  <2>2. universe' \in [Dirs -> SUBSET Members]
    BY <2>1 DEF Preflight, TypeOK
  <2>3. PICK new \in Jobs : /\ job' = [job EXCEPT ![r] = new]
                            /\ new.passes => new.dir \in Dirs
    <3> DEFINE go == [NoJob EXCEPT !.kind = "build", !.dir = d, !.reuse = from,
                                   !.reclaim = reclaim, !.excl = blocked, !.passes = TRUE]
               stay == [NoJob EXCEPT !.kind = "build", !.reclaim = reclaim]
    <3>1. go \in Jobs /\ stay \in Jobs
      BY JobsMade DEF TypeOK
    <3>2. go.dir = d /\ stay.passes = FALSE
      BY DEF NoJob
    <3>3. job' = [job EXCEPT ![r] = go] \/ job' = [job EXCEPT ![r] = stay]
      BY <2>1 DEF Preflight
    <3> HIDE DEF go, stay
    <3> QED
      BY <3>1, <3>2, <3>3
  <2>4. job' \in [Runs -> Jobs] /\ DirKnown'
    BY <2>3 DEF TypeOK, DirKnown
  <2> QED
    BY <2>1, <2>2, <2>4 DEF TypeOK, Launch, Goto, PCs, stacks, bounds
<1>2. CASE LaunchRerank(r)
  <2>1. [NoJob EXCEPT !.kind = "rerank"].passes = FALSE
    BY DEF NoJob
  <2>2. job' \in [Runs -> Jobs] /\ DirKnown'
    BY <1>2, <2>1, RerankJob DEF LaunchRerank, TypeOK, DirKnown
  <2> QED
    BY <1>2, <2>2 DEF LaunchRerank, TypeOK, Launch, Goto, PCs, stacks, bounds
<1> QED
  BY <1>1, <1>2

LEMMA EngineStarted ==
  ASSUME TypeOK, NEW r \in Runs, NEW stage \in EngineSteps, NEW input \in SUBSET Members,
         Start(r, stage, input)
  PROVE  engine' \in [Runs -> Engines]
<1>1. [stage |-> stage, input |-> input] \in Engines
  BY DEF Engines, EngineSteps
<1> QED
  BY <1>1 DEF TypeOK, Start

LEMMA EngineStopped ==
  ASSUME TypeOK, NEW r \in Runs, Stop(r)
  PROVE  engine' \in [Runs -> Engines]
BY Blanks DEF TypeOK, Stop

LEMMA LockTyped ==
  ASSUME TypeOK, DirKnown, NEW r \in Runs, TakeLock(r) \/ Gates(r) \/ Release(r) \/ Kill(r)
  PROVE  TypeOK' /\ DirKnown'
<1> USE Blanks DEF TypeOK, Goto, Halt, PCs, Working, artifacts, stacks, bounds
<1>1. NoJob.passes = FALSE
  BY DEF NoJob
<1>2. CASE TakeLock(r)
  BY <1>1, <1>2 DEF TakeLock, DirKnown
<1>3. CASE Gates(r)
  BY <1>3 DEF Gates, DirKnown
<1>4. CASE Release(r)
  BY <1>1, <1>4 DEF Release, DirKnown
<1>5. CASE Kill(r)
  <2>1. engine' \in [Runs -> Engines]
    BY <1>5, EngineStopped DEF Kill
  <2>2. kills' \in 0 .. MaxKills
    BY <1>5, BoundsAreBounds DEF Kill
  <2> QED
    BY <1>1, <1>5, <2>1, <2>2 DEF Kill, DirKnown
<1> QED
  BY <1>2, <1>3, <1>4, <1>5

LEMMA OnePassTyped ==
  ASSUME IInv, NEW r \in Runs, StartOnePass(r) \/ EndOnePass(r)
  PROVE  TypeOK' /\ DirKnown'
<1> USE DEF TypeOK, Goto, Halt, PCs, Working, stacks, bounds, IInv
<1>1. CASE StartOnePass(r)
  <2>1. job[r].dir \in Dirs
    BY <1>1 DEF StartOnePass, StagesPassed, Stages, DirKnown
  <2>2. engine' \in [Runs -> Engines]
    <3>1. universe[job[r].dir] \in SUBSET Members /\ "onepass" \in EngineSteps
      BY <2>1 DEF EngineSteps
    <3>2. Start(r, "onepass", universe[job[r].dir]) \/ UNCHANGED engine
      BY <1>1 DEF StartOnePass
    <3> QED
      BY <3>1, <3>2, EngineStarted
  <2> QED
    BY <1>1, <2>1, <2>2 DEF StartOnePass, DirKnown
<1>2. CASE EndOnePass(r)
  <2>1. engine[r].input \in SUBSET Members
    BY DEF Engines
  <2>2. engine' \in [Runs -> Engines]
    BY <1>2, Blanks DEF EndOnePass, Stop
  <2> QED
    BY <1>2, <2>1, <2>2 DEF EndOnePass, DirKnown
<1> QED
  BY <1>1, <1>2

LEMMA WorkbooksTyped ==
  ASSUME TypeOK, NEW input \in SUBSET Members, NEW done \in SUBSET Rebuild,
         WriteWorkbooks(input, done)
  PROVE  workbook' \in [Secs -> SUBSET Members]
BY DEF TypeOK, WriteWorkbooks

LEMMA ImpactSearchTyped ==
  ASSUME IInv, NEW r \in Runs, MoveWorkbook(r) \/ StartImpactSearch(r) \/ EndImpactSearch(r)
  PROVE  TypeOK' /\ DirKnown'
<1> USE DEF TypeOK, Goto, Halt, PCs, Working, stacks, bounds, IInv
<1>1. CASE StartImpactSearch(r)
  <2>1. job[r].dir \in Dirs
    BY <1>1 DEF StartImpactSearch, StagesPassed, Stages, DirKnown
  <2>2. universe[job[r].dir] \in SUBSET Members /\ "impactsearch" \in EngineSteps
    BY <2>1 DEF EngineSteps
  <2>3. Start(r, "impactsearch", universe[job[r].dir]) \/ UNCHANGED engine
    BY <1>1 DEF StartImpactSearch
  <2>4. engine' \in [Runs -> Engines]
    BY <2>2, <2>3, EngineStarted
  <2> QED
    BY <1>1, <2>4 DEF StartImpactSearch, DirKnown
<1>2. CASE EndImpactSearch(r)
  <2>1. engine[r].input \in SUBSET Members
    BY DEF Engines
  <2>2. engine' \in [Runs -> Engines]
    BY <1>2, Blanks DEF EndImpactSearch, Stop
  <2>3. workbook' \in [Secs -> SUBSET Members]
    BY <1>2, <2>1, WorkbooksTyped DEF EndImpactSearch
  <2> QED
    BY <1>2, <2>2, <2>3 DEF EndImpactSearch, DirKnown
<1>3. CASE MoveWorkbook(r)
  BY <1>3, RebuildIsSome DEF MoveWorkbook, DirKnown
<1> QED
  BY <1>1, <1>2, <1>3

\* What a StackBuilder leaves: for some of the secondaries a run of its own at the end.
LEMMA StacksMade ==
  ASSUME TypeOK, NEW r \in Runs, NEW made \in Outputs(r), NEW s \in DOMAIN made
  PROVE  /\ s \in Rebuild /\ s \in Secs
         /\ [by |-> r, members |-> made[s]] \in Builds
<1>1. PICK done \in SUBSET Rebuild : made \in [done -> SUBSET engine[r].input]
  BY DEF Outputs
<1>2. engine[r].input \in SUBSET Members
  BY DEF TypeOK, Engines
<1> QED
  BY <1>1, <1>2, RebuildIsSome DEF Builds

LEMMA StacksTyped ==
  ASSUME TypeOK, NEW r \in Runs, NEW made \in Outputs(r), WriteStacks(r, made)
  PROVE  stack' \in [Secs -> Seq(Builds)]
<1>1. ASSUME NEW s \in Secs, s \in DOMAIN made
      PROVE  Append(stack[s], [by |-> r, members |-> made[s]]) \in Seq(Builds)
  BY <1>1, StacksMade DEF TypeOK
<1> QED
  BY <1>1 DEF TypeOK, WriteStacks

LEMMA StackBuilderTyped ==
  ASSUME IInv, NEW r \in Runs, MoveStack(r) \/ StartStackBuilder(r) \/ EndStackBuilder(r)
  PROVE  TypeOK' /\ DirKnown'
<1> USE DEF TypeOK, Goto, Halt, PCs, Working, stacks, bounds, IInv
<1>1. CASE MoveStack(r)
  <2>1. job[r].dir \in Dirs
    BY <1>1 DEF MoveStack, StagesPassed, Stages, DirKnown
  <2> DEFINE q == quarantine[job[r].dir]
  <2>2. PICK s \in InTheWay : /\ CanMove(q, s)
                              /\ quarantine' = [quarantine EXCEPT ![job[r].dir] = Moved(q, s)]
                              /\ stack' = [stack EXCEPT ![s] = <<>>]
    BY <1>1 DEF MoveStack
  <2>3. s \in Secs
    BY RebuildIsSome DEF InTheWay
  <2>4. q \in [Secs -> Seq(Seq(Builds))] /\ \A x \in Secs : Len(q[x]) <= 2
    BY <2>1
  <2>5. /\ Append(q[s], stack[s]) \in Seq(Seq(Builds))
        /\ Len(Append(q[s], stack[s])) <= 2
    <3>1. q[s] \in Seq(Seq(Builds)) /\ stack[s] \in Seq(Builds) /\ Len(q[s]) < 2
      BY <2>2, <2>3, <2>4 DEF CanMove
    <3> HIDE DEF q
    <3> QED
      BY <3>1
  <2>6. /\ Moved(q, s) \in [Secs -> Seq(Seq(Builds))]
        /\ \A x \in Secs : Len(Moved(q, s)[x]) <= 2
    <3> HIDE DEF q
    <3> QED
      BY <2>3, <2>4, <2>5 DEF Moved
  <2>7. /\ quarantine' \in [Dirs -> [Secs -> Seq(Seq(Builds))]]
        /\ \A d \in Dirs, x \in Secs : Len(quarantine'[d][x]) <= 2
    <3> HIDE DEF q
    <3> QED
      BY <2>1, <2>2, <2>6
  <2>8. stack' \in [Secs -> Seq(Builds)]
    BY <2>2, <2>3
  <2> QED
    BY <1>1, <2>7, <2>8 DEF MoveStack, DirKnown
<1>2. CASE StartStackBuilder(r)
  <2>1. UNION {workbook[s] : s \in Rebuild} \in SUBSET Members
    BY RebuildIsSome
  <2>2. engine' \in [Runs -> Engines]
    <3>1. "stackbuilder" \in EngineSteps
      BY DEF EngineSteps
    <3>2. \/ Start(r, "stackbuilder", UNION {workbook[s] : s \in Rebuild})
          \/ UNCHANGED engine
      BY <1>2 DEF StartStackBuilder
    <3> QED
      BY <2>1, <3>1, <3>2, EngineStarted
  <2> QED
    BY <1>2, <2>2 DEF StartStackBuilder, DirKnown
<1>3. CASE EndStackBuilder(r)
  <2>1. engine' \in [Runs -> Engines]
    BY <1>3, Blanks DEF EndStackBuilder, Stop
  <2>2. stack' \in [Secs -> Seq(Builds)]
    BY <1>3, StacksTyped DEF EndStackBuilder
  <2> QED
    BY <1>3, <2>1, <2>2 DEF EndStackBuilder, DirKnown
<1> QED
  BY <1>1, <1>2, <1>3

LEMMA ScoredTyped ==
  ASSUME TypeOK, NEW secs \in SUBSET Secs, NEW fate \in Fated(secs)
  PROVE  Scored(fate) \in [Secs -> Builds] /\ Excluded(fate) \in SUBSET Secs
<1>1. fate \in [secs -> Fates] /\ \A s \in secs : fate[s] # "missing" => stack[s] # <<>>
  BY DEF Fated, HasCombo
<1>2. ASSUME NEW s \in Secs, s \in DOMAIN fate, s \in Rows(fate) PROVE Selected(s) \in Builds
  <2>1. stack[s] \in Seq(Builds) /\ stack[s] # <<>>
    BY <1>1, <1>2 DEF TypeOK, Rows
  <2>2. Len(stack[s]) \in Nat /\ Len(stack[s]) > 0
    BY <2>1
  <2>3. stack[s][Len(stack[s])] \in Builds
    BY <2>1, <2>2
  <2> QED
    BY <2>3 DEF Selected, Last
<1>3. Scored(fate) \in [Secs -> Builds]
  BY <1>2, Blanks DEF Scored
<1> QED
  BY <1>1, <1>3 DEF Excluded

\* Scoring and merging leave alone what the lock and the gates go by.
LEMMA JobGoesOn ==
  ASSUME TypeOK, NEW r \in Runs, Recook(r) \/ RerankRecook(r) \/ Combine(r)
  PROVE  \E new \in Jobs : /\ job' = [job EXCEPT ![r] = new]
                           /\ new.passes = job[r].passes /\ new.dir = job[r].dir
                           /\ new.reclaim = job[r].reclaim /\ new.kind = job[r].kind
                           /\ new.reuse = job[r].reuse /\ new.excl = job[r].excl
<1>1. CASE UNCHANGED job
  BY <1>1 DEF TypeOK
<1>2. CASE Recook(r) /\ ~UNCHANGED job
  <2>1. PICK fate \in Fated(Rebuild) :
          job' = [job EXCEPT ![r].fresh = Scored(fate),
                             ![r].unscored = \E s \in Rebuild : fate[s] = "unscored"]
    BY <1>2 DEF Recook
  <2> DEFINE u == \E s \in Rebuild : fate[s] = "unscored"
  <2>2. Scored(fate) \in [Secs -> Builds] /\ u \in BOOLEAN
    BY ScoredTyped, RebuildIsSome
  <2>3. job' = [job EXCEPT ![r] = [job[r] EXCEPT !.fresh = Scored(fate), !.unscored = u]]
    BY <2>1 DEF TypeOK
  <2> HIDE DEF u
  <2>4. [job[r] EXCEPT !.fresh = Scored(fate), !.unscored = u] \in Jobs
    BY <2>2, JobsUpdated DEF TypeOK
  <2>5. /\ [job[r] EXCEPT !.fresh = Scored(fate), !.unscored = u].passes = job[r].passes
        /\ [job[r] EXCEPT !.fresh = Scored(fate), !.unscored = u].dir = job[r].dir
        /\ [job[r] EXCEPT !.fresh = Scored(fate), !.unscored = u].reclaim = job[r].reclaim
        /\ [job[r] EXCEPT !.fresh = Scored(fate), !.unscored = u].kind = job[r].kind
        /\ [job[r] EXCEPT !.fresh = Scored(fate), !.unscored = u].reuse = job[r].reuse
        /\ [job[r] EXCEPT !.fresh = Scored(fate), !.unscored = u].excl = job[r].excl
    BY DEF TypeOK, Jobs
  <2> QED
    BY <2>3, <2>4, <2>5
<1>3. CASE RerankRecook(r) /\ ~UNCHANGED job
  <2> DEFINE asked == {s \in Secs : board[s] # NoBuild}
  <2>1. PICK fate \in Fated(asked) :
          job' = [job EXCEPT ![r].fresh = Scored(fate), ![r].listed = Excluded(fate),
                             ![r].unscored = \E s \in asked : fate[s] = "unscored"]
    BY <1>3 DEF RerankRecook
  <2> DEFINE u == \E s \in asked : fate[s] = "unscored"
  <2>2. Scored(fate) \in [Secs -> Builds] /\ Excluded(fate) \in SUBSET Secs /\ u \in BOOLEAN
    BY ScoredTyped
  <2>3. job' = [job EXCEPT ![r] = [job[r] EXCEPT !.fresh = Scored(fate),
                                                 !.listed = Excluded(fate), !.unscored = u]]
    BY <2>1 DEF TypeOK
  <2> HIDE DEF u
  <2>4. [job[r] EXCEPT !.fresh = Scored(fate), !.listed = Excluded(fate), !.unscored = u]
          \in Jobs
    BY <2>2, JobsUpdated DEF TypeOK
  <2>5. /\ [job[r] EXCEPT !.fresh = Scored(fate), !.listed = Excluded(fate),
                          !.unscored = u].passes = job[r].passes
        /\ [job[r] EXCEPT !.fresh = Scored(fate), !.listed = Excluded(fate),
                          !.unscored = u].dir = job[r].dir
        /\ [job[r] EXCEPT !.fresh = Scored(fate), !.listed = Excluded(fate),
                          !.unscored = u].reclaim = job[r].reclaim
        /\ [job[r] EXCEPT !.fresh = Scored(fate), !.listed = Excluded(fate),
                          !.unscored = u].kind = job[r].kind
        /\ [job[r] EXCEPT !.fresh = Scored(fate), !.listed = Excluded(fate),
                          !.unscored = u].reuse = job[r].reuse
        /\ [job[r] EXCEPT !.fresh = Scored(fate), !.listed = Excluded(fate),
                          !.unscored = u].excl = job[r].excl
    BY DEF TypeOK, Jobs
  <2> QED
    BY <2>3, <2>4, <2>5
<1>4. CASE Combine(r) /\ ~UNCHANGED job
  <2> DEFINE merged == Merge(board, job[r].fresh)
  <2>1. merged \in [Secs -> Builds]
    BY DEF Merge, TypeOK, Jobs
  <2> HIDE DEF merged
  <2>2. [job[r] EXCEPT !.merged = merged] \in Jobs
    BY <2>1, JobsUpdated, Blanks DEF TypeOK
  <2>3. job' = [job EXCEPT ![r] = [job[r] EXCEPT !.merged = merged]]
    BY <1>4 DEF Combine, TypeOK, merged
  <2>4. /\ [job[r] EXCEPT !.merged = merged].passes = job[r].passes
        /\ [job[r] EXCEPT !.merged = merged].dir = job[r].dir
        /\ [job[r] EXCEPT !.merged = merged].reclaim = job[r].reclaim
        /\ [job[r] EXCEPT !.merged = merged].kind = job[r].kind
        /\ [job[r] EXCEPT !.merged = merged].reuse = job[r].reuse
        /\ [job[r] EXCEPT !.merged = merged].excl = job[r].excl
    BY DEF TypeOK, Jobs
  <2> QED
    BY <2>2, <2>3, <2>4
<1> QED
  BY <1>1, <1>2, <1>3, <1>4

LEMMA RecookTyped ==
  ASSUME TypeOK, DirKnown, NEW r \in Runs, Recook(r) \/ RerankRecook(r)
  PROVE  TypeOK' /\ DirKnown'
<1>1. PICK new \in Jobs : /\ job' = [job EXCEPT ![r] = new]
                          /\ new.passes = job[r].passes /\ new.dir = job[r].dir
  BY JobGoesOn
<1>2. job' \in [Runs -> Jobs] /\ DirKnown'
  BY <1>1 DEF TypeOK, DirKnown
<1>3. pc' \in [Runs -> PCs]
  BY DEF TypeOK, PCs, Working, Recook, RerankRecook, Halt, Goto
<1>4. UNCHANGED <<blocked, lock, engine, artifacts, bounds>>
  BY DEF Recook, RerankRecook
<1> QED
  BY <1>2, <1>3, <1>4 DEF TypeOK, artifacts, stacks, bounds

LEMMA PublishTyped ==
  ASSUME TypeOK, DirKnown, NEW r \in Runs, Combine(r) \/ Promote(r)
  PROVE  TypeOK' /\ DirKnown'
<1>1. CASE Combine(r)
  <2>1. PICK new \in Jobs : /\ job' = [job EXCEPT ![r] = new]
                            /\ new.passes = job[r].passes /\ new.dir = job[r].dir
    BY <1>1, JobGoesOn
  <2>2. job' \in [Runs -> Jobs] /\ DirKnown'
    BY <2>1 DEF TypeOK, DirKnown
  <2> QED
    BY <1>1, <2>2 DEF Combine, TypeOK, PCs, Working, Goto, Halt, artifacts, stacks, bounds
<1>2. CASE Promote(r)
  <2>1. board' \in [Secs -> Builds]
    BY <1>2 DEF Promote, TypeOK, Jobs
  <2> QED
    BY <1>2, <2>1 DEF Promote, TypeOK, PCs, Working, Goto, Halt, stacks, bounds, DirKnown
<1> QED
  BY <1>1, <1>2

LEMMA OrphanTyped ==
  ASSUME TypeOK, DirKnown, NEW r \in Runs, Orphan(r)
  PROVE  TypeOK' /\ DirKnown'
<1>1. engine[r].input \in SUBSET Members
  BY DEF TypeOK, Engines
<1>2. engine' \in [Runs -> Engines]
  BY EngineStopped DEF Orphan
<1>3. workbook' \in [Secs -> SUBSET Members] /\ refreshed' \in SUBSET Members
  BY <1>1, WorkbooksTyped DEF Orphan, TypeOK
<1>4. stack' \in [Secs -> Seq(Builds)] /\ UNCHANGED quarantine
  BY StacksTyped DEF Orphan, TypeOK, stacks
<1> QED
  BY <1>2, <1>3, <1>4 DEF Orphan, TypeOK, DirKnown, bounds

LEMMA EditTyped ==
  ASSUME TypeOK, DirKnown, Edit
  PROVE  TypeOK' /\ DirKnown'
<1>1. edits' \in 0 .. MaxEdits
  BY BoundsAreBounds DEF Edit, TypeOK
<1> QED
  BY <1>1 DEF Edit, TypeOK, DirKnown, artifacts, stacks

LEMMA NextTyped ==
  ASSUME IInv, [Next]_vars
  PROVE  TypeOK' /\ DirKnown'
<1>1. CASE UNCHANGED vars
  BY <1>1 DEF IInv, TypeOK, DirKnown, vars, stacks
<1>2. CASE Next
  BY <1>2, LaunchTyped, LockTyped, OnePassTyped, ImpactSearchTyped, StackBuilderTyped,
     RecookTyped, PublishTyped, OrphanTyped, EditTyped DEF Next, Steps, Advance, IInv
<1> QED
  BY <1>1, <1>2
-----------------------------------------------------------------------------
(* The lock and the engines. *)

\* What a step of a run that holds the lock does, as far as the invariant can see.
HolderStep(r) ==
  /\ pc[r] \in Holding /\ UNCHANGED lock
  /\ \E step \in Holding : /\ pc' = [pc EXCEPT ![r] = step]
                           /\ step \in Stages => job[r].passes
                           /\ engine'[r] # NoEngine => step \in EngineSteps
  /\ \A q \in Runs : job'[q].passes = job[q].passes /\ job'[q].reclaim = job[q].reclaim
  /\ \A q \in Runs : q # r => engine'[q] = engine[q]

\* The steps of a run between taking the lock and giving it back.
OwnStep(r) == \/ Gates(r) \/ StartOnePass(r) \/ EndOnePass(r)
              \/ MoveWorkbook(r) \/ StartImpactSearch(r) \/ EndImpactSearch(r)
              \/ MoveStack(r) \/ StartStackBuilder(r) \/ EndStackBuilder(r)
              \/ Recook(r) \/ RerankRecook(r) \/ Combine(r) \/ Promote(r)

LEMMA StepsAreHolderSteps ==
  ASSUME IInv, NEW r \in Runs, OwnStep(r)
  PROVE  HolderStep(r)
<1> USE DEF OwnStep, IInv, TypeOK, Goto, Halt, Holding, Working, Stages, EngineSteps
<1>1. ASSUME UNCHANGED job
      PROVE  \A q \in Runs : job'[q].passes = job[q].passes /\ job'[q].reclaim = job[q].reclaim
  BY <1>1
<1>2. pc[r] \in Stages => job[r].passes
  BY DEF StagesPassed
<1>3. engine[r] # NoEngine => pc[r] \in EngineSteps \cup {"dead"}
  BY DEF EngineHasParent
<1>4. CASE Gates(r)
  BY <1>1, <1>3, <1>4 DEF Gates, HolderStep
<1>5. CASE StartOnePass(r)
  BY <1>1, <1>2, <1>3, <1>5 DEF StartOnePass, Start, HolderStep
<1>6. CASE EndOnePass(r)
  BY <1>1, <1>2, <1>6 DEF EndOnePass, Stop, HolderStep
<1>7. CASE StartImpactSearch(r)
  BY <1>1, <1>2, <1>3, <1>7 DEF StartImpactSearch, Start, HolderStep
<1>8. CASE EndImpactSearch(r)
  BY <1>1, <1>2, <1>8 DEF EndImpactSearch, Stop, HolderStep
<1>9. CASE StartStackBuilder(r)
  BY <1>1, <1>2, <1>3, <1>9 DEF StartStackBuilder, Start, HolderStep
<1>10. CASE EndStackBuilder(r)
  BY <1>1, <1>2, <1>10 DEF EndStackBuilder, Stop, HolderStep
<1>11. ASSUME Recook(r) \/ RerankRecook(r) \/ Combine(r)
       PROVE  \A q \in Runs : job'[q].passes = job[q].passes /\ job'[q].reclaim = job[q].reclaim
  <2>1. PICK new \in Jobs : /\ job' = [job EXCEPT ![r] = new]
                            /\ new.passes = job[r].passes /\ new.reclaim = job[r].reclaim
    BY <1>11, JobGoesOn
  <2> QED
    BY <2>1
<1>12. CASE Recook(r)
  <2>1. pc' = [pc EXCEPT ![r] = "publish"] \/ pc' = [pc EXCEPT ![r] = "release"]
    BY <1>12 DEF Recook
  <2> QED
    BY <1>3, <1>11, <1>12, <2>1 DEF Recook, HolderStep
<1>13. CASE RerankRecook(r)
  <2>1. pc' = [pc EXCEPT ![r] = "publish"] \/ pc' = [pc EXCEPT ![r] = "release"]
    BY <1>13 DEF RerankRecook
  <2> QED
    BY <1>3, <1>11, <1>13, <2>1 DEF RerankRecook, HolderStep
<1>14. CASE Combine(r)
  BY <1>3, <1>11, <1>14 DEF Combine, HolderStep
<1>15. CASE Promote(r)
  BY <1>1, <1>3, <1>15 DEF Promote, HolderStep
<1>16. CASE MoveWorkbook(r) \/ MoveStack(r)
  <2>1. /\ pc[r] \in {"stage2", "stage3"}
        /\ UNCHANGED <<lock, pc, job, engine>>
    BY <1>16 DEF MoveWorkbook, MoveStack
  <2>2. pc' = [pc EXCEPT ![r] = pc[r]]
    BY <2>1
  <2> QED
    BY <1>1, <1>2, <1>3, <2>1, <2>2 DEF HolderStep
<1> QED
  BY <1>4, <1>5, <1>6, <1>7, <1>8, <1>9, <1>10, <1>12, <1>13, <1>14, <1>15, <1>16

LEMMA HolderStepKeeps ==
  ASSUME IInv, TypeOK', NEW r \in Runs, HolderStep(r)
  PROVE  Exclusion'
<1> USE DEF IInv, TypeOK
<1>1. PICK step \in Holding : /\ pc' = [pc EXCEPT ![r] = step]
                              /\ step \in Stages => job[r].passes
                              /\ engine'[r] # NoEngine => step \in EngineSteps
  BY DEF HolderStep
<1>2. /\ pc[r] \in Holding /\ lock = r /\ lock' = lock
      /\ \A q \in Runs : job'[q].passes = job[q].passes /\ job'[q].reclaim = job[q].reclaim
      /\ \A q \in Runs : q # r => engine'[q] = engine[q] /\ pc'[q] = pc[q]
      /\ pc'[r] = step
  BY <1>1 DEF HolderStep, HolderHolds
<1>3. step # "dead" /\ step # "lock"
  BY <1>1 DEF Holding, Working
<1>4. HolderHolds'
  BY <1>2 DEF HolderHolds
<1>5. EngineHasParent'
  BY <1>1, <1>2 DEF EngineHasParent
<1>6. StagesPassed'
  BY <1>1, <1>2 DEF StagesPassed
<1>7. ReclaimerAlone'
  BY <1>1, <1>2, <1>3 DEF ReclaimerAlone, Running, Holding
<1>8. OrphanBars'
  <2> SUFFICES ASSUME NEW q \in Runs, NEW p \in Runs, Orphaned(q)', job'[p].passes
               PROVE  /\ pc'[p] \notin Holding
                      /\ pc'[p] = "lock" => lock' = q /\ ~job'[p].reclaim
    BY DEF OrphanBars
  <2>1. q # r /\ Orphaned(q)
    BY <1>2, <1>3 DEF Orphaned
  <2>2. job[p].passes /\ pc[p] \notin Holding /\ p # r
    BY <1>2, <2>1 DEF OrphanBars
  <2> QED
    BY <1>2, <2>1, <2>2 DEF OrphanBars
<1> QED
  BY <1>4, <1>5, <1>6, <1>7, <1>8 DEF Exclusion

LEMMA LaunchKeeps ==
  ASSUME IInv, TypeOK', NEW r \in Runs, LaunchBuild(r) \/ LaunchRerank(r)
  PROVE  Exclusion'
<1> USE DEF IInv, TypeOK
<1>1. PICK reclaim \in BOOLEAN :
        /\ Launch(r, reclaim)
        /\ job'[r].reclaim = reclaim
        /\ job'[r].passes => \A q \in Runs : engine[q] = NoEngine
        /\ \A q \in Runs : q # r => job'[q] = job[q]
  <2>1. CASE LaunchBuild(r)
    <3>1. PICK d \in Dirs, from \in Dirs \cup {None}, mode \in {"dry", "execute"},
               reclaim \in BOOLEAN : Launch(r, reclaim) /\ Preflight(r, d, from, mode, reclaim)
      BY <2>1 DEF LaunchBuild
    <3> DEFINE go == [NoJob EXCEPT !.kind = "build", !.dir = d, !.reuse = from,
                                   !.reclaim = reclaim, !.excl = blocked, !.passes = TRUE]
               stay == [NoJob EXCEPT !.kind = "build", !.reclaim = reclaim]
    <3>2. go.reclaim = reclaim /\ stay.reclaim = reclaim /\ stay.passes = FALSE
      BY DEF NoJob
    <3>3. PICK answer \in ConflictAnswers :
            \/ answer = "ok" /\ job' = [job EXCEPT ![r] = go]
            \/ job' = [job EXCEPT ![r] = stay]
      BY <3>1 DEF Preflight
    <3> HIDE DEF go, stay
    <3>4. answer = "ok" => \A q \in Runs : engine[q] = NoEngine
      BY DEF ConflictAnswers
    <3> QED
      BY <3>1, <3>2, <3>3, <3>4
  <2>2. CASE LaunchRerank(r)
    <3>1. /\ [NoJob EXCEPT !.kind = "rerank"].reclaim = FALSE
          /\ [NoJob EXCEPT !.kind = "rerank"].passes = FALSE
      BY DEF NoJob
    <3> QED
      BY <2>2, <3>1 DEF LaunchRerank
  <2> QED
    BY <2>1, <2>2
<1>2. /\ pc[r] = "idle" /\ pc' = [pc EXCEPT ![r] = "lock"]
      /\ UNCHANGED <<lock, engine>>
      /\ reclaim => \A q \in Runs : ~Running(q)
      /\ \A q \in Runs : job[q].reclaim => pc[q] # "lock"
  BY <1>1 DEF Launch, Goto
<1>3. "lock" \notin Holding /\ "lock" \notin Stages /\ "idle" \notin EngineSteps
  BY DEF Holding, Working, Stages, EngineSteps
<1>4. HolderHolds'
  BY <1>2, <1>3 DEF HolderHolds
<1>5. EngineHasParent'
  BY <1>2, <1>3 DEF EngineHasParent
<1>6. StagesPassed'
  BY <1>1, <1>2, <1>3 DEF StagesPassed
<1>7. ReclaimerAlone'
  BY <1>1, <1>2 DEF ReclaimerAlone, Running
<1>8. OrphanBars'
  <2> SUFFICES ASSUME NEW q \in Runs, NEW p \in Runs, Orphaned(q)', job'[p].passes
               PROVE  /\ pc'[p] \notin Holding
                      /\ pc'[p] = "lock" => lock' = q /\ ~job'[p].reclaim
    BY DEF OrphanBars
  <2>1. engine[q] # NoEngine /\ pc[q] = "dead"
    BY <1>2 DEF Orphaned
  <2>2. p # r
    BY <1>1, <2>1
  <2> QED
    BY <1>1, <1>2, <2>1, <2>2 DEF OrphanBars, Orphaned
<1> QED
  BY <1>4, <1>5, <1>6, <1>7, <1>8 DEF Exclusion

LEMMA TakeLockKeeps ==
  ASSUME IInv, TypeOK', NEW r \in Runs, TakeLock(r)
  PROVE  Exclusion'
<1> USE DEF IInv, TypeOK
<1>1. pc[r] = "lock" /\ UNCHANGED engine /\ Running(r)
  BY DEF TakeLock, Running
<1>2. CASE /\ lock # None => job[r].reclaim /\ ~Running(lock)
           /\ lock' = r /\ UNCHANGED job /\ pc' = [pc EXCEPT ![r] = "gates"]
  <2>1. \A q \in Runs : pc[q] \notin Holding
    BY <1>2, RunsAreNumbered DEF HolderHolds, Running, Holding, None
  <2>2. /\ "gates" \notin Stages /\ "gates" \notin EngineSteps /\ "gates" # "dead"
        /\ "lock" \notin EngineSteps
    BY DEF Stages, EngineSteps
  <2>3. HolderHolds'
    BY <1>2, <2>1 DEF HolderHolds
  <2>4. EngineHasParent'
    BY <1>1, <1>2, <2>2 DEF EngineHasParent
  <2>5. StagesPassed'
    BY <1>2, <2>2 DEF StagesPassed
  <2>6. ReclaimerAlone'
    BY <1>1, <1>2 DEF ReclaimerAlone, Running
  <2>7. OrphanBars'
    <3> SUFFICES ASSUME NEW q \in Runs, NEW p \in Runs, Orphaned(q)', job'[p].passes
                 PROVE  /\ pc'[p] \notin Holding
                        /\ pc'[p] = "lock" => lock' = q /\ ~job'[p].reclaim
      BY DEF OrphanBars
    <3>1. Orphaned(q) /\ q # r
      BY <1>1, <1>2 DEF Orphaned
    <3>2. job[p].passes /\ (pc[p] = "lock" => lock = q /\ ~job[p].reclaim)
      BY <1>2, <3>1 DEF OrphanBars
    <3>3. lock = q => lock # None
      BY RunsAreNumbered DEF None
    <3>4. p # r
      BY <1>1, <1>2, <3>2, <3>3
    <3>5. pc[p] # "lock"
      BY <1>1, <1>2, <3>2, <3>3, <3>4 DEF ReclaimerAlone, Running
    <3> QED
      BY <1>2, <2>1, <3>4, <3>5
  <2> QED
    BY <2>3, <2>4, <2>5, <2>6, <2>7 DEF Exclusion
<1>3. CASE /\ UNCHANGED lock /\ job' = [job EXCEPT ![r] = NoJob]
           /\ pc' = [pc EXCEPT ![r] = "ended"]
  <2>1. /\ "ended" \notin Holding /\ "ended" \notin Stages /\ "lock" \notin EngineSteps
        /\ NoJob.passes = FALSE
    BY DEF Holding, Working, Stages, EngineSteps, NoJob
  <2>2. HolderHolds' /\ StagesPassed'
    BY <1>3, <2>1 DEF HolderHolds, StagesPassed
  <2>3. EngineHasParent'
    BY <1>1, <1>3, <2>1 DEF EngineHasParent
  <2>4. ReclaimerAlone'
    BY <1>1, <1>3 DEF ReclaimerAlone, Running
  <2>5. OrphanBars'
    BY <1>1, <1>3, <2>1 DEF OrphanBars, Orphaned
  <2> QED
    BY <2>2, <2>3, <2>4, <2>5 DEF Exclusion
<1> QED
  BY <1>2, <1>3 DEF TakeLock, Goto

LEMMA EndKeeps ==
  ASSUME IInv, TypeOK', NEW r \in Runs, Release(r) \/ Kill(r)
  PROVE  Exclusion'
<1> USE DEF IInv, TypeOK
<1>1. /\ \A q \in Runs : q # r => engine'[q] = engine[q]
      /\ job' = [job EXCEPT ![r] = NoJob]
      /\ \E step \in {"ended", "dead"} :
           /\ pc' = [pc EXCEPT ![r] = step]
           /\ step = "ended" => pc[r] = "release" /\ UNCHANGED engine
           /\ step = "dead" => UNCHANGED lock
      /\ lock = r
  BY DEF Release, Kill, Stop, Goto, HolderHolds, Holding
<1>2. /\ {"ended", "dead"} \cap (Holding \cup Stages \cup {"lock"}) = {}
      /\ \A q \in Runs : Running(q)' <=> pc'[q] \in Holding \cup {"lock"}
      /\ \A q \in Runs : Running(q) <=> pc[q] \in Holding \cup {"lock"}
      /\ "release" \notin EngineSteps /\ NoJob.passes = FALSE /\ NoJob.reclaim = FALSE
  BY DEF Holding, Working, Stages, EngineSteps, NoJob, Running
<1>3. \A q \in Runs : q # r => pc[q] \notin Holding
  BY <1>1 DEF HolderHolds
<1>4. HolderHolds'
  BY <1>1, <1>2, <1>3 DEF HolderHolds
<1>5. EngineHasParent'
  BY <1>1, <1>2 DEF EngineHasParent
<1>6. StagesPassed'
  BY <1>1, <1>2 DEF StagesPassed
<1>7. ReclaimerAlone'
  BY <1>1, <1>2 DEF ReclaimerAlone
<1>8. OrphanBars'
  <2> SUFFICES ASSUME NEW q \in Runs, NEW p \in Runs, Orphaned(q)', job'[p].passes
               PROVE  /\ pc'[p] \notin Holding
                      /\ pc'[p] = "lock" => lock' = q /\ ~job'[p].reclaim
    BY DEF OrphanBars
  <2>1. p # r /\ job[p].passes /\ pc'[p] = pc[p] /\ job'[p] = job[p]
    BY <1>1, <1>2
  <2>2. pc'[p] \notin Holding
    BY <1>3, <2>1
  <2>3. ASSUME pc'[p] = "lock" PROVE lock' = q /\ ~job'[p].reclaim
    <3>1. ~job[p].reclaim
      <4>1. pc[p] = "lock" /\ Running(r)
        BY <1>1, <2>1, <2>3 DEF Running, Release, Kill
      <4> QED
        BY <2>1, <4>1 DEF ReclaimerAlone
    <3>2. CASE q = r
      BY <1>1, <2>1, <3>1, <3>2 DEF Orphaned
    <3>3. CASE q # r
      <4>1. Orphaned(q)
        BY <1>1, <3>3 DEF Orphaned
      <4>2. lock = q
        BY <2>1, <2>3, <4>1 DEF OrphanBars
      <4> QED
        BY <1>1, <3>3, <4>2
    <3> QED
      BY <3>2, <3>3
  <2> QED
    BY <2>2, <2>3
<1> QED
  BY <1>4, <1>5, <1>6, <1>7, <1>8 DEF Exclusion

LEMMA OthersKeep ==
  ASSUME IInv, TypeOK', NEW r \in Runs, Orphan(r) \/ Edit \/ UNCHANGED vars
  PROVE  Exclusion'
<1>1. /\ UNCHANGED <<lock, pc, job>>
      /\ \A q \in Runs : engine'[q] \in {engine[q], NoEngine}
  BY DEF Orphan, Edit, Stop, vars, IInv, TypeOK
<1> QED
  BY <1>1 DEF IInv, Exclusion, HolderHolds, EngineHasParent, StagesPassed, ReclaimerAlone,
              Running, OrphanBars, Orphaned

-----------------------------------------------------------------------------
\* No step but a start of its parent's brings an engine to life.
LEMMA EnginesAreStarted ==
  ASSUME IInv, [Next]_vars, NEW q \in Runs, engine'[q] # NoEngine, engine[q] = NoEngine
  PROVE  pc'[q] \in EngineSteps
<1> USE DEF IInv, TypeOK
<1>1. ASSUME NEW r \in Runs, HolderStep(r) PROVE pc'[q] \in EngineSteps
  BY <1>1 DEF HolderStep
<1>2. ASSUME NEW r \in Runs,
             \/ LaunchBuild(r) \/ LaunchRerank(r) \/ TakeLock(r) \/ Release(r)
             \/ Kill(r) \/ Orphan(r) \/ Edit \/ UNCHANGED vars
      PROVE  FALSE
  <2>1. UNCHANGED engine \/ Stop(r)
    BY <1>2 DEF LaunchBuild, LaunchRerank, Launch, TakeLock, Release, Kill, Orphan, Edit, vars
  <2> QED
    BY <2>1 DEF Stop
<1> QED
  BY <1>1, <1>2, StepsAreHolderSteps DEF Next, Steps, Advance, OwnStep

LEMMA OneEngineKept ==
  ASSUME IInv, [Next]_vars, Exclusion'
  PROVE  OneEngine'
<1> SUFFICES ASSUME NEW p \in Runs, NEW q \in Runs,
                    engine'[p] # NoEngine, engine'[q] # NoEngine, p # q
             PROVE  FALSE
  BY DEF OneEngine
<1>1. EngineSteps \subseteq Holding /\ EngineSteps \subseteq Stages /\ "dead" \notin EngineSteps
  BY DEF EngineSteps, Holding, Working, Stages
<1>2. /\ pc'[p] \in EngineSteps \cup {"dead"}
      /\ pc'[q] \in EngineSteps \cup {"dead"}
  BY DEF Exclusion, EngineHasParent
<1>3. CASE pc'[p] \in EngineSteps /\ pc'[q] \in EngineSteps
  BY <1>1, <1>3 DEF Exclusion, HolderHolds
<1>4. ASSUME NEW a \in Runs, NEW b \in Runs, pc'[a] = "dead", engine'[a] # NoEngine,
             pc'[b] \in EngineSteps
      PROVE  FALSE
  BY <1>1, <1>4 DEF Exclusion, StagesPassed, OrphanBars, Orphaned
<1>5. CASE pc'[p] = "dead" /\ pc'[q] = "dead"
  <2>1. engine[p] # NoEngine /\ engine[q] # NoEngine
    BY <1>1, <1>5, EnginesAreStarted
  <2> QED
    BY <2>1 DEF IInv, OneEngine
<1> QED
  BY <1>2, <1>3, <1>4, <1>5

LEMMA InitInductive == Init => IInv
<1> SUFFICES ASSUME Init PROVE IInv
  OBVIOUS
<1>1. TypeOK
  BY InitTyped
<1>2. /\ \A r \in Runs : pc[r] = "idle" /\ engine[r] = NoEngine /\ job[r].passes = FALSE
      /\ "idle" \notin Holding /\ "idle" \notin Stages
  BY DEF Init, NoJob, Holding, Working, Stages, EngineSteps
<1> QED
  BY <1>1, <1>2 DEF IInv, DirKnown, OneEngine, HolderHolds, EngineHasParent, StagesPassed,
                    ReclaimerAlone, OrphanBars

LEMMA NextInductive == IInv /\ [Next]_vars => IInv'
<1> SUFFICES ASSUME IInv, [Next]_vars PROVE IInv'
  OBVIOUS
<1>1. TypeOK' /\ DirKnown'
  BY NextTyped
<1>2. Exclusion'
  <2>1. CASE UNCHANGED vars \/ Edit
    <3>1. ASSUME Runs = {} PROVE Exclusion'
      BY <3>1 DEF Exclusion, HolderHolds, EngineHasParent, StagesPassed, ReclaimerAlone,
                  OrphanBars
    <3> QED
      BY <1>1, <2>1, <3>1, OthersKeep
  <2>2. ASSUME NEW r \in Runs, LaunchBuild(r) \/ LaunchRerank(r) PROVE Exclusion'
    BY <1>1, <2>2, LaunchKeeps
  <2>3. ASSUME NEW r \in Runs, Steps(r) PROVE Exclusion'
    <3>1. TakeLock(r) \/ Release(r) \/ HolderStep(r)
      BY <2>3, StepsAreHolderSteps DEF Steps, Advance, OwnStep
    <3> QED
      BY <1>1, <3>1, TakeLockKeeps, EndKeeps, HolderStepKeeps
  <2>4. ASSUME NEW r \in Runs, Kill(r) \/ Orphan(r) PROVE Exclusion'
    BY <1>1, <2>4, EndKeeps, OthersKeep
  <2> QED
    BY <2>1, <2>2, <2>3, <2>4 DEF Next
<1>3. OneEngine'
  BY <1>2, OneEngineKept
<1> QED
  BY <1>1, <1>2, <1>3 DEF IInv, Exclusion

LEMMA Inductive == Spec => []IInv
BY InitInductive, NextInductive, PTL DEF Spec

\* Every variable keeps its type, however many launches, directories and tickers there are.
THEOREM TypesHold == Spec => []TypeOK
<1>1. IInv => TypeOK
  BY DEF IInv
<1> QED
  BY <1>1, Inductive, PTL

\* Two engines never write at once: an engine that runs belongs to the holder of the lock
\* or is the orphan of a killed one, and the lock and the look at the processes, though
\* that comes before it, keep the two apart.
THEOREM OneEngineHolds == Spec => []OneEngine
<1>1. IInv => OneEngine
  BY DEF IInv
<1> QED
  BY <1>1, Inductive, PTL
-----------------------------------------------------------------------------
(* The lock of the runs is a lock. *)

Claim == {lock} \ {None}
Inside == {r \in Runs : pc[r] \in Working \cup {"gates", "release"}}

LEMMA WhoIsInside ==
  ASSUME IInv
  PROVE  /\ \A r \in Inside : lock = r /\ Claim = {r} /\ Inside = {r}
         /\ \A r \in Runs : {r} \ {None} = {r}
<1>1. \A r \in Runs : r # None
  BY RunsAreNumbered DEF None
<1>2. \A r \in Inside : r \in Runs /\ lock = r
  BY DEF Inside, IInv, HolderHolds, Holding
<1> QED
  BY <1>1, <1>2 DEF Claim

\* Who comes in, or goes out, is the one who moves.
LEMMA StepsRunLock ==
  ASSUME IInv, Next
  PROVE  Lock!Next \/ UNCHANGED Lock!vars
<1>1. pc \in [Runs -> PCs]
  BY DEF IInv, TypeOK
<1>2. ASSUME NEW r \in Runs, NEW step, Goto(r, step), step \notin Holding
      PROVE  Inside' = Inside \ {r}
  BY <1>1, <1>2 DEF Goto, Inside, Holding
<1>3. ASSUME NEW r \in Runs, NEW step, pc' = [pc EXCEPT ![r] = step], step \in Holding
      PROVE  Inside' = Inside \cup {r}
  BY <1>1, <1>3 DEF Inside, Holding
<1>4. ASSUME NEW r \in Runs, LaunchBuild(r) \/ LaunchRerank(r)
      PROVE  UNCHANGED Lock!vars
  <2>1. pc[r] = "idle" /\ Goto(r, "lock") /\ UNCHANGED lock
    BY <1>4 DEF LaunchBuild, LaunchRerank, Launch
  <2>2. "lock" \notin Holding /\ "idle" \notin Holding
    BY DEF Holding, Working
  <2>3. r \notin Inside /\ Inside' = Inside \ {r}
    BY <1>2, <2>1, <2>2 DEF Inside, Holding
  <2> QED
    BY <2>1, <2>3 DEF Lock!vars, Inside
<1>5. ASSUME NEW r \in Runs, TakeLock(r)
      PROVE  Lock!Next \/ UNCHANGED Lock!vars
  <2>1. "gates" \in Holding /\ "ended" \notin Holding /\ "lock" \notin Holding
    BY DEF Holding, Working
  <2>2. CASE UNCHANGED lock /\ Goto(r, "ended")
    <3>1. r \notin Inside /\ Inside' = Inside \ {r}
      BY <1>2, <1>5, <2>1, <2>2 DEF TakeLock, Inside, Holding
    <3> QED
      BY <2>2, <3>1 DEF Lock!vars, Inside
  <2>3. CASE /\ lock # None => job[r].reclaim /\ ~Running(lock)
             /\ lock' = r /\ Goto(r, "gates")
    <3>1. Inside = {}
      <4>1. ASSUME NEW q \in Inside PROVE FALSE
        BY <2>3, <4>1, WhoIsInside, RunsAreNumbered DEF Inside, Running, None
      <4> QED
        BY <4>1
    <3>2. Claim' = {r} /\ Inside' = {r}
      BY <1>3, <2>1, <2>3, <3>1, WhoIsInside DEF Goto, Claim
    <3>3. Claim = {} \/ (Claim # {} /\ job[r].reclaim)
      BY <2>3 DEF Claim
    <3> QED
      BY <3>1, <3>2, <3>3 DEF Lock!Next, Lock!Take, Lock!TakeOver, Lock!Enter, Claim, Inside
  <2> QED
    BY <1>5, <2>2, <2>3 DEF TakeLock
<1>6. ASSUME NEW r \in Runs, OwnStep(r)
      PROVE  UNCHANGED Lock!vars
  <2>1. PICK step \in Holding : pc' = [pc EXCEPT ![r] = step]
    BY <1>6, StepsAreHolderSteps DEF HolderStep
  <2>2. pc[r] \in Holding /\ UNCHANGED lock
    BY <1>6, StepsAreHolderSteps DEF HolderStep
  <2>3. r \in Inside /\ Inside' = Inside \cup {r}
    BY <1>3, <2>1, <2>2 DEF Inside, Holding
  <2> QED
    BY <2>2, <2>3 DEF Lock!vars, Inside
<1>7. ASSUME NEW r \in Runs, Release(r) \/ (Kill(r) /\ pc[r] # "lock")
      PROVE  Lock!Next
  <2>1. "ended" \notin Holding /\ "dead" \notin Holding
    BY DEF Holding, Working
  <2>2. r \in Inside
    BY <1>7 DEF Release, Kill, Running, Inside
  <2>3. Inside' = Inside \ {r} /\ lock' \in {None, lock}
    BY <1>2, <1>7, <2>1 DEF Release, Kill
  <2>4. Claim = {r} /\ Inside = {r} /\ Inside' = {} /\ Claim' \in {{}, Claim}
    BY <2>2, <2>3, WhoIsInside DEF Claim
  <2> QED
    BY <2>4 DEF Lock!Next, Lock!Leave, Claim, Inside
<1>8. ASSUME NEW r \in Runs, Kill(r), pc[r] = "lock"
      PROVE  UNCHANGED Lock!vars
  <2>1. "dead" \notin Holding /\ "lock" \notin Holding
    BY DEF Holding, Working
  <2>2. r \notin Inside /\ Inside' = Inside \ {r} /\ UNCHANGED lock
    BY <1>2, <1>8, <2>1 DEF Kill, Inside, Holding
  <2> QED
    BY <2>2 DEF Lock!vars, Inside
<1>9. ASSUME NEW r \in Runs, Orphan(r) \/ Edit
      PROVE  UNCHANGED Lock!vars
  BY <1>9 DEF Orphan, Edit, Lock!vars
<1>10. CASE Edit
  BY <1>10 DEF Edit, Lock!vars
<1>11. CASE ~Edit
  <2>1. PICK r \in Runs : LaunchBuild(r) \/ LaunchRerank(r) \/ Steps(r) \/ Kill(r) \/ Orphan(r)
    BY <1>11 DEF Next
  <2>2. Steps(r) => TakeLock(r) \/ OwnStep(r) \/ Release(r)
    BY DEF Steps, Advance, OwnStep
  <2> QED
    BY <1>4, <1>5, <1>6, <1>7, <1>8, <1>9, <2>1, <2>2
<1> QED
  BY <1>10, <1>11

LEMMA OwnerKept ==
  ASSUME IInv, LockHasOwner, [Next]_vars
  PROVE  LockHasOwner'
<1> USE DEF IInv, TypeOK
<1> DEFINE Owning == Working \cup {"gates", "release", "dead"}
<1>1. /\ Owning = Holding \cup {"dead"} /\ "lock" \notin Owning /\ "idle" \notin Owning
      /\ \A r \in Runs : r # None
  BY RunsAreNumbered DEF Holding, Working, None
<1> HIDE DEF Owning
<1>2. LockHasOwner <=> (lock # None => pc[lock] \in Owning)
  BY DEF LockHasOwner, Owning
<1>3. LockHasOwner' <=> (lock' # None => pc'[lock'] \in Owning)
  BY DEF LockHasOwner, Owning
<1>4. ASSUME NEW r \in Runs, NEW step, UNCHANGED lock, pc' = [pc EXCEPT ![r] = step],
             pc[r] \notin Owning
      PROVE  LockHasOwner'
  BY <1>2, <1>3, <1>4
<1>5. ASSUME NEW r \in Runs, LaunchBuild(r) \/ LaunchRerank(r) PROVE LockHasOwner'
  BY <1>1, <1>4, <1>5 DEF LaunchBuild, LaunchRerank, Launch, Goto
<1>6. ASSUME NEW r \in Runs, TakeLock(r) PROVE LockHasOwner'
  <2>1. CASE UNCHANGED lock /\ Goto(r, "ended")
    BY <1>1, <1>4, <1>6, <2>1 DEF TakeLock, Goto
  <2>2. CASE lock' = r /\ Goto(r, "gates")
    BY <1>1, <1>3, <2>2 DEF Goto, Holding
  <2> QED
    BY <1>6, <2>1, <2>2 DEF TakeLock
<1>7. ASSUME NEW r \in Runs, OwnStep(r) PROVE LockHasOwner'
  <2>1. lock = r /\ UNCHANGED lock /\ \E step \in Holding : pc' = [pc EXCEPT ![r] = step]
    BY <1>7, StepsAreHolderSteps DEF HolderStep, HolderHolds
  <2> QED
    BY <1>1, <1>3, <2>1
<1>8. ASSUME NEW r \in Runs, Release(r) \/ Kill(r) PROVE LockHasOwner'
  BY <1>1, <1>3, <1>8 DEF Release, Kill, Goto
<1>9. ASSUME UNCHANGED <<lock, pc>> PROVE LockHasOwner'
  BY <1>2, <1>3, <1>9
<1>10. ASSUME NEW r \in Runs, Orphan(r) PROVE UNCHANGED <<lock, pc>>
  BY <1>10 DEF Orphan
<1>11. Edit \/ UNCHANGED vars => UNCHANGED <<lock, pc>>
  BY DEF Edit, vars
<1> QED
  BY <1>5, <1>6, <1>7, <1>8, <1>9, <1>10, <1>11 DEF Next, Steps, Advance, OwnStep

\* A lock that is taken is never left behind but by a kill: its owner is on its way to give
\* it back, for any number of runs that are refused, turned away or halted.
THEOREM LockHasOwnerHolds == Spec => []LockHasOwner
<1>1. Init => LockHasOwner
  BY DEF Init, LockHasOwner
<1> QED
  BY <1>1, OwnerKept, Inductive, PTL DEF Spec

\* The runs' lock is the lock that CrunchLock makes out of files: nobody is past it beside
\* the run it names, and it is taken over only once that run is gone.
THEOREM LockIsALock == Spec => LockIsARunLock
<1>1. Init => Lock!Init
  BY DEF Init, Lock!Init, Working
<1>2. IInv /\ [Next]_vars => [Lock!Next]_(Lock!vars)
  <2>1. ASSUME UNCHANGED vars PROVE UNCHANGED Lock!vars
    BY <2>1 DEF vars, Lock!vars
  <2> QED
    BY <2>1, StepsRunLock
<1> QED
  BY <1>1, <1>2, Inductive, PTL DEF Spec, LockIsARunLock, Lock!Spec

-----------------------------------------------------------------------------
(* The board and the reuse of a prior result. *)

\* What a run that is about to replace the board would put there is the board as it is now,
\* but for the rows it has scored.
MergedIsCurrent ==
  \A r \in Runs : pc[r] = "promote" => job[r].merged = Merge(board, job[r].fresh)

\* What a run directory lists has been through OnePass, and so has what a run that was
\* let through, a Build-and-Rank one, takes over from one.
ListedIsRefreshed == \A d \in Dirs : onepass[d] \subseteq refreshed
PassedBuilds == \A r \in Runs : job[r].passes => job[r].kind = "build"
ReuseIsRefreshed ==
  \A r \in Runs : job[r].passes /\ job[r].reuse # None => Members \ job[r].excl \subseteq refreshed

\* While a run holds the lock, no step but its own touches the board or its job.
LEMMA OthersLeaveAlone ==
  ASSUME IInv, [Next]_vars, NEW p \in Runs, pc[p] \in Holding, pc'[p] \in Holding,
         ~ OwnStep(p)
  PROVE  pc'[p] = pc[p] /\ job'[p] = job[p] /\ UNCHANGED board
<1> USE DEF IInv, TypeOK
<1>1. \A r \in Runs : r # p => pc[r] \notin Holding
  BY DEF HolderHolds
<1>2. /\ "lock" \notin Holding /\ "idle" \notin Holding
      /\ "ended" \notin Holding /\ "dead" \notin Holding
  BY DEF Holding, Working
<1>3. ASSUME NEW r \in Runs, LaunchBuild(r) \/ LaunchRerank(r) \/ TakeLock(r)
      PROVE  pc'[p] = pc[p] /\ job'[p] = job[p] /\ UNCHANGED board
  <2>1. pc[r] \in {"idle", "lock"}
    BY <1>3 DEF LaunchBuild, LaunchRerank, Launch, TakeLock
  <2>2. r # p
    BY <1>2, <2>1
  <2> QED
    BY <1>3, <2>2 DEF LaunchBuild, LaunchRerank, Launch, Preflight, TakeLock, Goto, artifacts
<1>4. ASSUME NEW r \in Runs, Release(r) \/ Kill(r) PROVE FALSE
  <2>1. pc[r] \in Holding
    BY <1>4 DEF Release, Kill, Running, Holding, HolderHolds
  <2>2. r = p
    BY <1>1, <2>1
  <2> QED
    BY <1>2, <1>4, <2>2 DEF Release, Kill, Goto
<1>5. ASSUME NEW r \in Runs, OwnStep(r) PROVE FALSE
  <2>1. pc[r] \in Holding
    BY <1>5, StepsAreHolderSteps DEF HolderStep
  <2> QED
    BY <1>1, <1>5, <2>1
<1>6. ASSUME NEW r \in Runs, Orphan(r) \/ Edit \/ UNCHANGED vars
      PROVE  pc'[p] = pc[p] /\ job'[p] = job[p] /\ UNCHANGED board
  BY <1>6 DEF Orphan, Edit, vars, artifacts
<1> QED
  BY <1>3, <1>4, <1>5, <1>6 DEF Next, Steps, Advance, OwnStep

\* Whoever comes to its promotion comes from its merge.
LEMMA PromoteAfterCombine ==
  ASSUME TypeOK, [Next]_vars, NEW p \in Runs, pc'[p] = "promote", pc[p] # "promote"
  PROVE  Combine(p)
<1> USE DEF TypeOK, Goto, Halt
<1>1. ASSUME NEW r \in Runs, LaunchBuild(r) \/ LaunchRerank(r) \/ TakeLock(r) \/ Release(r)
                             \/ Kill(r) \/ Orphan(r) \/ Edit \/ UNCHANGED vars
      PROVE  FALSE
  BY <1>1 DEF LaunchBuild, LaunchRerank, Launch, TakeLock, Release, Kill, Orphan, Edit, vars
<1>2. ASSUME NEW r \in Runs, OwnStep(r), ~Combine(r) PROVE FALSE
  BY <1>2 DEF OwnStep, Gates, StartOnePass, EndOnePass, MoveWorkbook, StartImpactSearch,
              EndImpactSearch, MoveStack, StartStackBuilder, EndStackBuilder, Recook,
              RerankRecook, Promote
<1>3. ASSUME NEW r \in Runs, Combine(r) PROVE r = p
  BY <1>3 DEF Combine
<1> QED
  BY <1>1, <1>2, <1>3 DEF Next, Steps, Advance, OwnStep

LEMMA MergedStaysCurrent ==
  ASSUME IInv, [Next]_vars, MergedIsCurrent
  PROVE  MergedIsCurrent'
<1> SUFFICES ASSUME NEW p \in Runs, pc'[p] = "promote"
             PROVE  job'[p].merged = Merge(board, job[p].fresh)'
  BY DEF MergedIsCurrent
<1> USE DEF IInv, TypeOK
<1>1. CASE Combine(p)
  <2> DEFINE merged == Merge(board, job[p].fresh)
  <2>1. job' = [job EXCEPT ![p] = [job[p] EXCEPT !.merged = merged]] /\ UNCHANGED board
    BY <1>1 DEF Combine, Halt, Goto, artifacts
  <2>2. /\ [job[p] EXCEPT !.merged = merged].merged = merged
        /\ [job[p] EXCEPT !.merged = merged].fresh = job[p].fresh
    BY DEF Jobs
  <2> QED
    BY <2>1, <2>2 DEF Merge
<1>2. CASE pc[p] = "promote"
  <2>1. "promote" \in Holding
    BY DEF Holding, Working
  <2>2. ~ OwnStep(p)
    BY <1>2 DEF OwnStep, Gates, StartOnePass, EndOnePass, MoveWorkbook, StartImpactSearch,
                EndImpactSearch, MoveStack, StartStackBuilder, EndStackBuilder, Recook,
                RerankRecook, Combine, Promote, Halt, Goto
  <2>3. job'[p] = job[p] /\ UNCHANGED board
    BY <1>2, <2>1, <2>2, OthersLeaveAlone
  <2> QED
    BY <1>2, <2>3 DEF MergedIsCurrent, Merge
<1> QED
  BY <1>1, <1>2, PromoteAfterCombine

\* A job but for what the lock, the gates and the reuse go by.
LEMMA PassedJobKept ==
  ASSUME IInv, [Next]_vars, NEW p \in Runs, ~LaunchBuild(p), job'[p].passes
  PROVE  /\ job[p].passes /\ job'[p].kind = job[p].kind
         /\ job'[p].reuse = job[p].reuse /\ job'[p].excl = job[p].excl
<1> USE DEF IInv, TypeOK
<1>1. NoJob.passes = FALSE /\ [NoJob EXCEPT !.kind = "rerank"].passes = FALSE
  BY DEF NoJob
<1>2. ASSUME NEW r \in Runs, TakeLock(r) \/ Release(r) \/ Kill(r) \/ LaunchRerank(r)
      PROVE  job'[p] = job[p]
  <2>1. \/ UNCHANGED job \/ job' = [job EXCEPT ![r] = NoJob]
        \/ job' = [job EXCEPT ![r] = [NoJob EXCEPT !.kind = "rerank"]]
    BY <1>2 DEF TakeLock, Release, Kill, LaunchRerank
  <2>2. PICK new : new.passes = FALSE /\ (UNCHANGED job \/ job' = [job EXCEPT ![r] = new])
    BY <1>1, <2>1
  <2>3. CASE r = p
    BY <2>2, <2>3
  <2>4. CASE r # p
    BY <2>2, <2>4
  <2> QED
    BY <2>3, <2>4
<1>3. ASSUME NEW r \in Runs, LaunchBuild(r) PROVE job'[p] = job[p]
  <2>1. r # p
    BY <1>3
  <2>2. \E d \in Dirs, from \in Dirs \cup {None}, mode \in {"dry", "execute"},
           reclaim \in BOOLEAN : Preflight(r, d, from, mode, reclaim)
    BY <1>3 DEF LaunchBuild
  <2> QED
    BY <2>1, <2>2 DEF Preflight
<1>4. ASSUME NEW r \in Runs, Recook(r) \/ RerankRecook(r) \/ Combine(r)
      PROVE  /\ job'[p].passes = job[p].passes /\ job'[p].kind = job[p].kind
             /\ job'[p].reuse = job[p].reuse /\ job'[p].excl = job[p].excl
  <2>1. PICK new \in Jobs : /\ job' = [job EXCEPT ![r] = new]
                            /\ new.passes = job[r].passes /\ new.kind = job[r].kind
                            /\ new.reuse = job[r].reuse /\ new.excl = job[r].excl
    BY <1>4, JobGoesOn
  <2> QED
    BY <2>1
<1>5. ASSUME NEW r \in Runs,
             \/ Gates(r) \/ StartOnePass(r) \/ EndOnePass(r)
             \/ MoveWorkbook(r) \/ StartImpactSearch(r) \/ EndImpactSearch(r)
             \/ MoveStack(r) \/ StartStackBuilder(r) \/ EndStackBuilder(r)
             \/ Promote(r) \/ Orphan(r) \/ Edit \/ UNCHANGED vars
      PROVE  job' = job
  BY <1>5 DEF Gates, StartOnePass, EndOnePass, MoveWorkbook, StartImpactSearch, EndImpactSearch,
              MoveStack, StartStackBuilder, EndStackBuilder, Promote, Orphan, Edit, vars
<1> QED
  BY <1>2, <1>3, <1>4, <1>5 DEF Next, Steps, Advance

LEMMA RefreshedGrows ==
  ASSUME IInv, [Next]_vars, ListedIsRefreshed
  PROVE  refreshed \subseteq refreshed' /\ ListedIsRefreshed'
<1> USE DEF IInv, TypeOK, ListedIsRefreshed
<1>1. ASSUME NEW r \in Runs, StartOnePass(r)
      PROVE  refreshed \subseteq refreshed' /\ ListedIsRefreshed'
  BY <1>1 DEF StartOnePass
<1>2. ASSUME NEW r \in Runs, EndOnePass(r)
      PROVE  refreshed \subseteq refreshed' /\ ListedIsRefreshed'
  BY <1>2 DEF EndOnePass
<1>3. ASSUME NEW r \in Runs, Orphan(r) PROVE refreshed \subseteq refreshed' /\ ListedIsRefreshed'
  <2>1. onepass' = onepass /\ refreshed' \in {refreshed, refreshed \cup engine[r].input}
    BY <1>3 DEF Orphan, stacks
  <2>2. refreshed \subseteq refreshed'
    BY <2>1
  <2> QED
    BY <2>1, <2>2
<1>4. ASSUME NEW r \in Runs,
             \/ LaunchBuild(r) \/ LaunchRerank(r) \/ TakeLock(r) \/ Gates(r)
             \/ MoveWorkbook(r) \/ StartImpactSearch(r) \/ EndImpactSearch(r)
             \/ MoveStack(r) \/ StartStackBuilder(r) \/ EndStackBuilder(r)
             \/ Recook(r) \/ RerankRecook(r) \/ Combine(r) \/ Promote(r) \/ Release(r)
             \/ Kill(r)
      PROVE  UNCHANGED <<refreshed, onepass>>
  BY <1>4 DEF LaunchBuild, LaunchRerank, Launch, TakeLock, Gates, MoveWorkbook, StartImpactSearch,
              EndImpactSearch, MoveStack, StartStackBuilder, EndStackBuilder, Recook, RerankRecook,
              Combine, Promote, Release, Kill, artifacts
<1>5. Edit \/ UNCHANGED vars => UNCHANGED <<refreshed, onepass>>
  BY DEF Edit, vars, artifacts
<1> QED
  BY <1>1, <1>2, <1>3, <1>4, <1>5 DEF Next, Steps, Advance

LEMMA ReuseStaysRefreshed ==
  ASSUME IInv, [Next]_vars, ListedIsRefreshed, ReuseIsRefreshed
  PROVE  ReuseIsRefreshed'
<1> SUFFICES ASSUME NEW p \in Runs, job'[p].passes, job'[p].reuse # None
             PROVE  Members \ job'[p].excl \subseteq refreshed'
  BY DEF ReuseIsRefreshed
<1>1. refreshed \subseteq refreshed'
  BY RefreshedGrows
<1>2. CASE LaunchBuild(p)
  <2>1. PICK d \in Dirs, from \in Dirs \cup {None}, mode \in {"dry", "execute"},
             reclaim \in BOOLEAN : Preflight(p, d, from, mode, reclaim)
    BY <1>2 DEF LaunchBuild
  <2> DEFINE go == [NoJob EXCEPT !.kind = "build", !.dir = d, !.reuse = from,
                                 !.reclaim = reclaim, !.excl = blocked, !.passes = TRUE]
             stay == [NoJob EXCEPT !.kind = "build", !.reclaim = reclaim]
             proof == from = None \/ Proven(from, Members \ blocked, blocked)
  <2>2. go.reuse = from /\ go.excl = blocked /\ stay.passes = FALSE
    BY DEF NoJob
  <2>3. \/ proof /\ job' = [job EXCEPT ![p] = go]
        \/ job' = [job EXCEPT ![p] = stay]
    BY <2>1 DEF Preflight
  <2> HIDE DEF go, stay
  <2>4. proof /\ job'[p] = go
    BY <2>2, <2>3 DEF IInv, TypeOK
  <2>5. from # None /\ job'[p].excl = blocked
    BY <2>2, <2>4
  <2>6. onepass[from] = Members \ blocked /\ from \in Dirs
    BY <2>4, <2>5 DEF Proven
  <2> QED
    BY <1>1, <2>5, <2>6 DEF ListedIsRefreshed
<1>3. CASE ~LaunchBuild(p)
  BY <1>1, <1>3, PassedJobKept DEF ReuseIsRefreshed
<1> QED
  BY <1>2, <1>3

LEMMA PassedStaysBuild ==
  ASSUME IInv, [Next]_vars, PassedBuilds
  PROVE  PassedBuilds'
<1> SUFFICES ASSUME NEW p \in Runs, job'[p].passes PROVE job'[p].kind = "build"
  BY DEF PassedBuilds
<1>1. CASE LaunchBuild(p)
  <2>1. PICK d \in Dirs, from \in Dirs \cup {None}, mode \in {"dry", "execute"},
             reclaim \in BOOLEAN : Preflight(p, d, from, mode, reclaim)
    BY <1>1 DEF LaunchBuild
  <2> DEFINE go == [NoJob EXCEPT !.kind = "build", !.dir = d, !.reuse = from,
                                 !.reclaim = reclaim, !.excl = blocked, !.passes = TRUE]
             stay == [NoJob EXCEPT !.kind = "build", !.reclaim = reclaim]
  <2>2. go.kind = "build" /\ stay.kind = "build"
    BY DEF NoJob
  <2>3. job' = [job EXCEPT ![p] = go] \/ job' = [job EXCEPT ![p] = stay]
    BY <2>1 DEF Preflight
  <2> HIDE DEF go, stay
  <2> QED
    BY <2>2, <2>3 DEF IInv, TypeOK
<1>2. CASE ~LaunchBuild(p)
  BY <1>2, PassedJobKept DEF PassedBuilds
<1> QED
  BY <1>1, <1>2

History == MergedIsCurrent /\ ListedIsRefreshed /\ PassedBuilds /\ ReuseIsRefreshed

LEMMA HistoryInductive == Spec => []History
<1>1. Init => History
  <2> SUFFICES ASSUME Init PROVE History
    OBVIOUS
  <2>1. \A r \in Runs : pc[r] = "idle" /\ job[r].passes = FALSE
    BY DEF Init, NoJob
  <2>2. \A d \in Dirs : onepass[d] = {}
    BY DEF Init
  <2> QED
    BY <2>1, <2>2 DEF History, MergedIsCurrent, ListedIsRefreshed, PassedBuilds, ReuseIsRefreshed
<1>2. IInv /\ [Next]_vars /\ History => History'
  BY MergedStaysCurrent, RefreshedGrows, PassedStaysBuild, ReuseStaysRefreshed DEF History
<1> QED
  BY <1>1, <1>2, Inductive, PTL DEF Spec

\* A run that goes on with a prior run's OnePass is over tickers that OnePass has been
\* through, whatever has been written into the prior run's directory since.
THEOREM ReuseIsEarnedHolds == Spec => []ReuseIsEarned
<1>1. IInv /\ History => ReuseIsEarned
  BY DEF IInv, History, StagesPassed, Stages, ReuseIsRefreshed, ReuseIsEarned
<1> QED
  BY <1>1, Inductive, HistoryInductive, PTL

\* The board is written by a promotion and by nothing else.
LEMMA OnlyPromoteWrites ==
  ASSUME [Next]_vars
  PROVE  UNCHANGED board \/ \E r \in Runs : Promote(r)
<1>1. ASSUME NEW r \in Runs,
             \/ LaunchBuild(r) \/ LaunchRerank(r) \/ TakeLock(r) \/ Gates(r)
             \/ StartOnePass(r) \/ EndOnePass(r) \/ MoveWorkbook(r) \/ StartImpactSearch(r)
             \/ EndImpactSearch(r)
      PROVE  UNCHANGED board
  BY <1>1 DEF LaunchBuild, LaunchRerank, Launch, TakeLock, Gates, StartOnePass, EndOnePass,
              MoveWorkbook, StartImpactSearch, EndImpactSearch, artifacts
<1>2. ASSUME NEW r \in Runs,
             \/ MoveStack(r) \/ StartStackBuilder(r) \/ EndStackBuilder(r)
             \/ Recook(r) \/ RerankRecook(r) \/ Combine(r) \/ Release(r)
             \/ Kill(r) \/ Orphan(r)
      PROVE  UNCHANGED board
  BY <1>2 DEF MoveStack, StartStackBuilder, EndStackBuilder, Recook, RerankRecook, Combine,
              Release, Kill, Orphan, artifacts
<1>3. Edit \/ UNCHANGED vars => UNCHANGED board
  BY DEF Edit, vars, artifacts
<1> QED
  BY <1>1, <1>2, <1>3 DEF Next, Steps, Advance

\* A publish replaces only rows that it has scored: between its merge and its promotion
\* nobody else has replaced the board.
THEOREM NoLostRowHolds == Spec => NoLostRow
<1>1. ASSUME IInv, History, [Next]_vars
      PROVE  [\A s \in Secs : board'[s] # board[s] =>
                \E r \in Runs : pc[r] = "promote" /\ job[r].fresh[s] = board'[s]]_vars
  <2> SUFFICES ASSUME NEW s \in Secs, board'[s] # board[s]
               PROVE  \E r \in Runs : pc[r] = "promote" /\ job[r].fresh[s] = board'[s]
    OBVIOUS
  <2>1. PICK r \in Runs : Promote(r)
    BY <1>1, OnlyPromoteWrites
  <2>2. pc[r] = "promote" /\ board' = job[r].merged
    BY <2>1 DEF Promote
  <2>3. job[r].merged[s] = IF job[r].fresh[s] # NoBuild THEN job[r].fresh[s] ELSE board[s]
    BY <1>1, <2>2 DEF History, MergedIsCurrent, Merge
  <2> QED
    BY <2>2, <2>3
<1> QED
  BY <1>1, Inductive, HistoryInductive, PTL DEF Spec, NoLostRow
-----------------------------------------------------------------------------
(* The stacks. *)

LEMMA AppendedRange ==
  ASSUME NEW S, NEW q \in Seq(S), NEW e \in S
  PROVE  /\ e \in Range(Append(q, e))
         /\ Range(q) \subseteq Range(Append(q, e))
         /\ Range(Append(q, e)) \subseteq Range(q) \cup {e}
<1>1. /\ Len(q) \in Nat /\ DOMAIN q = 1 .. Len(q)
      /\ DOMAIN Append(q, e) = 1 .. Len(q) + 1
      /\ Append(q, e)[Len(q) + 1] = e
      /\ \A i \in 1 .. Len(q) : Append(q, e)[i] = q[i]
  OBVIOUS
<1> QED
  BY <1>1 DEF Range

\* Some stacks are built.
Writes(r) == \E made \in Outputs(r) : WriteStacks(r, made)

\* Steps that neither build nor move a stack.
LEMMA StacksLeftAlone ==
  ASSUME [Next]_vars
  PROVE  \/ UNCHANGED stacks
         \/ \E r \in Runs : MoveStack(r)
         \/ \E r \in Runs : /\ EndStackBuilder(r) \/ (Orphan(r) /\ Orphaned(r))
                            /\ Writes(r) /\ UNCHANGED quarantine
<1>1. ASSUME NEW r \in Runs,
             \/ LaunchBuild(r) \/ LaunchRerank(r) \/ TakeLock(r) \/ Gates(r)
             \/ StartOnePass(r) \/ EndOnePass(r)
             \/ MoveWorkbook(r) \/ StartImpactSearch(r) \/ EndImpactSearch(r)
             \/ StartStackBuilder(r)
             \/ Recook(r) \/ RerankRecook(r) \/ Combine(r) \/ Promote(r) \/ Release(r)
             \/ Kill(r)
      PROVE  UNCHANGED stacks
  BY <1>1 DEF LaunchBuild, LaunchRerank, Launch, TakeLock, Gates, StartOnePass, EndOnePass,
              MoveWorkbook, StartImpactSearch, EndImpactSearch, StartStackBuilder, Recook,
              RerankRecook, Combine, Promote, Release, Kill, artifacts
<1>2. ASSUME NEW r \in Runs, Orphan(r)
      PROVE  \/ UNCHANGED stacks
             \/ Orphaned(r) /\ Writes(r) /\ UNCHANGED quarantine
  BY <1>2 DEF Orphan, Orphaned, Writes
<1>3. Edit \/ UNCHANGED vars => UNCHANGED stacks
  BY DEF Edit, vars, artifacts, stacks
<1>4. ASSUME NEW r \in Runs, EndStackBuilder(r) PROVE Writes(r) /\ UNCHANGED quarantine
  BY <1>4 DEF EndStackBuilder, Writes
<1> QED
  BY <1>1, <1>2, <1>3, <1>4 DEF Next, Steps, Advance

\* What is known to have been built belongs to a secondary.
BuiltKept == \A b \in built : b.of \in Secs /\ Kept(b.of, b.it)

LEMMA WritingKeeps ==
  ASSUME TypeOK, BuiltKept, NEW r \in Runs, NEW made \in Outputs(r), WriteStacks(r, made),
         UNCHANGED quarantine
  PROVE  BuiltKept'
<1> DEFINE new == [s \in DOMAIN made |-> [by |-> r, members |-> made[s]]]
<1>1. /\ stack' = [s \in Secs |-> IF s \in DOMAIN made THEN Append(stack[s], new[s]) ELSE stack[s]]
      /\ built' = built \cup {[of |-> s, it |-> new[s]] : s \in DOMAIN made}
  BY DEF WriteStacks
<1>2. \A s \in DOMAIN made : s \in Secs /\ new[s] \in Builds
  BY StacksMade
<1> HIDE DEF new
<1>3. ASSUME NEW s \in Secs
      PROVE  /\ Range(stack[s]) \subseteq Range(stack'[s])
             /\ s \in DOMAIN made => new[s] \in Range(stack'[s])
  BY <1>1, <1>2, AppendedRange DEF TypeOK
<1>4. ASSUME NEW b \in built PROVE b.of \in Secs /\ Kept(b.of, b.it)'
  BY <1>3 DEF BuiltKept, Kept
<1>5. ASSUME NEW s \in DOMAIN made PROVE s \in Secs /\ Kept(s, new[s])'
  BY <1>2, <1>3 DEF Kept
<1>6. ASSUME NEW b \in built' PROVE b.of \in Secs /\ Kept(b.of, b.it)'
  <2>1. CASE b \in built
    BY <1>4, <2>1
  <2>2. CASE b \notin built
    <3>1. PICK s \in DOMAIN made : b = [of |-> s, it |-> new[s]]
      BY <1>1, <2>2
    <3>2. b.of = s /\ b.it = new[s]
      BY <3>1
    <3> QED
      BY <1>5, <3>2
  <2> QED
    BY <2>1, <2>2
<1> QED
  BY <1>6 DEF BuiltKept

LEMMA MovingKeeps ==
  ASSUME IInv, BuiltKept, NEW r \in Runs, MoveStack(r)
  PROVE  BuiltKept'
<1> DEFINE d0 == job[r].dir
           q == quarantine[d0]
<1>1. PICK x \in InTheWay : /\ quarantine' = [quarantine EXCEPT ![d0] = Moved(q, x)]
                            /\ stack' = [stack EXCEPT ![x] = <<>>]
                            /\ built' = built
  BY DEF MoveStack
<1>2. /\ d0 \in Dirs /\ x \in Secs
      /\ q \in [Secs -> Seq(Seq(Builds))] /\ stack \in [Secs -> Seq(Builds)]
  BY RebuildIsSome DEF IInv, TypeOK, DirKnown, StagesPassed, Stages, MoveStack, InTheWay
<1>3. /\ Moved(q, x)[x] = Append(q[x], stack[x])
      /\ \A s \in Secs : s # x => Moved(q, x)[s] = q[s]
  <2> HIDE DEF q
  <2> QED
    BY <1>2 DEF Moved
<1>4. /\ stack[x] \in Range(Moved(q, x)[x])
      /\ Range(q[x]) \subseteq Range(Moved(q, x)[x])
  <2> HIDE DEF q
  <2> QED
    BY <1>2, <1>3, AppendedRange
<1>5. ASSUME NEW d \in Dirs, NEW s \in Secs
      PROVE  Range(quarantine[d][s]) \subseteq Range(quarantine'[d][s])
  BY <1>1, <1>2, <1>3, <1>4 DEF IInv, TypeOK
<1>6. ASSUME NEW d \in Dirs, NEW s \in Secs, NEW m \in Range(quarantine'[d][s]), NEW it \in Range(m)
      PROVE  Kept(s, it)'
  <2>1. PICK i \in DOMAIN quarantine'[d][s] : quarantine'[d][s][i] = m
    BY <1>6 DEF Range
  <2> QED
    BY <1>6, <2>1 DEF Kept
<1>7. ASSUME NEW b \in built PROVE Kept(b.of, b.it)'
  <2>1. b.of \in Secs
    BY DEF BuiltKept
  <2>2. CASE b.it \in Range(stack[b.of]) /\ b.of = x
    <3>1. stack[b.of] \in Range(quarantine'[d0][b.of])
      BY <1>1, <1>2, <1>4, <2>2 DEF IInv, TypeOK
    <3> HIDE DEF d0
    <3> QED
      BY <1>2, <1>6, <2>1, <2>2, <3>1
  <2>3. CASE b.it \in Range(stack[b.of]) /\ b.of # x
    BY <1>1, <1>2, <2>1, <2>3 DEF Kept
  <2>4. CASE \E d \in Dirs : \E i \in DOMAIN quarantine[d][b.of] :
               b.it \in Range(quarantine[d][b.of][i])
    <3>1. PICK d \in Dirs : \E i \in DOMAIN quarantine[d][b.of] :
                              b.it \in Range(quarantine[d][b.of][i])
      BY <2>4
    <3>2. PICK m \in Range(quarantine[d][b.of]) : b.it \in Range(m)
      BY <3>1 DEF Range
    <3>3. m \in Range(quarantine'[d][b.of])
      BY <1>5, <2>1, <3>2
    <3> QED
      BY <1>6, <2>1, <3>2, <3>3
  <2> QED
    BY <2>2, <2>3, <2>4 DEF BuiltKept, Kept
<1> QED
  BY <1>1, <1>7 DEF BuiltKept

LEMMA BuiltStaysKept ==
  ASSUME IInv, [Next]_vars, BuiltKept
  PROVE  BuiltKept'
<1>1. CASE UNCHANGED stacks
  BY <1>1 DEF stacks, BuiltKept, Kept
<1>2. ASSUME NEW r \in Runs, Writes(r), UNCHANGED quarantine PROVE BuiltKept'
  BY <1>2, WritingKeeps DEF Writes, IInv
<1> QED
  BY <1>1, <1>2, StacksLeftAlone, MovingKeeps

\* "Never deletes": every StackBuilder run is in its place or in some run's quarantine, for
\* any number of runs that halt, are killed or are launched again on one run directory.
THEOREM StacksKeptHolds == Spec => []StacksKept
<1>1. Init => BuiltKept
  <2> SUFFICES ASSUME Init, NEW b \in built PROVE b.of \in Secs /\ Kept(b.of, b.it)
    BY DEF BuiltKept
  <2>1. PICK s \in Secs : b = [of |-> s, it |-> stack[s][1]]
    BY DEF Init
  <2>2. b.of = s /\ b.it = stack[s][1]
    BY <2>1
  <2>3. DOMAIN stack[s] = {1}
    BY DEF Init
  <2> QED
    BY <2>2, <2>3 DEF Kept, Range
<1>2. IInv /\ [Next]_vars /\ BuiltKept => BuiltKept'
  BY BuiltStaysKept
<1>3. BuiltKept => StacksKept
  BY DEF BuiltKept, StacksKept
<1> QED
  BY <1>1, <1>2, <1>3, Inductive, PTL DEF Spec
-----------------------------------------------------------------------------
(* What is published. *)

\* While its stacks are being rebuilt, what is found in their place is a Build-and-Rank
\* run's own, and so are the rows that it scores.
OwnWork ==
  \A r \in Runs :
    /\ pc[r] = "stackbuilder" => \A s \in Rebuild : stack[s] = <<>>
    /\ pc[r] = "stage4" => \A s \in Rebuild : HasCombo(s) /\ Selected(s).by = r
    /\ pc[r] \in {"publish", "promote"} /\ job[r].kind = "build" =>
         \A s \in Rebuild : job[r].fresh[s].by = r
    /\ pc[r] = "promote" /\ job[r].kind = "build" =>
         \A s \in Secs : job[r].merged[s].members \cap job[r].excl = {}

LEMMA LastAppended ==
  ASSUME NEW S, NEW q \in Seq(S), NEW e \in S
  PROVE  Append(q, e) # <<>> /\ Last(Append(q, e)) = e
<1>1. /\ Len(Append(q, e)) = Len(q) + 1 /\ Len(q) \in Nat
      /\ Append(q, e)[Len(q) + 1] = e
  OBVIOUS
<1>2. Append(q, e) # <<>>
  <2>1. Len(<<>>) = 0
    OBVIOUS
  <2> QED
    BY <1>1, <2>1
<1> QED
  BY <1>1, <1>2 DEF Last

LEMMA WrittenLast ==
  ASSUME TypeOK, NEW r \in Runs, NEW made \in Outputs(r), WriteStacks(r, made)
  PROVE  \A s \in DOMAIN made : /\ stack'[s] # <<>>
                                /\ Selected(s)' = [by |-> r, members |-> made[s]]
<1> SUFFICES ASSUME NEW s \in DOMAIN made
             PROVE  stack'[s] # <<>> /\ Selected(s)' = [by |-> r, members |-> made[s]]
  OBVIOUS
<1> DEFINE new == [by |-> r, members |-> made[s]]
<1>1. s \in Secs /\ new \in Builds /\ stack[s] \in Seq(Builds)
  BY StacksMade DEF TypeOK
<1>2. stack'[s] = Append(stack[s], new)
  BY <1>1 DEF WriteStacks
<1> HIDE DEF new
<1>3. stack'[s] # <<>> /\ Last(stack'[s]) = new
  BY <1>1, <1>2, LastAppended
<1> QED
  BY <1>3 DEF Selected, new

LEMMA ScoredRows ==
  ASSUME NEW secs \in SUBSET Secs, NEW fate \in Fated(secs), NEW s \in secs, s \in Rows(fate)
  PROVE  Scored(fate)[s] = Selected(s) /\ Selected(s) # NoBuild
<1>1. fate \in [secs -> Fates] /\ (fate[s] = "missing" <=> ~HasCombo(s))
  BY DEF Fated
<1>2. fate[s] # "missing"
  BY DEF Rows
<1> QED
  BY <1>1, <1>2 DEF Scored, HasCombo, NoBuild

\* A clean answer over stacks that are all there has a row for each of them.
LEMMA CleanMeansRows ==
  ASSUME NEW secs \in SUBSET Secs, NEW fate \in Fated(secs), NEW systemic \in BOOLEAN,
         \A s \in secs : HasCombo(s), Status(fate, TRUE, systemic) = "ok"
  PROVE  \A s \in secs : s \in Rows(fate)
<1>1. fate \in [secs -> Fates] /\ \A s \in secs : fate[s] # "missing"
  BY DEF Fated
<1>2. Excluded(fate) = {}
  BY DEF Status
<1> QED
  BY <1>1, <1>2 DEF Excluded, Rows, Fates

\* While a run is let through and holds the lock, the stacks change only by its own steps.
LEMMA StacksAreItsOwn ==
  ASSUME IInv, [Next]_vars, NEW p \in Runs, pc[p] \in Holding, job[p].passes, ~OwnStep(p)
  PROVE  UNCHANGED stack
<1>1. ASSUME NEW r \in Runs, MoveStack(r) \/ EndStackBuilder(r) PROVE FALSE
  <2>1. OwnStep(r)
    BY <1>1 DEF OwnStep
  <2>2. pc[r] \in Holding
    BY <2>1, StepsAreHolderSteps DEF HolderStep
  <2> QED
    BY <2>1, <2>2 DEF IInv, HolderHolds
<1>2. ASSUME NEW r \in Runs, Orphaned(r) PROVE FALSE
  BY <1>2 DEF IInv, OrphanBars
<1> QED
  BY <1>1, <1>2, StacksLeftAlone DEF stacks

\* From where a run comes to each of the steps that OwnWork speaks of.
LEMMA ComesFrom ==
  ASSUME TypeOK, [Next]_vars, NEW p \in Runs
  PROVE  /\ pc'[p] = "stackbuilder" => pc[p] = "stackbuilder" \/ StartStackBuilder(p)
         /\ pc'[p] = "stage4" => pc[p] = "stage4" \/ EndStackBuilder(p)
         /\ pc'[p] = "publish" => pc[p] = "publish" \/ Recook(p) \/ RerankRecook(p)
<1> USE DEF TypeOK, Goto, Halt
<1>1. ASSUME NEW r \in Runs, r # p, Steps(r) \/ Kill(r) \/ LaunchBuild(r) \/ LaunchRerank(r)
      PROVE  pc'[p] = pc[p]
  BY <1>1 DEF LaunchBuild, LaunchRerank, Launch, TakeLock, Release, Kill, Steps, Advance,
              Gates, StartOnePass, EndOnePass, MoveWorkbook, StartImpactSearch, EndImpactSearch,
              MoveStack, StartStackBuilder, EndStackBuilder, Recook, RerankRecook, Combine, Promote
<1>2. ASSUME NEW r \in Runs, Orphan(r) \/ Edit \/ UNCHANGED vars PROVE pc' = pc
  BY <1>2 DEF Orphan, Edit, vars
<1>3. CASE \/ LaunchBuild(p) \/ LaunchRerank(p) \/ TakeLock(p) \/ Release(p) \/ Kill(p)
           \/ Gates(p) \/ StartOnePass(p) \/ EndOnePass(p) \/ MoveWorkbook(p)
           \/ StartImpactSearch(p) \/ EndImpactSearch(p) \/ MoveStack(p)
           \/ Combine(p) \/ Promote(p)
  BY <1>3 DEF LaunchBuild, LaunchRerank, Launch, TakeLock, Release, Kill, Gates,
              StartOnePass, EndOnePass, MoveWorkbook, StartImpactSearch, EndImpactSearch,
              MoveStack, Combine, Promote
<1>4. CASE StartStackBuilder(p)
  BY <1>4 DEF StartStackBuilder
<1>5. CASE EndStackBuilder(p)
  BY <1>5 DEF EndStackBuilder
<1>6. CASE Recook(p) \/ RerankRecook(p)
  BY <1>6 DEF Recook, RerankRecook
<1> QED
  BY <1>1, <1>2, <1>3, <1>4, <1>5, <1>6 DEF Next, Steps, Advance

LEMMA OwnStepMoves ==
  ASSUME TypeOK, NEW p \in Runs, OwnStep(p), pc[p] \notin {"stage2", "stage3"}
  PROVE  pc'[p] # pc[p]
BY DEF TypeOK, OwnStep, Gates, StartOnePass, EndOnePass, MoveWorkbook, StartImpactSearch,
       EndImpactSearch, MoveStack, StartStackBuilder, EndStackBuilder, Recook, RerankRecook,
       Combine, Promote, Halt, Goto

\* A run that stays where it is, lock in hand and not at its moves, keeps its job and its
\* view of the board.
LEMMA StaysPut ==
  ASSUME IInv, [Next]_vars, NEW p \in Runs, pc[p] \in Holding \ {"stage2", "stage3"},
         pc'[p] = pc[p]
  PROVE  /\ job'[p] = job[p] /\ UNCHANGED board
         /\ job[p].passes => UNCHANGED stack
BY OwnStepMoves, OthersLeaveAlone, StacksAreItsOwn DEF IInv

LEMMA Recooked ==
  ASSUME IInv, OwnWork, NEW p \in Runs, Recook(p), pc'[p] = "publish"
  PROVE  \A s \in Rebuild : job'[p].fresh[s].by = p
<1>0. TypeOK
  BY DEF IInv
<1>1. PICK fate \in Fated(Rebuild), systemic \in BOOLEAN :
        /\ Status(fate, TRUE, systemic) = "ok" \/ Halt(p)
        /\ \/ Halt(p)
           \/ job' = [job EXCEPT ![p].fresh = Scored(fate),
                                 ![p].unscored = \E s \in Rebuild : fate[s] = "unscored"]
  BY DEF Recook
<1>2. ~Halt(p)
  BY <1>0 DEF Halt, Goto, TypeOK
<1>3. job'[p].fresh = Scored(fate)
  BY <1>0, <1>1, <1>2 DEF Jobs, TypeOK
<1>4. \A s \in Rebuild : HasCombo(s) /\ Selected(s).by = p
  BY DEF OwnWork, Recook
<1>5. \A s \in Rebuild : s \in Rows(fate)
  BY <1>1, <1>2, <1>4, CleanMeansRows, RebuildIsSome
<1>6. ASSUME NEW s \in Rebuild PROVE Scored(fate)[s] = Selected(s)
  BY <1>5, ScoredRows, RebuildIsSome
<1> QED
  BY <1>3, <1>4, <1>6

LEMMA Combined ==
  ASSUME IInv, NEW p \in Runs, Combine(p), pc'[p] = "promote"
  PROVE  /\ job'[p].fresh = job[p].fresh /\ job'[p].kind = job[p].kind
         /\ job'[p].listed = job[p].listed /\ job'[p].excl = job[p].excl
         /\ UNCHANGED board
         /\ \A s \in Secs : job'[p].merged[s].members \cap job'[p].excl = {}
         /\ Joined(p)
<1> USE DEF IInv, TypeOK
<1> DEFINE merged == Merge(board, job[p].fresh)
<1>1. ~Halt(p)
  BY DEF Halt, Goto
<1>2. /\ job' = [job EXCEPT ![p] = [job[p] EXCEPT !.merged = merged]]
      /\ \A s \in Secs : merged[s].members \cap job[p].excl = {}
      /\ Joined(p) /\ UNCHANGED board
  BY <1>1 DEF Combine, artifacts
<1> HIDE DEF merged
<1>3. /\ [job[p] EXCEPT !.merged = merged].merged = merged
      /\ [job[p] EXCEPT !.merged = merged].fresh = job[p].fresh
      /\ [job[p] EXCEPT !.merged = merged].kind = job[p].kind
      /\ [job[p] EXCEPT !.merged = merged].listed = job[p].listed
      /\ [job[p] EXCEPT !.merged = merged].excl = job[p].excl
  BY DEF Jobs
<1> QED
  BY <1>2, <1>3

LEMMA KindKept ==
  ASSUME TypeOK, NEW p \in Runs, Recook(p) \/ RerankRecook(p)
  PROVE  job'[p].kind = job[p].kind
<1>1. PICK new \in Jobs : job' = [job EXCEPT ![p] = new] /\ new.kind = job[p].kind
  BY JobGoesOn
<1> QED
  BY <1>1 DEF TypeOK

LEMMA WorkKept ==
  ASSUME IInv, History, [Next]_vars, OwnWork, NothingDroppedSilently
  PROVE  OwnWork' /\ NothingDroppedSilently'
<1> USE DEF IInv, TypeOK
<1>1. /\ {"stackbuilder", "stage4", "publish", "promote"} \subseteq
                Holding \ {"stage2", "stage3"}
      /\ {"stackbuilder", "stage4"} \subseteq Stages
  BY DEF Holding, Working, Stages, EngineSteps
<1>2. ASSUME NEW p \in Runs, pc'[p] = "stackbuilder" PROVE \A s \in Rebuild : stack'[s] = <<>>
  <2>1. CASE pc[p] = "stackbuilder"
    <3>1. UNCHANGED stack
      BY <1>1, <1>2, <2>1, StaysPut DEF StagesPassed
    <3> QED
      BY <2>1, <3>1 DEF OwnWork
  <2>2. CASE StartStackBuilder(p)
    BY <1>2, <2>2, RebuildIsSome DEF StartStackBuilder, InTheWay, stacks, Halt, Goto
  <2> QED
    BY <1>2, <2>1, <2>2, ComesFrom
<1>3. ASSUME NEW p \in Runs, pc'[p] = "stage4"
      PROVE  \A s \in Rebuild : HasCombo(s)' /\ Selected(s)'.by = p
  <2>1. CASE pc[p] = "stage4"
    <3>1. UNCHANGED stack
      BY <1>1, <1>3, <2>1, StaysPut DEF StagesPassed
    <3> QED
      BY <2>1, <3>1 DEF OwnWork, HasCombo, Selected
  <2>2. CASE EndStackBuilder(p)
    <3>1. ~Halt(p)
      BY <1>3, <2>2 DEF Halt, Goto
    <3>2. PICK made \in Outputs(p) : /\ WriteStacks(p, made)
                                     /\ DOMAIN made = Rebuild /\ \A s \in Rebuild : made[s] # {}
      BY <2>2, <3>1 DEF EndStackBuilder
    <3>3. \A s \in Rebuild : /\ stack'[s] # <<>>
                             /\ Selected(s)' = [by |-> p, members |-> made[s]]
      BY <3>2, WrittenLast
    <3> QED
      BY <3>2, <3>3 DEF HasCombo
  <2> QED
    BY <1>3, <2>1, <2>2, ComesFrom
<1>4. ASSUME NEW p \in Runs, pc'[p] = "publish", job'[p].kind = "build"
      PROVE  \A s \in Rebuild : job'[p].fresh[s].by = p
  <2>1. CASE pc[p] = "publish"
    <3>1. job'[p] = job[p]
      BY <1>1, <1>4, <2>1, StaysPut
    <3> QED
      BY <1>4, <2>1, <3>1 DEF OwnWork
  <2>2. CASE Recook(p)
    BY <1>4, <2>2, Recooked
  <2>3. CASE RerankRecook(p)
    BY <1>4, <2>3, KindKept DEF RerankRecook
  <2> QED
    BY <1>4, <2>1, <2>2, <2>3, ComesFrom
<1>5. ASSUME NEW p \in Runs, pc'[p] = "promote"
      PROVE  /\ job'[p].kind = "build" =>
                  /\ \A s \in Rebuild : job'[p].fresh[s].by = p
                  /\ \A s \in Secs : job'[p].merged[s].members \cap job'[p].excl = {}
             /\ job'[p].kind = "rerank" =>
                  \A s \in Secs : board'[s] # NoBuild =>
                    job'[p].fresh[s] # NoBuild \/ s \in job'[p].listed
  <2>1. CASE pc[p] = "promote"
    <3>1. job'[p] = job[p] /\ UNCHANGED board
      BY <1>1, <1>5, <2>1, StaysPut
    <3> QED
      BY <2>1, <3>1 DEF OwnWork, NothingDroppedSilently
  <2>2. CASE Combine(p)
    <3>1. pc[p] = "publish"
      BY <2>2 DEF Combine
    <3>2. /\ job'[p].fresh = job[p].fresh /\ job'[p].kind = job[p].kind
          /\ job'[p].listed = job[p].listed /\ board' = board
          /\ \A s \in Secs : job'[p].merged[s].members \cap job'[p].excl = {}
          /\ Joined(p)
      BY <1>5, <2>2, Combined
    <3>3. job[p].kind = "build" => \A s \in Rebuild : job[p].fresh[s].by = p
      BY <3>1 DEF OwnWork
    <3>4. job[p].kind = "rerank" =>
            \A s \in Secs : board[s] # NoBuild => job[p].fresh[s] # NoBuild \/ s \in job[p].listed
      BY <3>2 DEF Joined, Fresh, Survivors
    <3> QED
      BY <3>2, <3>3, <3>4
  <2> QED
    BY <1>5, <2>1, <2>2, PromoteAfterCombine
<1>6. OwnWork'
  BY <1>2, <1>3, <1>4, <1>5 DEF OwnWork
<1>7. NothingDroppedSilently'
  BY <1>5 DEF NothingDroppedSilently
<1> QED
  BY <1>6, <1>7

LEMMA WorkInductive == Spec => [](OwnWork /\ NothingDroppedSilently)
<1>1. Init => OwnWork /\ NothingDroppedSilently
  <2> SUFFICES ASSUME Init PROVE OwnWork /\ NothingDroppedSilently
    OBVIOUS
  <2>1. \A r \in Runs : pc[r] = "idle"
    BY DEF Init
  <2> QED
    BY <2>1 DEF OwnWork, NothingDroppedSilently
<1>2. /\ IInv /\ History /\ [Next]_vars /\ OwnWork /\ NothingDroppedSilently
      => (OwnWork /\ NothingDroppedSilently)'
  BY WorkKept
<1> QED
  BY <1>1, <1>2, Inductive, HistoryInductive, PTL DEF Spec

\* What a Build-and-Rank run publishes for the secondaries it was to rebuild are its own
\* stacks, and its board has no ticker that was blocked when it started, for any number of
\* killed runs whose engines go on.
THEOREM OwnStacksHolds == Spec => []OwnStacks
<1>1. IInv /\ History /\ OwnWork => OwnStacks
  <2> SUFFICES ASSUME IInv, History, OwnWork, NEW r \in Runs,
                      pc[r] = "promote", job[r].kind = "build"
               PROVE  /\ \A s \in Rebuild : job[r].merged[s].by = r
                      /\ \A s \in Secs : job[r].merged[s].members \cap job[r].excl = {}
    BY DEF OwnStacks
  <2>1. \A s \in Rebuild : job[r].fresh[s].by = r
    BY DEF OwnWork
  <2>2. r # None /\ NoBuild.by = None
    BY RunsAreNumbered DEF NoBuild, None
  <2>3. job[r].merged = Merge(board, job[r].fresh)
    BY DEF History, MergedIsCurrent
  <2>4. ASSUME NEW s \in Rebuild PROVE job[r].merged[s].by = r
    <3>1. s \in Secs /\ job[r].fresh[s] # NoBuild
      BY <2>1, <2>2, RebuildIsSome
    <3> QED
      BY <2>1, <2>3, <3>1 DEF Merge
  <2> QED
    BY <2>4 DEF OwnWork
<1> QED
  BY <1>1, Inductive, HistoryInductive, WorkInductive, PTL

\* Re-Rank publishes only if each secondary of the board, of any number, has a fresh row
\* or is listed as quarantined.
THEOREM NothingDroppedHolds == Spec => []NothingDroppedSilently
BY WorkInductive, PTL
-----------------------------------------------------------------------------
(* What the board shows can be looked up. *)

\* A row, if there is one, is of a StackBuilder run that there was.
Known(s, b) == b # NoBuild => [of |-> s, it |-> b] \in built
StacksBuilt == \A s \in Secs : \A i \in DOMAIN stack[s] : [of |-> s, it |-> stack[s][i]] \in built
RowsBuilt == \A s \in Secs : Known(s, board[s])
JobsBuilt == \A r \in Runs, s \in Secs : Known(s, job[r].fresh[s]) /\ Known(s, job[r].merged[s])

LEMMA BuiltGrows ==
  ASSUME IInv, [Next]_vars, StacksBuilt
  PROVE  built \subseteq built' /\ StacksBuilt'
<1>1. CASE UNCHANGED stacks
  BY <1>1 DEF stacks, StacksBuilt
<1>2. ASSUME NEW r \in Runs, Writes(r) PROVE built \subseteq built' /\ StacksBuilt'
  <2>1. PICK made \in Outputs(r) : WriteStacks(r, made)
    BY <1>2 DEF Writes
  <2> DEFINE new == [s \in DOMAIN made |-> [by |-> r, members |-> made[s]]]
  <2>2. /\ stack' = [s \in Secs |-> IF s \in DOMAIN made THEN Append(stack[s], new[s])
                                    ELSE stack[s]]
        /\ built' = built \cup {[of |-> s, it |-> new[s]] : s \in DOMAIN made}
    BY <2>1 DEF WriteStacks
  <2>3. \A s \in DOMAIN made : s \in Secs /\ new[s] \in Builds
    BY StacksMade DEF IInv
  <2> HIDE DEF new
  <2>4. ASSUME NEW s \in Secs, NEW i \in DOMAIN stack'[s]
        PROVE  [of |-> s, it |-> stack'[s][i]] \in built'
    <3>1. CASE s \in DOMAIN made
      <4>1. stack[s] \in Seq(Builds) /\ stack'[s] = Append(stack[s], new[s])
        BY <2>2, <3>1 DEF IInv, TypeOK
      <4>2. /\ Len(stack[s]) \in Nat /\ DOMAIN stack[s] = 1 .. Len(stack[s])
            /\ DOMAIN stack'[s] = 1 .. Len(stack[s]) + 1
            /\ stack'[s][Len(stack[s]) + 1] = new[s]
            /\ \A k \in 1 .. Len(stack[s]) : stack'[s][k] = stack[s][k]
        BY <2>3, <3>1, <4>1
      <4>3. stack'[s][i] = new[s] \/ (i \in DOMAIN stack[s] /\ stack'[s][i] = stack[s][i])
        BY <2>4, <4>2
      <4> QED
        BY <2>2, <3>1, <4>3 DEF StacksBuilt
    <3>2. CASE s \notin DOMAIN made
      BY <2>2, <2>4, <3>2 DEF StacksBuilt
    <3> QED
      BY <3>1, <3>2
  <2> QED
    BY <2>2, <2>4 DEF StacksBuilt
<1>3. ASSUME NEW r \in Runs, MoveStack(r) PROVE built \subseteq built' /\ StacksBuilt'
  <2>1. PICK x \in InTheWay : stack' = [stack EXCEPT ![x] = <<>>] /\ built' = built
    BY <1>3 DEF MoveStack
  <2>2. DOMAIN <<>> = {}
    OBVIOUS
  <2> QED
    BY <2>1, <2>2 DEF StacksBuilt, IInv, TypeOK
<1> QED
  BY <1>1, <1>2, <1>3, StacksLeftAlone

LEMMA ScoredFrom ==
  ASSUME NEW secs \in SUBSET Secs, NEW fate \in Fated(secs), NEW s \in Secs
  PROVE  Scored(fate)[s] = NoBuild \/ (stack[s] # <<>> /\ Scored(fate)[s] = Selected(s))
<1>1. fate \in [secs -> Fates] /\ \A x \in secs : fate[x] # "missing" => stack[x] # <<>>
  BY DEF Fated, HasCombo
<1> QED
  BY <1>1 DEF Scored, Rows

\* From where the rows of a run come, and those of the board.
LEMMA FreshFrom ==
  ASSUME IInv, NEW p \in Runs, Recook(p) \/ RerankRecook(p), NEW s \in Secs
  PROVE  /\ \/ job'[p].fresh[s] \in {job[p].fresh[s], NoBuild}
            \/ stack[s] # <<>> /\ job'[p].fresh[s] = Selected(s)
         /\ job'[p].merged = job[p].merged
         /\ \A q \in Runs : q # p => job'[q] = job[q]
<1> USE DEF IInv, TypeOK
<1>1. CASE UNCHANGED job
  BY <1>1
<1>2. ASSUME NEW secs \in SUBSET Secs, NEW fate \in Fated(secs), NEW new \in Jobs,
             new.fresh = Scored(fate), new.merged = job[p].merged,
             job' = [job EXCEPT ![p] = new]
      PROVE  /\ \/ job'[p].fresh[s] \in {job[p].fresh[s], NoBuild}
                \/ stack[s] # <<>> /\ job'[p].fresh[s] = Selected(s)
             /\ job'[p].merged = job[p].merged
             /\ \A q \in Runs : q # p => job'[q] = job[q]
  BY <1>2, ScoredFrom
<1>3. CASE Recook(p) /\ ~UNCHANGED job
  <2>1. PICK fate \in Fated(Rebuild) :
          job' = [job EXCEPT ![p].fresh = Scored(fate),
                             ![p].unscored = \E x \in Rebuild : fate[x] = "unscored"]
    BY <1>3 DEF Recook
  <2> DEFINE u == \E x \in Rebuild : fate[x] = "unscored"
             new == [job[p] EXCEPT !.fresh = Scored(fate), !.unscored = u]
  <2>2. Scored(fate) \in [Secs -> Builds] /\ u \in BOOLEAN
    BY ScoredTyped, RebuildIsSome
  <2>3. new \in Jobs /\ new.fresh = Scored(fate) /\ new.merged = job[p].merged
    <3> HIDE DEF u
    <3>1. [job[p] EXCEPT !.fresh = Scored(fate), !.unscored = u] \in Jobs
      BY <2>2, JobsUpdated
    <3>2. /\ [job[p] EXCEPT !.fresh = Scored(fate), !.unscored = u].fresh = Scored(fate)
          /\ [job[p] EXCEPT !.fresh = Scored(fate), !.unscored = u].merged = job[p].merged
      BY DEF Jobs
    <3> QED
      BY <3>1, <3>2
  <2>4. job' = [job EXCEPT ![p] = new]
    BY <2>1
  <2> HIDE DEF new
  <2> QED
    BY <1>2, <2>3, <2>4, RebuildIsSome
<1>4. CASE RerankRecook(p) /\ ~UNCHANGED job
  <2> DEFINE asked == {x \in Secs : board[x] # NoBuild}
  <2>1. PICK fate \in Fated(asked) :
          job' = [job EXCEPT ![p].fresh = Scored(fate), ![p].listed = Excluded(fate),
                             ![p].unscored = \E x \in asked : fate[x] = "unscored"]
    BY <1>4 DEF RerankRecook
  <2> DEFINE u == \E x \in asked : fate[x] = "unscored"
             new == [job[p] EXCEPT !.fresh = Scored(fate), !.listed = Excluded(fate),
                             !.unscored = u]
  <2>2. asked \in SUBSET Secs /\ u \in BOOLEAN
    OBVIOUS
  <2> HIDE DEF asked
  <2>3. Scored(fate) \in [Secs -> Builds] /\ Excluded(fate) \in SUBSET Secs
    BY <2>2, ScoredTyped
  <2>4. new \in Jobs /\ new.fresh = Scored(fate) /\ new.merged = job[p].merged
    <3> HIDE DEF u
    <3>1. [job[p] EXCEPT !.fresh = Scored(fate), !.listed = Excluded(fate), !.unscored = u]
            \in Jobs
      BY <2>2, <2>3, JobsUpdated
    <3>2. /\ [job[p] EXCEPT !.fresh = Scored(fate), !.listed = Excluded(fate),
                            !.unscored = u].fresh = Scored(fate)
          /\ [job[p] EXCEPT !.fresh = Scored(fate), !.listed = Excluded(fate),
                            !.unscored = u].merged = job[p].merged
      BY DEF Jobs
    <3> QED
      BY <3>1, <3>2
  <2>5. job' = [job EXCEPT ![p] = new]
    BY <2>1
  <2> HIDE DEF new
  <2> QED
    BY <1>2, <2>2, <2>4, <2>5
<1> QED
  BY <1>1, <1>3, <1>4

LEMMA MergedFrom ==
  ASSUME IInv, NEW p \in Runs, Combine(p), NEW s \in Secs
  PROVE  /\ job'[p].fresh = job[p].fresh
         /\ job'[p].merged[s] \in {job[p].merged[s], board[s], job[p].fresh[s]}
         /\ \A q \in Runs : q # p => job'[q] = job[q]
<1> USE DEF IInv, TypeOK
<1>1. CASE UNCHANGED job
  BY <1>1
<1>2. CASE ~UNCHANGED job
  <2> DEFINE merged == Merge(board, job[p].fresh)
  <2>1. job' = [job EXCEPT ![p] = [job[p] EXCEPT !.merged = merged]]
    BY <1>2 DEF Combine
  <2>2. /\ [job[p] EXCEPT !.merged = merged].merged = merged
        /\ [job[p] EXCEPT !.merged = merged].fresh = job[p].fresh
    BY DEF Jobs
  <2>3. merged[s] \in {board[s], job[p].fresh[s]}
    BY DEF Merge
  <2> HIDE DEF merged
  <2> QED
    BY <2>1, <2>2, <2>3
<1> QED
  BY <1>1, <1>2

LEMMA BlankJob ==
  ASSUME IInv, NEW p \in Runs, NEW s \in Secs,
         \E r \in Runs : \/ LaunchBuild(r) \/ LaunchRerank(r) \/ TakeLock(r)
                         \/ Release(r) \/ Kill(r)
  PROVE  /\ job'[p].fresh[s] \in {job[p].fresh[s], NoBuild}
         /\ job'[p].merged[s] \in {job[p].merged[s], NoBuild}
<1> USE DEF IInv, TypeOK
<1>1. PICK r \in Runs : LaunchBuild(r) \/ LaunchRerank(r) \/ TakeLock(r) \/ Release(r) \/ Kill(r)
  OBVIOUS
<1>2. ASSUME NEW new, new.fresh = Rows0, new.merged = Rows0, job' = [job EXCEPT ![r] = new]
      PROVE  /\ job'[p].fresh[s] \in {job[p].fresh[s], NoBuild}
             /\ job'[p].merged[s] \in {job[p].merged[s], NoBuild}
  BY <1>2 DEF Rows0
<1>3. NoJob.fresh = Rows0 /\ NoJob.merged = Rows0
  BY DEF NoJob
<1>4. CASE LaunchBuild(r)
  <2>1. PICK d \in Dirs, from \in Dirs \cup {None}, reclaim \in BOOLEAN :
          \/ job' = [job EXCEPT ![r] = [NoJob EXCEPT !.kind = "build", !.dir = d,
                       !.reuse = from, !.reclaim = reclaim, !.excl = blocked, !.passes = TRUE]]
          \/ job' = [job EXCEPT ![r] = [NoJob EXCEPT !.kind = "build", !.reclaim = reclaim]]
    BY <1>4 DEF LaunchBuild, Preflight
  <2> DEFINE go == [NoJob EXCEPT !.kind = "build", !.dir = d, !.reuse = from,
                                 !.reclaim = reclaim, !.excl = blocked, !.passes = TRUE]
             stay == [NoJob EXCEPT !.kind = "build", !.reclaim = reclaim]
  <2>2. /\ go.fresh = Rows0 /\ go.merged = Rows0
        /\ stay.fresh = Rows0 /\ stay.merged = Rows0
    BY DEF NoJob
  <2>3. job' = [job EXCEPT ![r] = go] \/ job' = [job EXCEPT ![r] = stay]
    BY <2>1
  <2> HIDE DEF go, stay
  <2> QED
    BY <1>2, <2>2, <2>3
<1>5. CASE LaunchRerank(r)
  <2> DEFINE new == [NoJob EXCEPT !.kind = "rerank"]
  <2>1. new.fresh = Rows0 /\ new.merged = Rows0
    BY DEF NoJob
  <2>2. job' = [job EXCEPT ![r] = new]
    BY <1>5 DEF LaunchRerank
  <2> HIDE DEF new
  <2> QED
    BY <1>2, <2>1, <2>2
<1>6. CASE TakeLock(r) \/ Release(r) \/ Kill(r)
  <2>1. UNCHANGED job \/ job' = [job EXCEPT ![r] = NoJob]
    BY <1>6 DEF TakeLock, Release, Kill
  <2> QED
    BY <1>2, <1>3, <2>1
<1> QED
  BY <1>1, <1>4, <1>5, <1>6

\* Nothing on the board, or on its way there, is made up.
LEMMA RowsStayKnown ==
  ASSUME IInv, [Next]_vars, StacksBuilt, RowsBuilt, JobsBuilt
  PROVE  StacksBuilt' /\ RowsBuilt' /\ JobsBuilt'
<1> USE DEF IInv, TypeOK
<1>1. built \subseteq built' /\ StacksBuilt'
  BY BuiltGrows
<1>2. \A s, b : Known(s, b) => (b # NoBuild => [of |-> s, it |-> b] \in built')
  BY <1>1 DEF Known
<1>3. ASSUME NEW s \in Secs, stack[s] # <<>> PROVE Known(s, Selected(s))
  <2>1. stack[s] \in Seq(Builds)
    OBVIOUS
  <2>2. Len(stack[s]) \in DOMAIN stack[s]
    BY <1>3, <2>1
  <2> QED
    BY <2>2 DEF StacksBuilt, Known, Selected, Last
<1>4. RowsBuilt'
  <2> SUFFICES ASSUME NEW s \in Secs PROVE Known(s, board[s])'
    BY DEF RowsBuilt
  <2>1. CASE \E r \in Runs : board' = job[r].merged
    BY <1>2, <2>1 DEF JobsBuilt, Known
  <2>2. CASE UNCHANGED board
    BY <1>2, <2>2 DEF RowsBuilt, Known
  <2>3. ASSUME NEW r \in Runs, Promote(r) PROVE board' = job[r].merged \/ UNCHANGED board
    BY <2>3 DEF Promote
  <2> QED
    BY <2>1, <2>2, <2>3, OnlyPromoteWrites
<1>5. JobsBuilt'
  <2> SUFFICES ASSUME NEW p \in Runs, NEW s \in Secs
               PROVE  Known(s, job[p].fresh[s])' /\ Known(s, job[p].merged[s])'
    BY DEF JobsBuilt
  <2>1. Known(s, job[p].fresh[s]) /\ Known(s, job[p].merged[s]) /\ Known(s, board[s])
    BY DEF JobsBuilt, RowsBuilt
  <2>2. ASSUME \/ job'[p].fresh[s] \in {job[p].fresh[s], NoBuild}
               \/ stack[s] # <<>> /\ job'[p].fresh[s] = Selected(s),
               job'[p].merged[s] \in {job[p].merged[s], NoBuild, board[s], job[p].fresh[s]}
        PROVE  Known(s, job[p].fresh[s])' /\ Known(s, job[p].merged[s])'
    BY <1>2, <1>3, <2>1, <2>2 DEF Known
  <2>3. ASSUME NEW r \in Runs, Recook(r) \/ RerankRecook(r) \/ Combine(r)
        PROVE  Known(s, job[p].fresh[s])' /\ Known(s, job[p].merged[s])'
    <3>1. CASE r = p
      BY <2>2, <2>3, <3>1, FreshFrom, MergedFrom
    <3>2. CASE r # p
      <4>1. job'[p] = job[p]
        BY <2>3, <3>2, FreshFrom, MergedFrom
      <4> QED
        BY <2>2, <4>1
    <3> QED
      BY <3>1, <3>2
  <2>4. ASSUME NEW r \in Runs,
               \/ LaunchBuild(r) \/ LaunchRerank(r) \/ TakeLock(r) \/ Release(r) \/ Kill(r)
        PROVE  Known(s, job[p].fresh[s])' /\ Known(s, job[p].merged[s])'
    BY <2>2, <2>4, BlankJob
  <2>5. ASSUME NEW r \in Runs,
               \/ Gates(r) \/ StartOnePass(r) \/ EndOnePass(r)
               \/ MoveWorkbook(r) \/ StartImpactSearch(r) \/ EndImpactSearch(r)
               \/ MoveStack(r) \/ StartStackBuilder(r) \/ EndStackBuilder(r)
               \/ Promote(r) \/ Orphan(r) \/ Edit \/ UNCHANGED vars
        PROVE  UNCHANGED job
    BY <2>5 DEF Gates, StartOnePass, EndOnePass, MoveWorkbook, StartImpactSearch, EndImpactSearch,
                MoveStack, StartStackBuilder, EndStackBuilder, Promote, Orphan, Edit, vars
  <2>6. UNCHANGED job => Known(s, job[p].fresh[s])' /\ Known(s, job[p].merged[s])'
    BY <2>2
  <2> QED
    BY <2>3, <2>4, <2>5, <2>6 DEF Next, Steps, Advance
<1> QED
  BY <1>1, <1>4, <1>5

\* Every row on the board can be looked up: its StackBuilder run is in its place or in a
\* quarantine, for any number of runs that move the stacks away, halt or are killed.
THEOREM PublishedIsKeptHolds == Spec => []PublishedIsKept
<1>1. Init => StacksBuilt /\ RowsBuilt /\ JobsBuilt
  <2> SUFFICES ASSUME Init PROVE StacksBuilt /\ RowsBuilt /\ JobsBuilt
    OBVIOUS
  <2>1. \A s \in Secs : DOMAIN stack[s] = {1} /\ [of |-> s, it |-> stack[s][1]] \in built
                        /\ board[s] = stack[s][1]
    BY DEF Init
  <2>2. \A r \in Runs, s \in Secs : job[r].fresh[s] = NoBuild /\ job[r].merged[s] = NoBuild
    BY DEF Init, NoJob, Rows0
  <2> QED
    BY <2>1, <2>2 DEF StacksBuilt, RowsBuilt, JobsBuilt, Known
<1>2. /\ IInv /\ [Next]_vars /\ StacksBuilt /\ RowsBuilt /\ JobsBuilt
      => (StacksBuilt /\ RowsBuilt /\ JobsBuilt)'
  BY RowsStayKnown
<1>3. StacksKept /\ RowsBuilt => PublishedIsKept
  <2> SUFFICES ASSUME StacksKept, RowsBuilt, NEW s \in Secs, board[s] # NoBuild
               PROVE  Kept(s, board[s])
    BY DEF PublishedIsKept
  <2> DEFINE b == [of |-> s, it |-> board[s]]
  <2>1. b \in built /\ b.of = s /\ b.it = board[s]
    BY DEF RowsBuilt, Known
  <2> QED
    BY <2>1 DEF StacksKept
<1> QED
  BY <1>1, <1>2, <1>3, Inductive, StacksKeptHolds, PTL DEF Spec
=============================================================================
