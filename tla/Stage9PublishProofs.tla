------------------------- MODULE Stage9PublishProofs ------------------------
(***************************************************************************)
(* The safety of the publish transaction for every set of launches and run *)
(* directories: what the runs of MCStage9Publish check for three launches. *)
(***************************************************************************)
EXTENDS Stage9Publish, TLAPS

Outcomes == Working \cup Ended \cup {"idle"}

\* The types, and that both histories have a last commit.
Typed == TypeOK /\ local # <<>> /\ origin # <<>>

LEMMA StampsAreLaunches ==
  ASSUME NEW l \in Launches PROVE l \in Stamps /\ l # Initial /\ l # Other /\ l # Nobody
BY AuthorsDiffer DEF Stamps

LEMMA WholeTrees ==
  ASSUME NEW stamp \in Stamps PROVE AllOf(stamp) \in Trees
BY DEF AllOf, Trees

LEMMA LastCommit ==
  ASSUME NEW h \in Seq(Commits), h # <<>>
  PROVE  /\ Len(h) \in Nat \ {0}
         /\ Last(h) = h[Len(h)]
         /\ Last(h) \in Commits
         /\ Last(h).files \in Trees
<1>1. Len(h) \in Nat \ {0}
  OBVIOUS
<1>2. h[Len(h)] \in Commits
  BY <1>1
<1> QED
  BY <1>1, <1>2 DEF Last, Commits

LEMMA Appended ==
  ASSUME NEW h \in Seq(Commits), NEW c \in Commits
  PROVE  /\ Append(h, c) \in Seq(Commits)
         /\ Append(h, c) # <<>>
         /\ Len(Append(h, c)) = Len(h) + 1
         /\ \A i \in 1 .. Len(h) : Append(h, c)[i] = h[i]
         /\ Append(h, c)[Len(h) + 1] = c
OBVIOUS

LEMMA PrefixLength ==
  ASSUME NEW g \in Seq(Commits), NEW h \in Seq(Commits), IsPrefix(g, h)
  PROVE  /\ Len(g) <= Len(h)
         /\ \A i \in 1 .. Len(g) : g[i] = h[i]
<1>1. Len(g) <= Len(h) /\ SubSeq(g, 1, Len(g)) = SubSeq(h, 1, Len(g))
  BY DEF IsPrefix
<1>2. ASSUME NEW i \in 1 .. Len(g) PROVE g[i] = h[i]
  <2>1. SubSeq(g, 1, Len(g))[i] = g[i]
    BY <1>1
  <2>2. SubSeq(h, 1, Len(g))[i] = h[i]
    BY <1>1
  <2> QED
    BY <1>1, <2>1, <2>2
<1> QED
  BY <1>1, <1>2

LEMMA StepTyped ==
  ASSUME pc \in [Launches -> Outcomes], NEW l \in Launches,
         NEW step \in Outcomes, Goto(l, step)
  PROVE  pc' \in [Launches -> Outcomes]
BY DEF Goto

LEMMA EndTyped ==
  ASSUME pc \in [Launches -> Outcomes], lock \in [Runs -> Launches \cup {Nobody}],
         NEW l \in Launches, NEW outcome \in Outcomes, End(l, outcome)
  PROVE  /\ pc' \in [Launches -> Outcomes]
         /\ lock' \in [Runs -> Launches \cup {Nobody}]
<1>1. Goto(l, outcome)
  BY DEF End
<1>2. lock' \in [Runs -> Launches \cup {Nobody}]
  BY DEF End
<1> QED
  BY <1>1, <1>2, StepTyped

LEMMA RecordTyped ==
  ASSUME state \in [Runs -> [done : SUBSET Recorded, commit : Seq(Commits)]],
         NEW l \in Launches, NEW done \in Recorded, NEW commit \in Seq(Commits),
         Record(l, done, commit)
  PROVE  state' \in [Runs -> [done : SUBSET Recorded, commit : Seq(Commits)]]
<1>1. RunOf[l] \in Runs
  BY RunOfEveryLaunch
<1>2. [done |-> state[RunOf[l]].done \cup {done}, commit |-> commit]
        \in [done : SUBSET Recorded, commit : Seq(Commits)]
  BY <1>1
<1> QED
  BY <1>1, <1>2 DEF Record

-----------------------------------------------------------------------------
LEMMA InitTyped == Init => Typed
<1> SUFFICES ASSUME Init PROVE Typed
  OBVIOUS
<1>1. Genesis \in Seq(Commits) /\ Genesis # <<>> /\ Len(Genesis) = 1
  <2>1. [author |-> Initial, files |-> AllOf(Initial), extra |-> FALSE] \in Commits
    BY WholeTrees DEF Commits, Stamps
  <2> QED
    BY <2>1 DEF Genesis
<1>2. AllOf(Initial) \in Trees
  BY WholeTrees DEF Stamps
<1>3. state \in [Runs -> [done : SUBSET Recorded, commit : Seq(Commits)]]
  BY DEF Init, NoState
<1> QED
  BY <1>1, <1>2, <1>3, BoundsAreNumbers
     DEF Init, Typed, TypeOK, Stamps

\* What no step of a launch changes while it only moves on.
Still == UNCHANGED <<repo, runDirs, outside>>

LEMMA StillTyped ==
  ASSUME Typed, Still,
         pc' \in [Launches -> Outcomes],
         base' \in [Launches -> Stamps],
         lock' \in [Runs -> Launches \cup {Nobody}]
  PROVE  Typed'
BY DEF Typed, TypeOK, Still, repo, runDirs, outside, Outcomes

\* Steps that read the repository and move on, or take the lock.
Reading(l) == \/ Start(l) \/ EarlyPreflight(l) \/ ResumeDetect(l) \/ Preflight(l)
              \/ AcquireLock(l) \/ PromoteDryRun(l) \/ VerifyWritten(l)
              \/ EnforceAllowlist(l) \/ Poll(l) \/ Refuse(l) \/ Crash(l)

LEMMA ReadingTyped ==
  ASSUME Typed, NEW l \in Launches, Reading(l)
  PROVE  Typed'
<1>1. Still /\ base' = base
  BY DEF Reading, Start, EarlyPreflight, ResumeDetect, Preflight, AcquireLock,
         PromoteDryRun, VerifyWritten, EnforceAllowlist, Poll, Refuse, Crash, Still
<1>2. /\ pc \in [Launches -> Outcomes]
      /\ lock \in [Runs -> Launches \cup {Nobody}]
      /\ base \in [Launches -> Stamps]
  BY DEF Typed, TypeOK, Outcomes
<1>3. \/ \E step \in Outcomes : Goto(l, step) /\ UNCHANGED lock
      \/ \E outcome \in Outcomes : End(l, outcome)
      \/ \E step \in Outcomes : Goto(l, step) /\ lock' = [lock EXCEPT ![RunOf[l]] = l]
  BY DEF Reading, Start, EarlyPreflight, ResumeDetect, Preflight, AcquireLock,
         PromoteDryRun, VerifyWritten, EnforceAllowlist, Poll, Refuse, Crash,
         Outcomes, Working, Ended
<1>4. pc' \in [Launches -> Outcomes] /\ lock' \in [Runs -> Launches \cup {Nobody}]
  BY <1>2, <1>3, StepTyped, EndTyped
<1> QED
  BY <1>1, <1>2, <1>4, StillTyped

LEMMA WriteTyped ==
  ASSUME Typed, NEW l \in Launches, NEW step, NEW file \in Files,
         NEW next \in Working, Write(l, step, file, next)
  PROVE  Typed'
<1>1. pc' \in [Launches -> Outcomes]
  BY StepTyped DEF Write, Typed, TypeOK, Outcomes
<1>2. l \in Stamps
  BY StampsAreLaunches
<1>3. wt' \in Trees
  BY <1>2 DEF Write, Typed, TypeOK, Trees
<1> QED
  BY <1>1, <1>3 DEF Write, Typed, TypeOK, runDirs, outside, Outcomes

LEMMA CommitTyped ==
  ASSUME Typed, NEW l \in Launches, Commit(l)
  PROVE  Typed'
<1>1. pc' \in [Launches -> Outcomes]
  BY StepTyped DEF Commit, Typed, TypeOK, Outcomes, Working
<1>2. [author |-> l, files |-> wt, extra |-> stray = "staged"] \in Commits
  BY StampsAreLaunches DEF Commits, Typed, TypeOK
<1>3. local' \in Seq(Commits) /\ local' # <<>>
  BY <1>2, Appended DEF Commit, Typed, TypeOK
<1>4. stray' \in {"none", "edited", "staged"}
  BY DEF Commit, Typed, TypeOK
<1> QED
  BY <1>1, <1>3, <1>4 DEF Commit, Typed, TypeOK, runDirs, outside, Outcomes

LEMMA PushTyped ==
  ASSUME Typed, NEW l \in Launches, Push(l)
  PROVE  Typed'
<1>1. /\ pc \in [Launches -> Outcomes]
      /\ lock \in [Runs -> Launches \cup {Nobody}]
      /\ local \in Seq(Commits) /\ origin \in Seq(Commits)
      /\ local # <<>> /\ origin # <<>>
      /\ tracking \in 1 .. Len(origin) /\ live \in 1 .. Len(origin)
  BY DEF Typed, TypeOK, Outcomes
<1>2. pc' \in [Launches -> Outcomes] /\ lock' \in [Runs -> Launches \cup {Nobody}]
  BY <1>1, StepTyped, EndTyped DEF Push, Outcomes, Working, Ended
<1>3. origin' = local /\ Len(origin) <= Len(local)
  BY <1>1, PrefixLength DEF Push
<1>4. tracking' \in 1 .. Len(origin') /\ live' \in 1 .. Len(origin')
  BY <1>1, <1>3, LastCommit DEF Push
<1> QED
  BY <1>1, <1>2, <1>3, <1>4 DEF Push, Typed, TypeOK, runDirs, outside, Outcomes

LEMMA FetchTyped ==
  ASSUME Typed, NEW l \in Launches, Fetch(l)
  PROVE  Typed'
<1>1. /\ pc \in [Launches -> Outcomes]
      /\ lock \in [Runs -> Launches \cup {Nobody}]
  BY DEF Typed, TypeOK, Outcomes
<1>2. pc' \in [Launches -> Outcomes] /\ lock' \in [Runs -> Launches \cup {Nobody}]
  BY <1>1, StepTyped, EndTyped DEF Fetch, Outcomes, Working, Ended
<1>3. tracking' \in 1 .. Len(origin)
  BY LastCommit DEF Fetch, Typed, TypeOK
<1> QED
  BY <1>2, <1>3 DEF Fetch, Typed, TypeOK, runDirs, outside, Outcomes

\* Steps that write what the run directory keeps.
Recording(l) == \/ Validate(l) \/ UploadOrReuse(l) \/ RecordCommit(l)
                \/ RecordPush(l) \/ RecordLive(l)

LEMMA RecordingTyped ==
  ASSUME Typed, NEW l \in Launches, Recording(l)
  PROVE  Typed'
<1>1. /\ pc \in [Launches -> Outcomes]
      /\ lock \in [Runs -> Launches \cup {Nobody}]
      /\ state \in [Runs -> [done : SUBSET Recorded, commit : Seq(Commits)]]
      /\ local \in Seq(Commits)
      /\ RunOf[l] \in Runs
  BY RunOfEveryLaunch DEF Typed, TypeOK, Outcomes
<1>2. pc' \in [Launches -> Outcomes] /\ lock' \in [Runs -> Launches \cup {Nobody}]
  BY <1>1, StepTyped, EndTyped
     DEF Recording, Validate, UploadOrReuse, RecordCommit, RecordPush, RecordLive,
         Outcomes, Working, Ended
<1>3. state[RunOf[l]].commit \in Seq(Commits)
  BY <1>1
<1>4. state' \in [Runs -> [done : SUBSET Recorded, commit : Seq(Commits)]]
  BY <1>1, <1>3, RecordTyped
     DEF Recording, Validate, UploadOrReuse, RecordCommit, RecordPush, RecordLive,
         Recorded
<1>5. sidecars' \in SUBSET Runs /\ ccc' \in SUBSET Runs
  BY <1>1 DEF Recording, Validate, UploadOrReuse, RecordCommit, RecordPush, RecordLive,
              Typed, TypeOK
<1>6. UNCHANGED <<base, repo, outside>>
  BY DEF Recording, Validate, UploadOrReuse, RecordCommit, RecordPush, RecordLive
<1> QED
  BY <1>2, <1>4, <1>5, <1>6 DEF Typed, TypeOK, repo, outside, Outcomes

LEMMA AssembleTyped ==
  ASSUME Typed, NEW l \in Launches, Assemble(l)
  PROVE  Typed'
<1>1. pc' \in [Launches -> Outcomes]
  BY StepTyped DEF Assemble, Typed, TypeOK, Outcomes, Working
<1>2. wt.fixture \in Stamps
  BY DEF Typed, TypeOK, Trees, Files
<1>3. base' \in [Launches -> Stamps]
  BY <1>2 DEF Assemble, Typed, TypeOK
<1> QED
  BY <1>1, <1>3 DEF Assemble, Typed, TypeOK, repo, runDirs, outside, Outcomes

\* What happens around the launches.
Around == \/ PushOther \/ Edit \/ Restore \/ Pull \/ Deploy
          \/ \E r \in Runs : Unlock(r) \/ ClearValidation(r)

LEMMA AroundTyped ==
  ASSUME Typed, Around
  PROVE  Typed'
<1> USE DEF Typed, TypeOK
<1>1. CASE PushOther
  <2>1. [author |-> Other, files |-> Last(origin).files, extra |-> FALSE] \in Commits
    BY LastCommit DEF Commits
  <2>2. /\ origin' \in Seq(Commits) /\ origin' # <<>>
        /\ Len(origin') = Len(origin) + 1
    BY <1>1, <2>1, Appended DEF PushOther
  <2>3. tracking' \in 1 .. Len(origin') /\ live' \in 1 .. Len(origin')
    BY <1>1, <2>2, LastCommit DEF PushOther
  <2>4. others' \in 0 .. MaxOutside
    BY <1>1, BoundsAreNumbers DEF PushOther
  <2> QED
    BY <1>1, <2>2, <2>3, <2>4 DEF PushOther, runDirs
<1>2. CASE Edit
  BY <1>2, BoundsAreNumbers DEF Edit, runDirs
<1>3. CASE Restore
  BY <1>3, LastCommit DEF Restore, runDirs, outside
<1>4. CASE Pull
  <2>1. Len(origin) \in 1 .. Len(origin) /\ Last(origin).files \in Trees
    BY LastCommit
  <2> QED
    BY <1>4, <2>1 DEF Pull, runDirs, outside
<1>5. CASE Deploy
  BY <1>5, LastCommit DEF Deploy, runDirs, outside
<1>6. ASSUME NEW r \in Runs, Unlock(r) PROVE Typed'
  BY <1>6 DEF Unlock, repo, runDirs, outside
<1>7. ASSUME NEW r \in Runs, ClearValidation(r) PROVE Typed'
  BY <1>7 DEF ClearValidation, repo, outside
<1> QED
  BY <1>1, <1>2, <1>3, <1>4, <1>5, <1>6, <1>7 DEF Around

LEMMA StutterTyped == Typed /\ UNCHANGED vars => Typed'
BY DEF Typed, TypeOK, vars

\* The alternatives of a step, grouped as the lemmas above need them.
LEMMA NextCases ==
  ASSUME [Next]_vars
  PROVE  \/ UNCHANGED vars
         \/ Around
         \/ \E l \in Launches :
              \/ Reading(l) \/ Recording(l) \/ Assemble(l)
              \/ CopyReportPair(l) \/ PromoteFixture(l) \/ PromoteManifest(l)
              \/ PromoteReadme(l)
              \/ Commit(l) \/ Push(l) \/ Fetch(l)
BY DEF Next, Advance, Around, Reading, Recording

LEMMA StepsTyped == Typed /\ [Next]_vars => Typed'
<1> SUFFICES ASSUME Typed, [Next]_vars PROVE Typed'
  OBVIOUS
<1>1. ASSUME NEW l \in Launches,
             \/ CopyReportPair(l) \/ PromoteFixture(l) \/ PromoteManifest(l)
             \/ PromoteReadme(l)
      PROVE  Typed'
  BY <1>1, WriteTyped
     DEF CopyReportPair, PromoteFixture, PromoteManifest, PromoteReadme, Files, Working
<1> QED
  BY <1>1, NextCases, StutterTyped, AroundTyped, ReadingTyped, RecordingTyped,
     AssembleTyped, CommitTyped, PushTyped, FetchTyped

\* Every variable keeps its type in every behaviour, for any launches and runs; that a
\* committed board is whole is BoardsAreWhole below, and a worktree need not be.
THEOREM TypeCorrect == Spec => []TypeOK
<1>1. Init => Typed
  BY InitTyped
<1>2. Typed /\ [Next]_vars => Typed'
  BY StepsTyped
<1>3. Typed => TypeOK
  BY DEF Typed
<1> QED
  BY <1>1, <1>2, <1>3, PTL DEF Spec

-----------------------------------------------------------------------------
(* The inductive invariant, for runs that share one lock directory.         *)

OneLock == \A r, s \in Runs : LockDir[r] = LockDir[s]

AtMostOneRuns == \A l, m \in Launches : Running(l) /\ Running(m) => l = m

\* Where a launch has copied or replaced each publication file.
HasReport == {"promoteDryRun", "fixture", "manifest", "readme", "verify",
              "allowlist", "commit"}
HasFixture == HasReport \ {"promoteDryRun", "fixture"}
HasManifest == HasFixture \ {"manifest"}
HasReadme == HasManifest \ {"readme"}

OwnFiles ==
  \A l \in Launches : /\ pc[l] \in HasReport => wt.report = l
                      /\ pc[l] \in HasFixture => wt.fixture = l
                      /\ pc[l] \in HasManifest => wt.manifest = l
                      /\ pc[l] \in HasReadme => wt.readme = l

\* From its preflight on, a launch finds the last commit's fixture in the
\* worktree, and then has combined its candidate with that.
BuiltOnHead ==
  \A l \in Launches :
    /\ pc[l] \in {"lock", "ccc", "combine"} => wt = Last(local).files
    /\ pc[l] \in {"reportPair"} \cup HasReport => base[l] = Last(local).files.fixture

RecordedIsHead ==
  \A l \in Launches :
    pc[l] \in {"resumeLock", "push"} => local = state[RunOf[l]].commit

\* A launch that has committed will not combine again.
AfterCommit == {"recordCommit", "push", "recordPush", "fetch", "poll",
                "recordLive"} \cup Ended

\* A rehearsal ends before the promotion, and nothing resumes in its run.
RehearsalsStop ==
  \A l \in DryRuns :
    /\ pc[l] \in {"idle", "early", "validate", "resume", "checks", "lock", "ccc",
                  "combine", "reportPair", "promoteDryRun"} \cup Ended
    /\ state[RunOf[l]].done = {}

ChartsUploaded ==
  \A l \in Launches : pc[l] \in {"combine", "reportPair"} \cup HasReport
                      => RunOf[l] \in ccc

\* A launch pushes, and waits for, the board of its own run.
OfRun(stamp, r) == stamp \in Launches /\ RunOf[stamp] = r

PublishesOwnRun ==
  /\ \A l \in Launches :
       /\ pc[l] = "recordCommit" => Last(local).files = AllOf(l)
       /\ pc[l] \in {"recordCommit", "resumeLock", "push", "recordPush", "fetch",
                     "poll"} => OfRun(wt.manifest, RunOf[l])
  /\ \A r \in Runs :
       "commit_created" \in state[r].done
         => OfRun(Last(state[r].commit).files.manifest, r)

ServedIn(r, history, served) ==
  \E i \in Published(history) : i <= served /\ RunOf[history[i].author] = r

ServedWhenSeen ==
  /\ \A l \in Launches : pc[l] = "recordLive" => ServedIn(RunOf[l], origin, live)
  /\ \A r \in Runs : "live_manifest_verified" \in state[r].done
                      => ServedIn(r, origin, live)

\* What holds of both histories, of HEAD and of the remote: every publication
\* is whole, new, built on the one before and through its gates, every other
\* commit leaves the board alone, and every board is some publication's.
LawfulFor(history, bases, steps, uploaded) ==
  /\ history[1].author = Initial /\ history[1].files = AllOf(Initial)
  /\ \A i \in Published(history) :
       LET l == history[i].author
       IN /\ history[i].files = AllOf(l)
          /\ bases[l] = history[i - 1].files.fixture
          /\ steps[l] \in AfterCommit
          /\ l \notin DryRuns /\ RunOf[l] \in uploaded
          /\ \A j \in 1 .. i - 1 : history[j].files.fixture # l
  /\ \A i \in 2 .. Len(history) :
       i \in Published(history) \/ history[i].files = history[i - 1].files
  /\ \A i \in 1 .. Len(history) :
       LET stamp == history[i].files.fixture
       IN /\ history[i].files = AllOf(stamp)
          /\ stamp \in Launches
               => \E j \in Published(history) : j <= i /\ history[j].author = stamp

Lawful == LawfulFor(local, base, pc, ccc) /\ LawfulFor(origin, base, pc, ccc)

IInv == /\ Typed /\ AtMostOneRuns
        /\ OwnFiles /\ BuiltOnHead /\ RecordedIsHead
        /\ RehearsalsStop /\ ChartsUploaded /\ PublishesOwnRun /\ ServedWhenSeen
        /\ Lawful

LaunchStep(l) == Start(l) \/ Advance(l) \/ Refuse(l) \/ Crash(l)

\* A step of a launch moves that launch alone, and only Start moves one that
\* does not run.
LEMMA OneMoves ==
  ASSUME Typed, NEW l \in Launches, LaunchStep(l)
  PROVE  /\ \A m \in Launches \ {l} : pc'[m] = pc[m]
         /\ Running(l) \/ Start(l)
         /\ pc[l] \in AfterCommit => pc'[l] \in AfterCommit
<1>1. \E step \in Outcomes : Goto(l, step)
  BY DEF LaunchStep, Start, Advance, EarlyPreflight, Validate, ResumeDetect, Preflight,
         AcquireLock, UploadOrReuse, Assemble, CopyReportPair, PromoteDryRun,
         PromoteFixture, PromoteManifest, PromoteReadme, Write, VerifyWritten,
         EnforceAllowlist, Commit, RecordCommit, Push, RecordPush, Fetch, Poll,
         RecordLive, Refuse, Crash, End, Outcomes, Working, Ended
<1>2. pc[l] \in AfterCommit => pc'[l] \in AfterCommit
  BY DEF LaunchStep, Start, Advance, EarlyPreflight, Validate, ResumeDetect, Preflight,
         AcquireLock, UploadOrReuse, Assemble, CopyReportPair, PromoteDryRun,
         PromoteFixture, PromoteManifest, PromoteReadme, Write, VerifyWritten,
         EnforceAllowlist, Commit, RecordCommit, Push, RecordPush, Fetch, Poll,
         RecordLive, Refuse, Crash, End, Ended, AfterCommit, Goto, Typed, TypeOK
<1>3. Running(l) \/ Start(l)
  BY DEF LaunchStep, Advance, EarlyPreflight, Validate, ResumeDetect, Preflight,
         AcquireLock, UploadOrReuse, Assemble, CopyReportPair, PromoteDryRun,
         PromoteFixture, PromoteManifest, PromoteReadme, Write, VerifyWritten,
         EnforceAllowlist, Commit, RecordCommit, Push, RecordPush, Fetch, Poll,
         RecordLive, Refuse, Crash, Running, Working
<1> QED
  BY <1>1, <1>2, <1>3 DEF Goto, Typed, TypeOK

LEMMA OneRuns ==
  ASSUME OneLock, Typed, AtMostOneRuns, NEW l \in Launches, LaunchStep(l)
  PROVE  /\ \A m \in Launches \ {l} : ~Running(m) /\ ~Running(m)'
         /\ AtMostOneRuns'
<1>1. \A m \in Launches \ {l} : ~Running(m)
  <2>1. CASE Start(l)
    BY <2>1, RunOfEveryLaunch DEF Start, OneLock
  <2>2. CASE Running(l)
    BY <2>2 DEF AtMostOneRuns
  <2> QED
    BY <2>1, <2>2, OneMoves
<1>2. \A m \in Launches \ {l} : ~Running(m)'
  BY <1>1, OneMoves DEF Running
<1> QED
  BY <1>1, <1>2 DEF AtMostOneRuns

\* A history stays lawful while the launches that committed only move on.
LEMMA LawfulStays ==
  ASSUME NEW history, NEW bases, NEW steps, NEW uploaded, NEW bases2, NEW steps2,
         NEW uploaded2,
         LawfulFor(history, bases, steps, uploaded),
         \A l \in Launches : steps[l] \in AfterCommit
                             => steps2[l] \in AfterCommit /\ bases2[l] = bases[l],
         uploaded \subseteq uploaded2
  PROVE  LawfulFor(history, bases2, steps2, uploaded2)
<1>1. \A i \in Published(history) : history[i].author \in Launches
  BY DEF Published
<1> QED
  BY <1>1 DEF LawfulFor

\* A commit may follow a history: a publication by a launch that is new there,
\* or a commit that leaves the board alone.
MayFollow(commit, history, bases, steps, uploaded) ==
  LET l == commit.author
  IN \/ /\ l \in Launches
        /\ commit.files = AllOf(l)
        /\ bases[l] = Last(history).files.fixture
        /\ steps[l] \in AfterCommit
        /\ l \notin DryRuns /\ RunOf[l] \in uploaded
        /\ \A j \in 1 .. Len(history) : history[j].files.fixture # l
     \/ /\ l \notin Launches
        /\ commit.files = Last(history).files

LEMMA FixtureOfWhole ==
  ASSUME NEW stamp PROVE AllOf(stamp).fixture = stamp /\ AllOf(stamp).manifest = stamp
BY DEF AllOf, Files

LEMMA LawfulAppended ==
  ASSUME NEW history \in Seq(Commits), history # <<>>, NEW bases, NEW steps,
         NEW uploaded, NEW commit \in Commits,
         LawfulFor(history, bases, steps, uploaded),
         MayFollow(commit, history, bases, steps, uploaded)
  PROVE  LawfulFor(Append(history, commit), bases, steps, uploaded)
<1> DEFINE longer == Append(history, commit)
           n == Len(history)
<1>1. n \in Nat \ {0} /\ Last(history) = history[n]
  BY LastCommit
<1>2. /\ Len(longer) = n + 1
      /\ \A i \in 1 .. n : longer[i] = history[i]
      /\ longer[n + 1] = commit
  BY Appended
<1> HIDE DEF longer, n
<1>3. longer[1].author = Initial /\ longer[1].files = AllOf(Initial)
  BY <1>1, <1>2 DEF LawfulFor
<1>4. /\ Published(history) \subseteq Published(longer)
      /\ Published(history) \subseteq 1 .. n
      /\ Published(longer) \subseteq Published(history) \cup {n + 1}
      /\ 1 \notin Published(longer)
  BY <1>1, <1>2, <1>3, AuthorsDiffer DEF Published, n
<1>5. ASSUME NEW i \in Published(longer)
      PROVE  LET l == longer[i].author
             IN /\ longer[i].files = AllOf(l)
                /\ bases[l] = longer[i - 1].files.fixture
                /\ steps[l] \in AfterCommit
                /\ l \notin DryRuns /\ RunOf[l] \in uploaded
                /\ \A j \in 1 .. i - 1 : longer[j].files.fixture # l
  <2>1. CASE i \in Published(history)
    <3>1. /\ i \in 1 .. n /\ i # 1
          /\ longer[i] = history[i] /\ longer[i - 1] = history[i - 1]
          /\ \A j \in 1 .. i - 1 : longer[j] = history[j]
      BY <1>1, <1>2, <1>4, <2>1
    <3> QED
      BY <2>1, <3>1 DEF LawfulFor
  <2>2. CASE i = n + 1
    <3>1. /\ longer[i] = commit /\ longer[i - 1] = Last(history)
          /\ commit.author \in Launches
          /\ \A j \in 1 .. i - 1 : longer[j] = history[j] /\ j \in 1 .. n
      BY <1>1, <1>2, <1>5, <2>2 DEF Published
    <3> QED
      BY <2>2, <3>1 DEF MayFollow, n
  <2> QED
    BY <1>4, <2>1, <2>2
<1>6. ASSUME NEW i \in 2 .. n + 1
      PROVE  i \in Published(longer) \/ longer[i].files = longer[i - 1].files
  <2>1. CASE i \in 2 .. n
    <3>1. longer[i] = history[i] /\ longer[i - 1] = history[i - 1]
      BY <1>1, <1>2, <2>1
    <3> QED
      BY <1>4, <2>1, <3>1 DEF LawfulFor, n
  <2>2. CASE i = n + 1
    <3>1. longer[i] = commit /\ longer[i - 1] = Last(history) /\ i \in 1 .. Len(longer)
      BY <1>1, <1>2, <2>2
    <3> QED
      BY <3>1 DEF MayFollow, Published
  <2> QED
    BY <1>1, <2>1, <2>2
<1>7. ASSUME NEW i \in 1 .. n + 1
      PROVE  LET stamp == longer[i].files.fixture
             IN /\ longer[i].files = AllOf(stamp)
                /\ stamp \in Launches
                     => \E j \in Published(longer) : j <= i /\ longer[j].author = stamp
  <2>1. CASE i \in 1 .. n
    <3>1. longer[i] = history[i]
      BY <1>2, <2>1
    <3>2. \A j \in Published(history) : longer[j] = history[j] /\ j \in Published(longer)
      BY <1>2, <1>4
    <3> QED
      BY <2>1, <3>1, <3>2 DEF LawfulFor, n
  <2>2. CASE i = n + 1 /\ commit.author \in Launches
    <3>1. /\ longer[i] = commit /\ commit.files = AllOf(commit.author)
          /\ commit.files.fixture = commit.author
      BY <1>1, <1>2, <2>2, FixtureOfWhole DEF MayFollow
    <3>2. i \in Published(longer) /\ i <= i
      BY <1>1, <1>2, <2>2, <3>1 DEF Published
    <3> QED
      BY <3>1, <3>2
  <2>3. CASE i = n + 1 /\ commit.author \notin Launches
    <3>1. longer[i].files = history[n].files /\ n \in 1 .. n /\ n <= i
      BY <1>1, <1>2, <2>3 DEF MayFollow
    <3>2. \A j \in Published(history) :
            longer[j] = history[j] /\ j \in Published(longer) /\ (j <= n => j <= i)
      BY <1>1, <1>2, <1>4, <2>3
    <3> QED
      BY <3>1, <3>2 DEF LawfulFor, n
  <2> QED
    BY <1>1, <2>1, <2>2, <2>3
<1>8. LawfulFor(longer, bases, steps, uploaded)
  BY <1>2, <1>3, <1>5, <1>6, <1>7 DEF LawfulFor
<1> QED
  BY <1>8 DEF longer

LEMMA OwnTree ==
  ASSUME Typed, OwnFiles, NEW l \in Launches, pc[l] \in HasReadme
  PROVE  wt = AllOf(l)
<1>1. wt \in [Files -> Stamps]
  BY DEF Typed, TypeOK, Trees
<1>2. wt.report = l /\ wt.fixture = l /\ wt.manifest = l /\ wt.readme = l
  BY DEF OwnFiles, HasReport, HasFixture, HasManifest, HasReadme
<1> QED
  BY <1>1, <1>2 DEF AllOf, Files

\* What a board was built on is settled once it is committed.
LEMMA BasesStay ==
  ASSUME Typed, NEW l \in Launches, LaunchStep(l)
  PROVE  \A m \in Launches : pc[m] \in AfterCommit => base'[m] = base[m]
<1>1. CASE Assemble(l)
  BY <1>1 DEF Assemble, AfterCommit, Ended, Typed, TypeOK
<1>2. CASE ~Assemble(l)
  BY <1>2
     DEF LaunchStep, Start, Advance, EarlyPreflight, Validate, ResumeDetect,
         Preflight, AcquireLock, UploadOrReuse, CopyReportPair, PromoteDryRun,
         PromoteFixture, PromoteManifest, PromoteReadme, Write, VerifyWritten,
         EnforceAllowlist, Commit, RecordCommit, Push, RecordPush, Fetch, Poll,
         RecordLive, Refuse, Crash
<1> QED
  BY <1>1, <1>2

LEMMA LaunchKeepsLawful ==
  ASSUME IInv, NEW l \in Launches, LaunchStep(l)
  PROVE  Lawful'
<1> USE DEF IInv
<1>1. \A m \in Launches : pc[m] \in AfterCommit => pc'[m] \in AfterCommit
  BY OneMoves
<1>2. \A m \in Launches : pc[m] \in AfterCommit => base'[m] = base[m]
  BY BasesStay
<1>3. ccc \subseteq ccc'
  BY DEF LaunchStep, Start, Advance, EarlyPreflight, Validate, ResumeDetect, Preflight,
         AcquireLock, UploadOrReuse, Assemble, CopyReportPair, PromoteDryRun,
         PromoteFixture, PromoteManifest, PromoteReadme, Write, VerifyWritten,
         EnforceAllowlist, Commit, RecordCommit, Push, RecordPush, Fetch, Poll,
         RecordLive, Refuse, Crash, runDirs
<1>4. LawfulFor(local, base', pc', ccc') /\ LawfulFor(origin, base', pc', ccc')
  BY <1>1, <1>2, <1>3, LawfulStays DEF Lawful
<1>5. CASE Commit(l)
  <2> DEFINE commit == [author |-> l, files |-> wt, extra |-> stray = "staged"]
  <2>1. commit \in Commits
    BY StampsAreLaunches DEF Commits, Typed, TypeOK
  <2>2. /\ pc[l] \in HasReadme /\ pc[l] = "commit"
        /\ pc[l] \notin AfterCommit /\ pc'[l] \in AfterCommit
    BY <1>5 DEF Commit, HasReport, HasFixture, HasManifest, HasReadme, AfterCommit,
                Ended, Goto, Typed, TypeOK
  <2>3. wt = AllOf(l)
    BY <2>2, OwnTree
  <2>4. base'[l] = Last(local).files.fixture
    BY <1>5, <2>2 DEF Commit, BuiltOnHead, HasReport
  <2>6. l \notin DryRuns /\ RunOf[l] \in ccc'
    BY <1>3, <2>2 DEF RehearsalsStop, ChartsUploaded, HasReport, Ended
  <2>7. \A j \in 1 .. Len(local) : local[j].files.fixture # l
    <3>1. \A j \in Published(local) : pc[local[j].author] \in AfterCommit
      BY DEF Lawful, LawfulFor
    <3> QED
      BY <2>2, <3>1 DEF Lawful, LawfulFor
  <2>8. MayFollow(commit, local, base', pc', ccc')
    BY <2>2, <2>3, <2>4, <2>6, <2>7 DEF MayFollow
  <2>9. LawfulFor(Append(local, commit), base', pc', ccc')
    BY <1>4, <2>1, <2>8, LawfulAppended DEF Typed, TypeOK
  <2> QED
    BY <1>4, <1>5, <2>9 DEF Commit, Lawful
<1>6. CASE Push(l)
  BY <1>4, <1>6 DEF Push, Lawful
<1>7. CASE ~Commit(l) /\ ~Push(l)
  <2>1. local' = local /\ origin' = origin
    BY <1>7
       DEF LaunchStep, Start, Advance, EarlyPreflight, Validate, ResumeDetect,
           Preflight, AcquireLock, UploadOrReuse, Assemble, CopyReportPair,
           PromoteDryRun, PromoteFixture, PromoteManifest, PromoteReadme, Write,
           VerifyWritten, EnforceAllowlist, RecordCommit, RecordPush, Fetch, Poll,
           RecordLive, Refuse, Crash, repo
  <2> QED
    BY <1>4, <2>1 DEF Lawful
<1> QED
  BY <1>5, <1>6, <1>7

LEMMA LaunchKeepsOwn ==
  ASSUME OneLock, IInv, NEW l \in Launches, LaunchStep(l), Typed'
  PROVE  OwnFiles' /\ BuiltOnHead' /\ RecordedIsHead'
<1> USE DEF IInv, HasReport, HasFixture, HasManifest, HasReadme
<1>1. \A m \in Launches \ {l} :
        pc'[m] \notin HasReport \cup {"lock", "ccc", "combine", "reportPair",
                                     "resumeLock", "push"}
  BY OneRuns DEF Running, Working
<1>2. OwnFiles'
  <2>1. /\ pc'[l] \in HasReport => wt'.report = l
        /\ pc'[l] \in HasFixture => wt'.fixture = l
        /\ pc'[l] \in HasManifest => wt'.manifest = l
        /\ pc'[l] \in HasReadme => wt'.readme = l
    BY DEF LaunchStep, Start, Advance, EarlyPreflight, Validate, ResumeDetect,
           Preflight, AcquireLock, UploadOrReuse, Assemble, CopyReportPair,
           PromoteDryRun, PromoteFixture, PromoteManifest, PromoteReadme, Write,
           VerifyWritten, EnforceAllowlist, Commit, RecordCommit, Push, RecordPush,
           Fetch, Poll, RecordLive, Refuse, Crash, repo, End, Goto, OwnFiles,
           Typed, TypeOK, Trees, Files
  <2> QED
    BY <1>1, <2>1 DEF OwnFiles
<1>3. BuiltOnHead'
  <2>1. pc'[l] \in {"lock", "ccc", "combine"} => wt' = Last(local').files
    BY DEF LaunchStep, Start, Advance, EarlyPreflight, Validate, ResumeDetect,
           Preflight, AcquireLock, UploadOrReuse, Assemble, CopyReportPair,
           PromoteDryRun, PromoteFixture, PromoteManifest, PromoteReadme, Write,
           VerifyWritten, EnforceAllowlist, Commit, RecordCommit, Push, RecordPush,
           Fetch, Poll, RecordLive, Refuse, Crash, repo, End, Goto, BuiltOnHead,
           PreflightChecks, Clean, Typed, TypeOK
  <2>2. pc'[l] \in {"reportPair"} \cup HasReport
          => base'[l] = Last(local').files.fixture
    BY DEF LaunchStep, Start, Advance, EarlyPreflight, Validate, ResumeDetect,
           Preflight, AcquireLock, UploadOrReuse, Assemble, CopyReportPair,
           PromoteDryRun, PromoteFixture, PromoteManifest, PromoteReadme, Write,
           VerifyWritten, EnforceAllowlist, Commit, RecordCommit, Push, RecordPush,
           Fetch, Poll, RecordLive, Refuse, Crash, repo, End, Goto, BuiltOnHead,
           Typed, TypeOK
  <2> QED
    BY <1>1, <2>1, <2>2 DEF BuiltOnHead
<1>4. RecordedIsHead'
  <2>1. pc'[l] \in {"resumeLock", "push"} => local' = state'[RunOf[l]].commit
    BY RunOfEveryLaunch
       DEF LaunchStep, Start, Advance, EarlyPreflight, Validate, ResumeDetect,
           Preflight, AcquireLock, UploadOrReuse, Assemble, CopyReportPair,
           PromoteDryRun, PromoteFixture, PromoteManifest, PromoteReadme, Write,
           VerifyWritten, EnforceAllowlist, Commit, RecordCommit, Push, RecordPush,
           Fetch, Poll, RecordLive, Refuse, Crash, repo, runDirs, End, Goto, Record,
           RecordedIsHead, AtRecordedCommit, Typed, TypeOK
  <2> QED
    BY <1>1, <2>1 DEF RecordedIsHead
<1> QED
  BY <1>2, <1>3, <1>4

LEMMA LaunchKeepsGates ==
  ASSUME OneLock, IInv, NEW l \in Launches, LaunchStep(l), Typed'
  PROVE  RehearsalsStop' /\ ChartsUploaded'
<1> USE DEF IInv
<1>1. /\ RunOf[l] \in Runs
      /\ \A r \in Runs \ {RunOf[l]} : state'[r] = state[r]
      /\ ccc \subseteq ccc'
  BY RunOfEveryLaunch
     DEF LaunchStep, Start, Advance, EarlyPreflight, Validate, ResumeDetect,
         Preflight, AcquireLock, UploadOrReuse, Assemble, CopyReportPair,
         PromoteDryRun, PromoteFixture, PromoteManifest, PromoteReadme, Write,
         VerifyWritten, EnforceAllowlist, Commit, RecordCommit, Push, RecordPush,
         Fetch, Poll, RecordLive, Refuse, Crash, repo, runDirs, End, Goto, Record,
         Typed, TypeOK
<1>2. RehearsalsStop'
  <2>1. CASE l \in DryRuns
    <3>1. CommitNotPushed(RunOf[l]) = FALSE
      BY <2>1 DEF RehearsalsStop, CommitNotPushed
    <3>2. /\ pc'[l] \in {"idle", "early", "validate", "resume", "checks", "lock", "ccc",
                        "combine", "reportPair", "promoteDryRun"} \cup Ended
          /\ state' = state
      BY <2>1, <3>1
         DEF LaunchStep, Start, Advance, EarlyPreflight, Validate, ResumeDetect,
             Preflight, AcquireLock, UploadOrReuse, Assemble, CopyReportPair,
             PromoteDryRun, PromoteFixture, PromoteManifest, PromoteReadme, Write,
             VerifyWritten, EnforceAllowlist, Commit, RecordCommit, Push, RecordPush,
             Fetch, Poll, RecordLive, Refuse, Crash, repo, runDirs, End, Goto, Record,
             RehearsalsStop, Ended, Typed, TypeOK
    <3> QED
      BY <3>2, OneMoves, LaunchKinds DEF RehearsalsStop
  <2>2. CASE l \notin DryRuns
    <3>1. ASSUME NEW m \in DryRuns
          PROVE  pc'[m] = pc[m] /\ state'[RunOf[m]] = state[RunOf[m]]
      <4>1. m \in Launches /\ m # l /\ RunOf[m] \in Runs
        BY <2>2, LaunchKinds, RunOfEveryLaunch
      <4>2. RunOf[m] # RunOf[l]
        BY <4>1, SharedRunsAreBuildAndRank
      <4> QED
        BY <1>1, <4>1, <4>2, OneMoves
    <3> QED
      BY <3>1 DEF RehearsalsStop
  <2> QED
    BY <2>1, <2>2
<1>3. ChartsUploaded'
  <2>1. \A m \in Launches \ {l} : pc'[m] \notin {"combine", "reportPair"} \cup HasReport
    BY OneRuns DEF Running, Working, HasReport
  <2>2. pc'[l] \in {"combine", "reportPair"} \cup HasReport => RunOf[l] \in ccc'
    BY <1>1
       DEF LaunchStep, Start, Advance, EarlyPreflight, Validate, ResumeDetect,
           Preflight, AcquireLock, UploadOrReuse, Assemble, CopyReportPair,
           PromoteDryRun, PromoteFixture, PromoteManifest, PromoteReadme, Write,
           VerifyWritten, EnforceAllowlist, Commit, RecordCommit, Push, RecordPush,
           Fetch, Poll, RecordLive, Refuse, Crash, repo, runDirs, End, Goto, Record,
           ChartsUploaded, HasReport, Ended, Typed, TypeOK
  <2> QED
    BY <2>1, <2>2 DEF ChartsUploaded
<1> QED
  BY <1>2, <1>3

LEMMA LaunchKeepsOwnRun ==
  ASSUME OneLock, IInv, NEW l \in Launches, LaunchStep(l), Typed'
  PROVE  PublishesOwnRun'
<1> USE DEF IInv
<1> DEFINE AtBoard == {"recordCommit", "resumeLock", "push", "recordPush", "fetch", "poll"}
<1>1. RunOf[l] \in Runs /\ (\A r \in Runs \ {RunOf[l]} : state'[r] = state[r])
  BY RunOfEveryLaunch
     DEF LaunchStep, Start, Advance, EarlyPreflight, Validate, ResumeDetect,
         Preflight, AcquireLock, UploadOrReuse, Assemble, CopyReportPair,
         PromoteDryRun, PromoteFixture, PromoteManifest, PromoteReadme, Write,
         VerifyWritten, EnforceAllowlist, Commit, RecordCommit, Push, RecordPush,
         Fetch, Poll, RecordLive, Refuse, Crash, repo, runDirs, End, Goto, Record,
         Typed, TypeOK
<1>2. \A m \in Launches \ {l} : pc'[m] \notin AtBoard
  BY OneRuns DEF Running, Working
<1>3. CASE Commit(l)
  <2>1. /\ pc[l] \in HasReadme /\ pc'[l] = "recordCommit" /\ wt' = wt
        /\ Last(local').files = wt
        /\ state' = state
    <3> DEFINE commit == [author |-> l, files |-> wt, extra |-> stray = "staged"]
    <3>1. commit \in Commits /\ commit.files = wt
      BY StampsAreLaunches DEF Commits, Typed, TypeOK
    <3>2. local' = Append(local, commit)
      BY <1>3 DEF Commit
    <3>3. Last(local') = commit
      <4> HIDE DEF commit
      <4>1. local \in Seq(Commits)
        BY DEF Typed, TypeOK
      <4>2. /\ local' \in Seq(Commits) /\ local' # <<>>
            /\ Len(local') = Len(local) + 1 /\ local'[Len(local) + 1] = commit
        BY <3>1, <3>2, <4>1, Appended
      <4> QED
        BY <4>2, LastCommit
    <3>4. Last(local').files = wt
      BY <3>1, <3>3
    <3> QED
      BY <1>3, <3>4 DEF Commit, HasReport, HasFixture, HasManifest, HasReadme, Goto,
                        runDirs, Typed, TypeOK
  <2>2. wt = AllOf(l) /\ wt.manifest = l
    BY <2>1, OwnTree, FixtureOfWhole
  <2> QED
    BY <1>2, <2>1, <2>2 DEF PublishesOwnRun, OfRun
<1>4. CASE RecordCommit(l)
  <2>1. /\ pc[l] = "recordCommit" /\ pc'[l] = "push" /\ wt' = wt
        /\ state'[RunOf[l]].commit = local
    BY <1>1, <1>4 DEF RecordCommit, Record, Goto, repo, Typed, TypeOK
  <2>2. Last(local).files.manifest = l
    BY <2>1, FixtureOfWhole DEF PublishesOwnRun
  <2> QED
    BY <1>1, <1>2, <2>1, <2>2 DEF PublishesOwnRun, OfRun
<1>5. CASE ResumeDetect(l)
  <2>1. /\ wt' = wt /\ state' = state /\ pc'[l] # "recordCommit"
        /\ pc'[l] \in AtBoard => CommitNotPushed(RunOf[l]) /\ AtRecordedCommit(RunOf[l])
    BY <1>5 DEF ResumeDetect, Goto, repo, runDirs, Typed, TypeOK
  <2>2. pc'[l] \in AtBoard => OfRun(wt.manifest, RunOf[l])
    BY <1>1, <2>1 DEF PublishesOwnRun, CommitNotPushed, AtRecordedCommit, Clean
  <2> QED
    BY <1>2, <2>1, <2>2 DEF PublishesOwnRun
<1>6. CASE ~Commit(l) /\ ~RecordCommit(l) /\ ~ResumeDetect(l)
  <2>1. /\ pc'[l] # "recordCommit"
        /\ pc'[l] \in AtBoard => wt' = wt /\ pc[l] \in AtBoard
    BY <1>6
       DEF LaunchStep, Start, Advance, EarlyPreflight, Validate, ResumeDetect,
           Preflight, AcquireLock, UploadOrReuse, Assemble, CopyReportPair,
           PromoteDryRun, PromoteFixture, PromoteManifest, PromoteReadme, Write,
           VerifyWritten, EnforceAllowlist, Commit, RecordCommit, Push, RecordPush,
           Fetch, Poll, RecordLive, Refuse, Crash, repo, runDirs, End, Goto, Record,
           Ended, Typed, TypeOK
  <2>2. /\ state'[RunOf[l]].commit = state[RunOf[l]].commit
        /\ "commit_created" \in state'[RunOf[l]].done
             => "commit_created" \in state[RunOf[l]].done
    <3>1. CASE RecordPush(l) \/ RecordLive(l)
      BY <1>1, <3>1 DEF RecordPush, RecordLive, Record, Typed, TypeOK
    <3>2. CASE ~RecordPush(l) /\ ~RecordLive(l)
      <4>1. state' = state
        BY <1>6, <3>2
           DEF LaunchStep, Start, Advance, EarlyPreflight, Validate, ResumeDetect,
               Preflight, AcquireLock, UploadOrReuse, Assemble, CopyReportPair,
               PromoteDryRun, PromoteFixture, PromoteManifest, PromoteReadme, Write,
               VerifyWritten, EnforceAllowlist, Commit, RecordCommit, Push, RecordPush,
               Fetch, Poll, RecordLive, Refuse, Crash, repo, runDirs, End, Goto, Record
      <4> QED
        BY <4>1
    <3> QED
      BY <3>1, <3>2
  <2> QED
    BY <1>1, <1>2, <2>1, <2>2 DEF PublishesOwnRun
<1> QED
  BY <1>3, <1>4, <1>5, <1>6

\* What the site has served stays served, as the remote's history only grows.
LEMMA ServedStays ==
  ASSUME Typed, Typed', IsPrefix(origin, origin'), live' >= live, NEW r,
         ServedIn(r, origin, live)
  PROVE  ServedIn(r, origin', live')
<1>1. PICK i \in Published(origin) : i <= live /\ RunOf[origin[i].author] = r
  BY DEF ServedIn
<1>2. /\ i \in 1 .. Len(origin) /\ origin[i].author \in Launches
      /\ Len(origin) <= Len(origin') /\ origin'[i] = origin[i]
      /\ Len(origin) \in Nat /\ Len(origin') \in Nat
      /\ live \in Nat /\ live' \in Nat
  BY PrefixLength DEF Published, Typed, TypeOK
<1>3. i \in Published(origin') /\ i <= live'
  BY <1>1, <1>2 DEF Published
<1> QED
  BY <1>1, <1>2, <1>3 DEF ServedIn

LEMMA LaunchExtends ==
  ASSUME Typed, NEW l \in Launches, LaunchStep(l)
  PROVE  IsPrefix(origin, origin') /\ live' = live
<1>1. CASE Push(l)
  BY <1>1 DEF Push
<1>2. CASE ~Push(l)
  <2>1. origin' = origin /\ live' = live
    BY <1>2
       DEF LaunchStep, Start, Advance, EarlyPreflight, Validate, ResumeDetect,
           Preflight, AcquireLock, UploadOrReuse, Assemble, CopyReportPair,
           PromoteDryRun, PromoteFixture, PromoteManifest, PromoteReadme, Write,
           VerifyWritten, EnforceAllowlist, Commit, RecordCommit, Push, RecordPush,
           Fetch, Poll, RecordLive, Refuse, Crash, repo, runDirs, End, Goto, Record
  <2>2. IsPrefix(origin, origin)
    BY DEF IsPrefix, Typed, TypeOK
  <2> QED
    BY <2>1, <2>2
<1>3. live' = live
  BY DEF LaunchStep, Start, Advance, EarlyPreflight, Validate, ResumeDetect,
         Preflight, AcquireLock, UploadOrReuse, Assemble, CopyReportPair,
         PromoteDryRun, PromoteFixture, PromoteManifest, PromoteReadme, Write,
         VerifyWritten, EnforceAllowlist, Commit, RecordCommit, Push, RecordPush,
         Fetch, Poll, RecordLive, Refuse, Crash, repo, runDirs, End, Goto, Record
<1> QED
  BY <1>1, <1>2, <1>3

LEMMA LaunchKeepsServed ==
  ASSUME OneLock, IInv, NEW l \in Launches, LaunchStep(l), Typed'
  PROVE  ServedWhenSeen'
<1> USE DEF IInv
<1>1. \A m \in Launches \ {l} : pc'[m] # "recordLive"
  BY OneRuns DEF Running, Working
<1>2. IsPrefix(origin, origin') /\ live' = live
  BY LaunchExtends
<1>3. \A r : ServedIn(r, origin, live) => ServedIn(r, origin', live')
  BY <1>2, ServedStays DEF Typed, TypeOK
<1>4. pc'[l] = "recordLive" => Poll(l) /\ pc[l] = "poll"
  BY DEF LaunchStep, Start, Advance, EarlyPreflight, Validate, ResumeDetect,
         Preflight, AcquireLock, UploadOrReuse, Assemble, CopyReportPair,
         PromoteDryRun, PromoteFixture, PromoteManifest, PromoteReadme, Write,
         VerifyWritten, EnforceAllowlist, Commit, RecordCommit, Push, RecordPush,
         Fetch, Poll, RecordLive, Refuse, Crash, repo, runDirs, End, Goto, Record,
         Ended, Typed, TypeOK
<1>5. CASE Poll(l)
  <2>1. state' = state /\ pc[l] = "poll"
    BY <1>5 DEF Poll, runDirs
  <2>2. ServedIn(RunOf[l], origin, live)
    <3> DEFINE stamp == origin[live].files.fixture
    <3>1. live \in 1 .. Len(origin)
      BY DEF Typed, TypeOK
    <3>2. /\ origin[live].files.manifest = stamp
          /\ stamp \in Launches
               => \E j \in Published(origin) : j <= live /\ origin[j].author = stamp
      BY <3>1, FixtureOfWhole DEF Lawful, LawfulFor
    <3>3. OfRun(wt.manifest, RunOf[l])
      BY <2>1 DEF PublishesOwnRun
    <3>4. stamp \in Launches /\ RunOf[stamp] = RunOf[l]
      BY <1>5, <3>2, <3>3 DEF Poll, SameFields, OfRun
    <3> QED
      BY <3>2, <3>4 DEF ServedIn
  <2> QED
    BY <1>1, <1>3, <2>1, <2>2 DEF ServedWhenSeen
<1>6. CASE ~Poll(l)
  <2>1. \A r \in Runs : "live_manifest_verified" \in state'[r].done
                       => ServedIn(r, origin, live)
    <3>1. CASE RecordLive(l)
      BY <3>1, RunOfEveryLaunch
         DEF RecordLive, Record, ServedWhenSeen, Typed, TypeOK
    <3>2. CASE RecordCommit(l) \/ RecordPush(l)
      <4>1. PICK done \in {"commit_created", "push_ok"} : \E commit : Record(l, done, commit)
        BY <3>2 DEF RecordCommit, RecordPush
      <4>2. ASSUME NEW r \in Runs PROVE state'[r].done \subseteq state[r].done \cup {done}
        BY <4>1, RunOfEveryLaunch DEF Record, Typed, TypeOK
      <4> QED
        BY <4>2 DEF ServedWhenSeen
    <3>3. CASE ~RecordLive(l) /\ ~RecordCommit(l) /\ ~RecordPush(l)
      <4>1. state' = state
        BY <3>3
           DEF LaunchStep, Start, Advance, EarlyPreflight, Validate, ResumeDetect,
               Preflight, AcquireLock, UploadOrReuse, Assemble, CopyReportPair,
               PromoteDryRun, PromoteFixture, PromoteManifest, PromoteReadme, Write,
               VerifyWritten, EnforceAllowlist, Commit, RecordCommit, Push, RecordPush,
               Fetch, Poll, RecordLive, Refuse, Crash, repo, runDirs, End, Goto, Record
      <4> QED
        BY <4>1 DEF ServedWhenSeen
    <3> QED
      BY <3>1, <3>2, <3>3
  <2> QED
    BY <1>1, <1>3, <1>4, <1>6, <2>1 DEF ServedWhenSeen
<1> QED
  BY <1>5, <1>6

\* Between the launches the operator changes the worktree; during one, only
\* the remote and files outside the publication change.
LEMMA AroundKeepsLawful ==
  ASSUME IInv, Around
  PROVE  Lawful'
<1> USE DEF IInv
<1>1. pc' = pc /\ base' = base /\ ccc' = ccc
  BY DEF Around, PushOther, Edit, Restore, Pull, Deploy, Unlock, ClearValidation, runDirs
<1>2. CASE PushOther
  <2> DEFINE commit == [author |-> Other, files |-> Last(origin).files, extra |-> FALSE]
  <2>1. origin \in Seq(Commits) /\ origin # <<>>
    BY DEF Typed, TypeOK
  <2>2. commit \in Commits
    BY <2>1, LastCommit DEF Commits
  <2>3. MayFollow(commit, origin, base, pc, ccc)
    BY AuthorsDiffer DEF MayFollow
  <2>4. LawfulFor(Append(origin, commit), base, pc, ccc)
    <3>1. LawfulFor(origin, base, pc, ccc)
      BY DEF Lawful
    <3> HIDE DEF commit
    <3> QED
      BY <2>1, <2>2, <2>3, <3>1, LawfulAppended
  <2> QED
    BY <1>1, <1>2, <2>4 DEF Lawful, PushOther
<1>3. CASE Pull
  BY <1>1, <1>3 DEF Pull, Lawful
<1>4. CASE ~PushOther /\ ~Pull
  <2>1. local' = local /\ origin' = origin
    BY <1>4 DEF Around, Edit, Restore, Deploy, Unlock, ClearValidation, repo
  <2> QED
    BY <1>1, <2>1 DEF Lawful
<1> QED
  BY <1>2, <1>3, <1>4

LEMMA AroundKeeps ==
  ASSUME IInv, Around, Typed'
  PROVE  IInv'
<1> USE DEF IInv
<1>1. pc' = pc /\ base' = base /\ state' = state /\ ccc' = ccc
  BY DEF Around, PushOther, Edit, Restore, Pull, Deploy, Unlock, ClearValidation, runDirs
<1>2. AtMostOneRuns' /\ RehearsalsStop' /\ ChartsUploaded'
  BY <1>1 DEF AtMostOneRuns, Running, RehearsalsStop, ChartsUploaded
<1>3. (wt' = wt /\ local' = local) \/ NothingRuns
  BY DEF Around, PushOther, Edit, Restore, Pull, Deploy, Unlock, ClearValidation, repo
<1>4. OwnFiles' /\ BuiltOnHead' /\ RecordedIsHead' /\ PublishesOwnRun'
  <2>1. CASE wt' = wt /\ local' = local
    BY <1>1, <2>1 DEF OwnFiles, BuiltOnHead, RecordedIsHead, PublishesOwnRun
  <2>2. CASE NothingRuns
    <3>1. \A l \in Launches :
            pc[l] \notin HasReport \cup {"lock", "ccc", "combine", "reportPair",
                                        "recordCommit", "resumeLock", "push",
                                        "recordPush", "fetch", "poll"}
      BY <2>2 DEF NothingRuns, Running, Working, HasReport
    <3> QED
      BY <1>1, <3>1
         DEF OwnFiles, BuiltOnHead, RecordedIsHead, PublishesOwnRun, HasReport,
             HasFixture, HasManifest, HasReadme
  <2> QED
    BY <1>3, <2>1, <2>2
<1>6. ServedWhenSeen'
  <2>1. IsPrefix(origin, origin')
    <3>1. CASE PushOther
      BY <3>1 DEF PushOther, IsPrefix, Typed, TypeOK
    <3>2. CASE ~PushOther
      <4>1. origin' = origin
        BY <3>2 DEF Around, Edit, Restore, Pull, Deploy, Unlock, ClearValidation, repo
      <4> QED
        BY <4>1 DEF IsPrefix, Typed, TypeOK
    <3> QED
      BY <3>1, <3>2
  <2>2. live' >= live
    BY DEF Around, PushOther, Edit, Restore, Pull, Deploy, Unlock, ClearValidation,
           repo, Typed, TypeOK
  <2> QED
    BY <1>1, <2>1, <2>2, ServedStays DEF ServedWhenSeen
<1> QED
  BY <1>2, <1>4, <1>6, AroundKeepsLawful

LEMMA InitKeeps == Init => IInv
<1> SUFFICES ASSUME Init PROVE IInv
  OBVIOUS
<1>1. \A l \in Launches : pc[l] = "idle"
  BY DEF Init
<1>2. Lawful
  <2>1. /\ Len(Genesis) = 1 /\ Genesis[1].author = Initial
        /\ Genesis[1].files = AllOf(Initial)
    BY DEF Genesis
  <2>2. Published(Genesis) = {} /\ AllOf(Initial).fixture = Initial
    BY <2>1, AuthorsDiffer, FixtureOfWhole DEF Published
  <2>3. \A i \in 1 .. Len(Genesis) : i = 1
    BY <2>1
  <2> QED
    BY <2>1, <2>2, <2>3, AuthorsDiffer DEF Init, Lawful, LawfulFor
<1>3. RehearsalsStop /\ PublishesOwnRun /\ ServedWhenSeen
  BY <1>1, RunOfEveryLaunch, LaunchKinds
     DEF Init, NoState, RehearsalsStop, PublishesOwnRun, ServedWhenSeen
<1> QED
  BY <1>1, <1>2, <1>3, InitTyped
     DEF IInv, AtMostOneRuns, Running, Working, OwnFiles, BuiltOnHead, RecordedIsHead,
         ChartsUploaded, HasReport, HasFixture, HasManifest, HasReadme

LEMMA StepsKeep ==
  ASSUME OneLock, IInv, [Next]_vars
  PROVE  IInv'
<1>1. Typed'
  BY StepsTyped DEF IInv
<1>2. CASE UNCHANGED vars
  BY <1>1, <1>2
     DEF vars, IInv, AtMostOneRuns, Running, OwnFiles, BuiltOnHead, RecordedIsHead,
         RehearsalsStop, ChartsUploaded, PublishesOwnRun,
         ServedWhenSeen, Lawful
<1>3. CASE Around
  BY <1>1, <1>3, AroundKeeps
<1>4. ASSUME NEW l \in Launches, LaunchStep(l) PROVE IInv'
  <2>1. AtMostOneRuns' /\ Lawful'
    BY <1>4, OneRuns, LaunchKeepsLawful DEF IInv
  <2> QED
    BY <1>1, <1>4, <2>1, LaunchKeepsOwn, LaunchKeepsGates, LaunchKeepsOwnRun,
       LaunchKeepsServed DEF IInv
<1> QED
  BY <1>2, <1>3, <1>4 DEF Next, Around, LaunchStep

LEMMA Consequences ==
  ASSUME IInv
  PROVE  /\ UntornBoards /\ NoLostUpdate /\ PushesRecordedCommit
         /\ OnlyGatedBoardsArePublic /\ VerifiedWasServed
<1>1. UntornBoards
  BY DEF IInv, Lawful, LawfulFor, UntornBoards
<1>2. NoLostUpdate
  BY DEF IInv, Lawful, LawfulFor, NoLostUpdate
<1>3. PushesRecordedCommit
  BY DEF IInv, RecordedIsHead, PushesRecordedCommit
<1>5. OnlyGatedBoardsArePublic
  BY DEF IInv, Lawful, LawfulFor, OnlyGatedBoardsArePublic
<1>6. VerifiedWasServed
  BY DEF IInv, ServedWhenSeen, ServedIn, VerifiedWasServed
<1> QED
  BY <1>1, <1>2, <1>3, <1>5, <1>6

LEMMA Invariance == ASSUME OneLock PROVE Spec => []IInv
<1>1. Init => IInv
  BY InitKeeps
<1>2. IInv /\ [Next]_vars => IInv'
  BY StepsKeep
<1> QED
  BY <1>1, <1>2, PTL DEF Spec

-----------------------------------------------------------------------------
(* The safety properties that the runs check, for every set of launches     *)
(* whose runs share one lock directory.                                     *)

\* Every board that run_stage9_publish commits is whole: its fixture, manifest,
\* README and report come from the launch that commits, after whatever refusals
\* and kills of earlier launches left in the worktree.
THEOREM BoardsAreWhole == ASSUME OneLock PROVE Spec => []UntornBoards
<1>1. IInv => UntornBoards
  BY Consequences
<1> QED
  BY <1>1, Invariance, PTL

\* assemble_candidate takes the rows it carries over from the board that the
\* publish then replaces: no launch undoes another's publication.
THEOREM NothingIsLost == ASSUME OneLock PROVE Spec => []NoLostUpdate
<1>1. IInv => NoLostUpdate
  BY Consequences
<1> QED
  BY <1>1, Invariance, PTL

\* A push, first or resumed, finds HEAD at the commit of publish_state.json.
THEOREM PushesWhatWasRecorded == ASSUME OneLock PROVE Spec => []PushesRecordedCommit
<1>1. IInv => PushesRecordedCommit
  BY Consequences
<1> QED
  BY <1>1, Invariance, PTL

\* What becomes public passed its gates: no rehearsal pushes, and no launch
\* whose chart records upload_or_reuse_fresh_ccc did not accept.
THEOREM OnlyGatedArePublic == ASSUME OneLock PROVE Spec => []OnlyGatedBoardsArePublic
<1>1. IInv => OnlyGatedBoardsArePublic
  BY Consequences
<1> QED
  BY <1>1, Invariance, PTL

\* verify_live_manifest does not report a board that the site never served.
THEOREM VerifiedBoardsWereServed == ASSUME OneLock PROVE Spec => []VerifiedWasServed
<1>1. IInv => VerifiedWasServed
  BY Consequences
<1> QED
  BY <1>1, Invariance, PTL

\* Files that a developer has staged get into a launch's commit only when they were
\* staged after its allowlist check.
StagedLate(history, who) ==
  \A i \in Published(history) : history[i].extra => history[i].author \in who

LateInv == /\ Typed
           /\ \A l \in Launches : pc[l] = "commit" /\ stray = "staged" => l \in late
           /\ StagedLate(local, late) /\ StagedLate(origin, late)

LEMMA LateAppended ==
  ASSUME NEW history \in Seq(Commits), NEW commit \in Commits, NEW who,
         StagedLate(history, who), commit.extra => commit.author \in who
  PROVE  StagedLate(Append(history, commit), who)
<1> DEFINE longer == Append(history, commit)
           n == Len(history)
<1>1. /\ n \in Nat /\ Len(longer) = n + 1
      /\ \A i \in 1 .. n : longer[i] = history[i]
      /\ longer[n + 1] = commit
  BY Appended
<1> HIDE DEF longer
<1>2. \A i \in 1 .. n + 1 : i \in 1 .. n \/ i = n + 1
  BY <1>1
<1>3. ASSUME NEW i \in Published(longer), longer[i].extra PROVE longer[i].author \in who
  <2>1. CASE i \in 1 .. n
    BY <1>1, <1>3, <2>1 DEF Published, StagedLate
  <2>2. CASE i = n + 1
    BY <1>1, <1>3, <2>2
  <2> QED
    BY <1>1, <1>2, <2>1, <2>2 DEF Published
<1> QED
  BY <1>3 DEF StagedLate, longer

LEMMA LateKept ==
  ASSUME LateInv, [Next]_vars
  PROVE  LateInv'
<1> USE DEF LateInv
<1>1. Typed'
  BY StepsTyped
<1>2. late \subseteq late'
  BY DEF Next, Start, Advance, EarlyPreflight, Validate, ResumeDetect, Preflight,
         AcquireLock, UploadOrReuse, Assemble, CopyReportPair, PromoteDryRun,
         PromoteFixture, PromoteManifest, PromoteReadme, Write, VerifyWritten,
         EnforceAllowlist, Commit, RecordCommit, Push, RecordPush, Fetch, Poll,
         RecordLive, Refuse, Crash, PushOther, Edit, Restore, Pull, Deploy, Unlock,
         ClearValidation, outside, vars
<1>3. StagedLate(local, late') /\ StagedLate(origin, late')
  BY <1>2 DEF StagedLate
<1>4. \A l \in Launches : pc'[l] = "commit" /\ stray' = "staged" => l \in late'
  <2>1. CASE Edit
    BY <1>2, <2>1 DEF Edit
  <2>2. CASE ~Edit
    <3>1. stray' = stray \/ stray' = "none"
      BY <2>2
         DEF Next, Start, Advance, EarlyPreflight, Validate, ResumeDetect, Preflight,
             AcquireLock, UploadOrReuse, Assemble, CopyReportPair, PromoteDryRun,
             PromoteFixture, PromoteManifest, PromoteReadme, Write, VerifyWritten,
             EnforceAllowlist, Commit, RecordCommit, Push, RecordPush, Fetch, Poll,
             RecordLive, Refuse, Crash, PushOther, Restore, Pull, Deploy, Unlock,
             ClearValidation, repo, vars
    <3>2. ASSUME NEW l \in Launches, pc'[l] = "commit", pc[l] # "commit"
          PROVE  stray = "none"
      BY <3>2
         DEF Next, Start, Advance, EarlyPreflight, Validate, ResumeDetect, Preflight,
             AcquireLock, UploadOrReuse, Assemble, CopyReportPair, PromoteDryRun,
             PromoteFixture, PromoteManifest, PromoteReadme, Write, VerifyWritten,
             EnforceAllowlist, Commit, RecordCommit, Push, RecordPush, Fetch, Poll,
             RecordLive, Refuse, Crash, PushOther, Edit, Restore, Pull, Deploy, Unlock,
             ClearValidation, End, Goto, Ended, vars, Typed, TypeOK
    <3> QED
      BY <1>2, <3>1, <3>2
  <2> QED
    BY <2>1, <2>2
<1>5. StagedLate(local', late') /\ StagedLate(origin', late')
  <2>1. ASSUME NEW l \in Launches, Commit(l)
        PROVE  StagedLate(local', late') /\ StagedLate(origin', late')
    <3> DEFINE commit == [author |-> l, files |-> wt, extra |-> stray = "staged"]
    <3>1. /\ commit \in Commits /\ local \in Seq(Commits)
          /\ commit.extra => commit.author \in late'
      BY <1>2, <2>1, StampsAreLaunches DEF Commit, Commits, Typed, TypeOK
    <3>2. local' = Append(local, commit) /\ origin' = origin
      BY <2>1 DEF Commit
    <3> HIDE DEF commit
    <3> QED
      BY <1>3, <3>1, <3>2, LateAppended
  <2>2. ASSUME NEW l \in Launches, Push(l)
        PROVE  StagedLate(local', late') /\ StagedLate(origin', late')
    BY <1>3, <2>2 DEF Push
  <2>3. CASE PushOther
    <3> DEFINE commit == [author |-> Other, files |-> Last(origin).files, extra |-> FALSE]
    <3>1. commit \in Commits /\ origin \in Seq(Commits) /\ ~commit.extra
      BY LastCommit DEF Commits, Typed, TypeOK
    <3>2. origin' = Append(origin, commit) /\ local' = local
      BY <2>3 DEF PushOther
    <3> HIDE DEF commit
    <3> QED
      BY <1>3, <3>1, <3>2, LateAppended
  <2>4. CASE Pull
    BY <1>3, <2>4 DEF Pull
  <2>5. CASE UNCHANGED <<local, origin>>
    BY <1>3, <2>5
  <2> QED
    BY <2>1, <2>2, <2>3, <2>4, <2>5
       DEF Next, Start, Advance, EarlyPreflight, Validate, ResumeDetect, Preflight,
           AcquireLock, UploadOrReuse, Assemble, CopyReportPair, PromoteDryRun,
           PromoteFixture, PromoteManifest, PromoteReadme, Write, VerifyWritten,
           EnforceAllowlist, RecordCommit, RecordPush, Fetch, Poll, RecordLive, Refuse,
           Crash, Edit, Restore, Deploy, Unlock, ClearValidation, repo, vars
<1> QED
  BY <1>1, <1>4, <1>5

\* enforce_publication_allowlist keeps other files out of the commit, whenever they were
\* staged, but for those staged between it and git commit, which takes the whole index;
\* for all launches, also of several lock directories.
THEOREM NothingElseIsCommitted == Spec => []OnlyPublicationFiles
<1>1. Init => LateInv
  <2>1. ASSUME Init PROVE Published(Genesis) = {}
    BY AuthorsDiffer DEF Genesis, Published
  <2> QED
    BY <2>1, InitTyped DEF Init, LateInv, StagedLate
<1>2. LateInv /\ [Next]_vars => LateInv'
  BY LateKept
<1>3. LateInv => OnlyPublicationFiles
  BY DEF LateInv, StagedLate, OnlyPublicationFiles
<1> QED
  BY <1>1, <1>2, <1>3, PTL DEF Spec

-----------------------------------------------------------------------------
(* The remote's history implements PublishLedger.                           *)

EntryOf(commit, bases) ==
  [board |-> commit.files,
   on |-> IF commit.author \in Launches THEN AllOf(bases[commit.author])
                                         ELSE commit.files]

LedgerOf(history, bases) ==
  [i \in 1 .. Len(history) |-> EntryOf(history[i], bases)]

LEMMA LedgerSequence ==
  ASSUME NEW h \in Seq(Commits), NEW bases
  PROVE  /\ Len(LedgerOf(h, bases)) = Len(h)
         /\ \A i \in 1 .. Len(h) : LedgerOf(h, bases)[i] = EntryOf(h[i], bases)
<1>1. Len(h) \in Nat /\ DOMAIN LedgerOf(h, bases) = 1 .. Len(h)
  BY DEF LedgerOf
<1>2. LedgerOf(h, bases) \in Seq({EntryOf(h[i], bases) : i \in 1 .. Len(h)})
  BY <1>1 DEF LedgerOf
<1> QED
  BY <1>1, <1>2 DEF LedgerOf

\* A lawful history that extends another extends its ledger lawfully.
LEMMA LawfulGrowth ==
  ASSUME NEW g \in Seq(Commits), NEW h \in Seq(Commits), g # <<>>, g # h,
         IsPrefix(g, h),
         NEW bases, NEW steps, NEW uploaded, LawfulFor(h, bases, steps, uploaded)
  PROVE  /\ Ledger!IsStrictPrefix(LedgerOf(g, bases), LedgerOf(h, bases))
         /\ \A i \in Len(g) + 1 .. Len(h) : Ledger!Lawful(LedgerOf(h, bases), i)
<1> DEFINE old == LedgerOf(g, bases)
           new == LedgerOf(h, bases)
<1>1. /\ Len(g) \in Nat \ {0} /\ Len(h) \in Nat /\ Len(g) < Len(h)
      /\ \A i \in 1 .. Len(g) : g[i] = h[i]
  <2>1. Len(g) <= Len(h) /\ (\A i \in 1 .. Len(g) : g[i] = h[i])
    BY PrefixLength
  <2>2. Len(g) # Len(h)
    BY <2>1
  <2> QED
    BY <2>1, <2>2
<1>2. /\ Len(old) = Len(g) /\ Len(new) = Len(h)
      /\ \A i \in 1 .. Len(g) : old[i] = EntryOf(g[i], bases)
      /\ \A i \in 1 .. Len(h) : new[i] = EntryOf(h[i], bases)
  BY LedgerSequence
<1>3. \A commit : EntryOf(commit, bases).board = commit.files
  BY DEF EntryOf
<1> HIDE DEF old, new
<1>4. Ledger!IsStrictPrefix(old, new)
  <2>1. SubSeq(old, 1, Len(old)) = SubSeq(new, 1, Len(old))
    <3>1. \A i \in 1 .. Len(g) : old[i] = new[i]
      BY <1>1, <1>2
    <3> QED
      BY <1>1, <1>2, <3>1
  <2> QED
    BY <1>1, <1>2, <2>1 DEF Ledger!IsStrictPrefix, Ledger!IsPrefix
<1>5. ASSUME NEW i \in Len(g) + 1 .. Len(h) PROVE Ledger!Lawful(new, i)
  <2>1. /\ i \in 2 .. Len(h) /\ i \in 1 .. Len(h) /\ i - 1 \in 1 .. Len(h)
        /\ \A j \in 1 .. i - 1 : j \in 1 .. Len(h)
    BY <1>1, <1>5
  <2>2. /\ new[i] = EntryOf(h[i], bases)
        /\ new[i - 1].board = h[i - 1].files
        /\ \A j \in 1 .. i - 1 : new[j].board = h[j].files
    BY <1>2, <1>3, <2>1
  <2>3. CASE i \in Published(h)
    <3> DEFINE l == h[i].author
    <3>1. /\ l \in Launches \ DryRuns
          /\ h[i].files = AllOf(l)
          /\ bases[l] = h[i - 1].files.fixture
          /\ \A j \in 1 .. i - 1 : h[j].files.fixture # l
          /\ h[i - 1].files = AllOf(h[i - 1].files.fixture)
      BY <2>1, <2>3 DEF LawfulFor, Published
    <3>2. new[i] = [board |-> AllOf(l), on |-> h[i - 1].files]
      BY <2>2, <3>1 DEF EntryOf
    <3>3. \A j \in 1 .. i - 1 : new[j].board # AllOf(l)
      BY <2>2, <3>1, FixtureOfWhole
    <3> QED
      BY <2>2, <3>1, <3>2, <3>3 DEF Ledger!Lawful
  <2>4. CASE i \notin Published(h)
    <3>1. h[i].files = h[i - 1].files /\ h[i].author \notin Launches
      BY <2>1, <2>4 DEF LawfulFor, Published
    <3>2. new[i] = [board |-> h[i - 1].files, on |-> h[i - 1].files]
      BY <2>2, <3>1 DEF EntryOf
    <3> QED
      BY <2>2, <3>2 DEF Ledger!Lawful, Ledger!Entry
  <2> QED
    BY <2>3, <2>4
<1> QED
  BY <1>2, <1>4, <1>5 DEF old, new

LEMMA RemoteSteps ==
  ASSUME IInv, [Next]_vars
  PROVE  /\ IsPrefix(origin, origin')
         /\ LedgerOf(origin, base') = LedgerOf(origin, base)
         /\ origin' # origin => live' = live
         /\ live' = live \/ live' \in live + 1 .. Len(origin)
<1> USE DEF IInv
<1>1. \A i \in 1 .. Len(origin) :
        origin[i].author \in Launches => pc[origin[i].author] \in AfterCommit
  BY DEF Lawful, LawfulFor, Published
<1>2. IsPrefix(origin, origin)
  BY DEF IsPrefix, Typed, TypeOK
<1>3. ASSUME NEW l \in Launches, LaunchStep(l)
      PROVE  /\ IsPrefix(origin, origin') /\ live' = live
             /\ LedgerOf(origin, base') = LedgerOf(origin, base)
  <2>1. IsPrefix(origin, origin') /\ live' = live
    BY <1>3, LaunchExtends
  <2>2. \A i \in 1 .. Len(origin) : EntryOf(origin[i], base') = EntryOf(origin[i], base)
    BY <1>1, <1>3, BasesStay DEF EntryOf
  <2> QED
    BY <2>1, <2>2 DEF LedgerOf
<1>4. CASE PushOther
  BY <1>4 DEF PushOther, IsPrefix, Typed, TypeOK
<1>5. CASE Deploy
  BY <1>2, <1>5 DEF Deploy, Typed, TypeOK
<1>6. CASE Edit \/ Restore \/ Pull \/ (\E r \in Runs : Unlock(r) \/ ClearValidation(r))
  BY <1>2, <1>6 DEF Edit, Restore, Pull, Unlock, ClearValidation, repo
<1>7. CASE UNCHANGED vars
  BY <1>2, <1>7 DEF vars
<1> QED
  BY <1>3, <1>4, <1>5, <1>6, <1>7 DEF Next, LaunchStep

LEMMA MappedLedger ==
  /\ [i \in 1 .. Len(origin) |-> PublicEntry(origin[i])] = LedgerOf(origin, base)
  /\ [i \in 1 .. Len(origin) |-> PublicEntry(origin[i])]' = LedgerOf(origin', base')
BY DEF PublicEntry, LedgerOf, EntryOf

LEMMA StepsImplement ==
  ASSUME IInv, IInv', [Next]_vars
  PROVE  [Ledger!Next]_<<[i \in 1 .. Len(origin) |-> PublicEntry(origin[i])], live>>
<1> DEFINE old == LedgerOf(origin, base)
           new == LedgerOf(origin', base')
<1>1. /\ IsPrefix(origin, origin')
      /\ LedgerOf(origin, base') = old
      /\ origin' # origin => live' = live
      /\ live' = live \/ live' \in live + 1 .. Len(origin)
  BY RemoteSteps
<1>2. /\ origin \in Seq(Commits) /\ origin' \in Seq(Commits) /\ origin # <<>>
      /\ LawfulFor(origin', base', pc', ccc')
  BY DEF IInv, Typed, TypeOK, Lawful
<1>3. Len(old) = Len(origin) /\ Len(new) = Len(origin')
  BY <1>2, LedgerSequence
<1>4. CASE origin' = origin
  <2>1. new = old
    BY <1>1, <1>4
  <2> HIDE DEF old, new
  <2> QED
    BY <1>1, <1>3, <2>1, MappedLedger DEF Ledger!Next, Ledger!Deploy, old, new
<1>5. CASE origin' # origin
  <2>1. /\ Ledger!IsStrictPrefix(old, new)
        /\ \A i \in Len(old) + 1 .. Len(new) : Ledger!Lawful(new, i)
    BY <1>1, <1>2, <1>3, <1>5, LawfulGrowth
  <2> QED
    BY <1>1, <1>5, <2>1, MappedLedger DEF Ledger!Next, Ledger!Publish
<1> QED
  BY <1>4, <1>5

LEMMA InitImplements == Init => Ledger!Init
<1> SUFFICES ASSUME Init PROVE Ledger!Init
  OBVIOUS
<1>1. /\ Len(Genesis) = 1
      /\ PublicEntry(Genesis[1]) = [board |-> AllOf(Initial), on |-> AllOf(Initial)]
  BY AuthorsDiffer DEF Genesis, PublicEntry
<1>2. [i \in 1 .. Len(origin) |-> PublicEntry(origin[i])]
        = <<[board |-> AllOf(Initial), on |-> AllOf(Initial)]>>
  BY <1>1 DEF Init
<1> QED
  BY <1>2 DEF Init, Ledger!Init, Ledger!Entry

\* What readers of the site are promised holds of the whole pipeline: the public
\* history only grows, by whole and new boards that were built on the ones they
\* replace, and the site follows it; whatever is refused, lost or killed.
THEOREM PublishesALedger == ASSUME OneLock PROVE Spec => ImplementsLedger
<1>1. Init => Ledger!Init
  BY InitImplements
<1>2. IInv /\ IInv' /\ [Next]_vars
        => [Ledger!Next]_<<[i \in 1 .. Len(origin) |-> PublicEntry(origin[i])], live>>
  BY StepsImplement
<1> QED
  BY <1>1, <1>2, Invariance, PTL DEF Spec, ImplementsLedger, Ledger!Spec
-----------------------------------------------------------------------------
(* Launches without a fault: every gate is open.                            *)

\* Each launch has a run directory of its own, as the ones in MCStage9Publish
\* that run without faults: a second launch on the same directory is refused at
\* its sidecar.
RunsAreOwn == \A l, m \in Launches : RunOf[l] = RunOf[m] => l = m

BeforeStage5 == {"idle", "early", "validate"}
BeforeStage9 == BeforeStage5 \cup {"resume"}
BeforeLock == BeforeStage9 \cup {"checks", "lock"}
BeforeCommit == (BeforeLock \ {"idle"})
                  \cup {"ccc", "combine", "reportPair"} \cup HasReport
Committed == {"recordCommit", "push", "recordPush", "fetch", "poll"}
AfterPush == {"recordPush", "fetch", "poll", "recordLive"}

\* What a launch has not yet reached in its run directory is as it was made.
RunIsNew ==
  \A l \in Launches :
    /\ pc[l] \in BeforeStage5 => RunOf[l] \notin sidecars
    /\ pc[l] \in BeforeStage9 => state[RunOf[l]].done = {}
    /\ pc[l] \in BeforeLock => lock[RunOf[l]] = Nobody

\* Until it copies its report the worktree is that of HEAD, which the remote has
\* until the commit, and again from the push on.
InStep ==
  \A l \in Launches :
    /\ pc[l] # "resumeLock"
    /\ pc[l] \in {"early", "validate", "resume", "checks"} => wt = Last(local).files
    /\ pc[l] \in BeforeCommit \cup AfterPush => origin = local
    /\ pc[l] \in {"recordCommit", "push"} => IsPrefix(origin, local)
    /\ pc[l] \in Committed => wt = Last(local).files

Smoothly == stray = "none" /\ RunIsNew /\ InStep

\* The beginnings of a history are prefixes of it, and it of what an append makes.
LEMMA Beginnings ==
  ASSUME NEW h \in Seq(Commits), NEW n \in 1 .. Len(h)
  PROVE  IsPrefix(SubSeq(h, 1, n), h)
<1>1. Len(h) \in Nat /\ n \in Nat /\ n <= Len(h)
  OBVIOUS
<1>2. Len(SubSeq(h, 1, n)) = n
  BY <1>1
<1>3. SubSeq(SubSeq(h, 1, n), 1, n) = SubSeq(h, 1, n)
  BY <1>1
<1> QED
  BY <1>1, <1>2, <1>3 DEF IsPrefix

LEMMA Continued ==
  ASSUME NEW h \in Seq(Commits), NEW c \in Commits
  PROVE  IsPrefix(h, Append(h, c)) /\ Last(Append(h, c)) = c
<1>1. Len(h) \in Nat /\ Len(Append(h, c)) = Len(h) + 1
  OBVIOUS
<1>2. SubSeq(h, 1, Len(h)) = SubSeq(Append(h, c), 1, Len(h))
  BY <1>1
<1>3. Last(Append(h, c)) = c
  BY Appended, <1>1 DEF Last
<1> QED
  BY <1>1, <1>2, <1>3 DEF IsPrefix

\* A launch that has not yet committed is no author of the last board.
LEMMA NotYetPublished ==
  ASSUME IInv, NEW l \in Launches, pc[l] \notin AfterCommit
  PROVE  Last(local).files.fixture # l
<1> DEFINE n == Len(local)
<1>1. n \in 1 .. n /\ Last(local) = local[n]
  BY LastCommit DEF IInv, Typed, TypeOK
<1>2. ASSUME local[n].files.fixture = l PROVE FALSE
  <2>1. PICK j \in Published(local) : local[j].author = l
    BY <1>1, <1>2 DEF IInv, Lawful, LawfulFor
  <2> QED
    BY <2>1 DEF IInv, Lawful, LawfulFor
<1> QED
  BY <1>1, <1>2

\* The board of HEAD is bound: its manifest names its fixture.
LEMMA HeadIsBound ==
  ASSUME IInv PROVE Bound(Last(local).files)
<1> DEFINE n == Len(local)
<1>1. n \in 1 .. n /\ Last(local) = local[n]
  BY LastCommit DEF IInv, Typed, TypeOK
<1>2. local[n].files = AllOf(local[n].files.fixture)
  BY <1>1 DEF IInv, Lawful, LawfulFor
<1> QED
  BY <1>1, <1>2, FixtureOfWhole DEF Bound

\* Where the invariants hold, no gate refuses.
LEMMA GatesOpen ==
  ASSUME IInv, Smoothly PROVE NoGateRefuses
<1> SUFFICES ASSUME NEW l \in Launches
             PROVE  /\ pc[l] \in {"early", "checks"} => PreflightChecks
                    /\ pc[l] = "validate" => RunOf[l] \notin sidecars
                    /\ pc[l] = "resume" => ~CommitNotPushed(RunOf[l])
                    /\ pc[l] = "lock" => lock[RunOf[l]] = Nobody
                    /\ pc[l] = "combine" => RunOf[l] \in ccc /\ Bound(wt)
                    /\ pc[l] \in {"promoteDryRun", "fixture"} => wt.report = l
                    /\ pc[l] = "verify" => wt.fixture = l /\ wt.manifest = l
                    /\ pc[l] = "allowlist" => stray = "none"
                    /\ pc[l] = "commit" => wt # Last(local).files
                    /\ pc[l] = "push" => IsPrefix(origin, local)
                    /\ pc[l] = "fetch" => origin = local
                    /\ pc[l] = "poll" => SameFields(Last(origin).files.manifest, wt.manifest)
  BY DEF NoGateRefuses
<1>1. pc[l] \in {"early", "checks"} => PreflightChecks
  <2> SUFFICES ASSUME pc[l] \in {"early", "checks"} PROVE PreflightChecks
    OBVIOUS
  <2>1. wt = Last(local).files /\ origin = local /\ stray = "none"
    BY DEF Smoothly, InStep, BeforeCommit, BeforeLock, BeforeStage9, BeforeStage5
  <2>2. origin \in Seq(Commits) /\ tracking \in 1 .. Len(origin)
    BY DEF IInv, Typed, TypeOK
  <2>3. TrackingIsAncestor
    BY <2>1, <2>2, Beginnings DEF TrackingIsAncestor
  <2> QED
    BY <2>1, <2>3, HeadIsBound DEF PreflightChecks, Clean
<1>2. /\ pc[l] = "validate" => RunOf[l] \notin sidecars
      /\ pc[l] = "resume" => ~CommitNotPushed(RunOf[l])
      /\ pc[l] = "lock" => lock[RunOf[l]] = Nobody
  BY DEF Smoothly, RunIsNew, BeforeLock, BeforeStage9, BeforeStage5, CommitNotPushed
<1>3. pc[l] = "combine" => RunOf[l] \in ccc /\ Bound(wt)
  BY HeadIsBound DEF IInv, BuiltOnHead, ChartsUploaded
<1>4. /\ pc[l] \in {"promoteDryRun", "fixture"} => wt.report = l
      /\ pc[l] = "verify" => wt.fixture = l /\ wt.manifest = l
  BY DEF IInv, OwnFiles, HasReport, HasFixture, HasManifest, HasReadme
<1>5. pc[l] = "commit" => wt # Last(local).files
  BY NotYetPublished
     DEF IInv, OwnFiles, HasReport, HasFixture, HasManifest, HasReadme, AfterCommit, Ended
<1>6. /\ pc[l] = "allowlist" => stray = "none"
      /\ pc[l] = "push" => IsPrefix(origin, local)
      /\ pc[l] = "fetch" => origin = local
      /\ pc[l] = "poll" => SameFields(Last(origin).files.manifest, wt.manifest)
  BY DEF Smoothly, InStep, AfterPush, Committed, SameFields
<1> QED
  BY <1>1, <1>2, <1>3, <1>4, <1>5, <1>6

-----------------------------------------------------------------------------
\* A step without a fault is a step.
LEMMA SmoothIsNext == [SmoothNext]_vars => [Next]_vars
BY DEF SmoothNext, Next, Smooth

\* A step of a launch leaves the others' run directories alone.
LEMMA OthersRuns ==
  ASSUME RunsAreOwn, IInv, NEW l \in Launches, Start(l) \/ Smooth(l), NEW m \in Launches \ {l}
  PROVE  /\ RunOf[m] \notin sidecars => RunOf[m] \notin sidecars'
         /\ state'[RunOf[m]] = state[RunOf[m]]
         /\ lock[RunOf[m]] = Nobody => lock'[RunOf[m]] = Nobody
<1>1. RunOf[m] # RunOf[l] /\ RunOf[m] \in Runs /\ RunOf[l] \in Runs
  BY RunOfEveryLaunch DEF RunsAreOwn
<1>2. Start(l) \/ Advance(l)
  BY DEF Smooth
<1>3. \/ UNCHANGED sidecars
      \/ sidecars' = sidecars \cup {RunOf[l]}
  BY <1>2 DEF Start, Advance, EarlyPreflight, Validate, ResumeDetect, Preflight,
         AcquireLock, UploadOrReuse, Assemble, CopyReportPair, PromoteDryRun,
         PromoteFixture, PromoteManifest, PromoteReadme, Write, VerifyWritten,
         EnforceAllowlist, Commit, RecordCommit, Push, RecordPush, Fetch, Poll,
         RecordLive, runDirs
<1>4. \/ UNCHANGED state
      \/ \E v : state' = [state EXCEPT ![RunOf[l]] = v]
  BY <1>2 DEF Start, Advance, EarlyPreflight, Validate, ResumeDetect, Preflight,
         AcquireLock, UploadOrReuse, Assemble, CopyReportPair, PromoteDryRun,
         PromoteFixture, PromoteManifest, PromoteReadme, Write, VerifyWritten,
         EnforceAllowlist, Commit, RecordCommit, Push, RecordPush, Fetch, Poll,
         RecordLive, runDirs, Record
<1>5. \/ UNCHANGED lock
      \/ lock' = [lock EXCEPT ![RunOf[l]] = l]
      \/ lock' = [r \in Runs |-> IF lock[r] = l THEN Nobody ELSE lock[r]]
  BY <1>2 DEF Start, Advance, EarlyPreflight, Validate, ResumeDetect, Preflight,
         AcquireLock, UploadOrReuse, Assemble, CopyReportPair, PromoteDryRun,
         PromoteFixture, PromoteManifest, PromoteReadme, Write, VerifyWritten,
         EnforceAllowlist, Commit, RecordCommit, Push, RecordPush, Fetch, Poll,
         RecordLive, runDirs, End
<1> QED
  BY <1>1, <1>3, <1>4, <1>5 DEF IInv, Typed, TypeOK
\* A launch that waits for no lock and has taken none, before Stage 9 begins.
LEMMA SmoothEarly ==
  ASSUME IInv, Smoothly, NEW l \in Launches,
         \/ Start(l) /\ Clean /\ local = origin
         \/ EarlyPreflight(l) \/ Validate(l) \/ ResumeDetect(l) \/ Preflight(l)
  PROVE  /\ pc'[l] \in BeforeStage5 => RunOf[l] \notin sidecars'
         /\ pc'[l] \in BeforeStage9 => state'[RunOf[l]].done = {}
         /\ pc'[l] \in BeforeLock => lock'[RunOf[l]] = Nobody
         /\ pc'[l] \in {"early", "validate", "resume", "checks", "lock", "escaped"}
         /\ wt = Last(local).files /\ origin = local
         /\ UNCHANGED <<wt, stray, local, origin>>
<1> USE DEF IInv, Typed, TypeOK, Smoothly, RunIsNew, InStep, BeforeStage5, BeforeStage9,
            BeforeLock, BeforeCommit
<1>1. CASE Start(l) /\ Clean /\ local = origin
  BY <1>1 DEF Start, Goto, Clean, repo, runDirs
<1>2. CASE EarlyPreflight(l)
  BY <1>2 DEF EarlyPreflight, Goto, repo, runDirs
<1>3. CASE Validate(l)
  BY <1>3 DEF Validate, Goto, repo
<1>4. CASE ResumeDetect(l)
  BY <1>4 DEF ResumeDetect, CommitNotPushed, Goto, repo, runDirs
<1>5. CASE Preflight(l)
  BY <1>5 DEF Preflight, Goto, repo, runDirs
<1> QED
  BY <1>1, <1>2, <1>3, <1>4, <1>5

\* Where a launch is after a later step without a fault.
LEMMA SmoothLate ==
  ASSUME IInv, Smoothly, NEW l \in Launches, Smooth(l), pc[l] \notin BeforeLock \ {"lock"}
  PROVE  /\ pc'[l] \notin BeforeLock \cup {"resumeLock"}
         /\ pc'[l] \in BeforeCommit \cup AfterPush => origin' = local'
         /\ pc'[l] \in {"recordCommit", "push"} => IsPrefix(origin', local')
         /\ pc'[l] \in Committed => wt' = Last(local').files
         /\ stray' = "none"
<1> USE DEF IInv, Typed, TypeOK, Smoothly, InStep, BeforeStage5, BeforeStage9, BeforeLock,
            BeforeCommit, HasReport, AfterPush, Committed
<1>1. CASE \/ AcquireLock(l) \/ UploadOrReuse(l) \/ Assemble(l) \/ CopyReportPair(l)
           \/ PromoteDryRun(l) \/ PromoteFixture(l) \/ PromoteManifest(l)
           \/ PromoteReadme(l) \/ VerifyWritten(l) \/ EnforceAllowlist(l)
  <2>1. /\ UNCHANGED <<stray, local, origin>>
        /\ pc[l] \in BeforeCommit
        /\ pc'[l] \in (BeforeCommit \ BeforeLock) \cup {"dry_run_complete"}
    BY <1>1 DEF Smooth, AcquireLock, UploadOrReuse, Assemble, CopyReportPair,
       PromoteDryRun, PromoteFixture, PromoteManifest, PromoteReadme, Write,
       VerifyWritten, EnforceAllowlist, End, Goto, repo
  <2> QED
    BY <2>1
<1>2. CASE Commit(l)
  <2> DEFINE c == [author |-> l, files |-> wt, extra |-> stray = "staged"]
  <2>1. c \in Commits /\ c.files = wt
    BY StampsAreLaunches DEF Commits
  <2>2. local' = Append(local, c) /\ UNCHANGED <<wt, origin>> /\ stray' = "none"
        /\ pc'[l] = "recordCommit" /\ origin = local
    BY <1>2 DEF Commit, Goto
  <2> HIDE DEF c
  <2>3. IsPrefix(local, Append(local, c))
    BY <2>1, Continued
  <2>4. Last(Append(local, c)) = c
    BY <2>1, Continued
  <2> QED
    BY <2>1, <2>2, <2>3, <2>4
<1>3. CASE RecordCommit(l)
  BY <1>3 DEF RecordCommit, Goto, repo
<1>4. CASE Push(l)
  BY <1>4 DEF Smooth, Push, End, Goto
<1>5. CASE RecordPush(l) \/ Poll(l)
  BY <1>5 DEF RecordPush, Poll, Goto, repo
<1>6. CASE Fetch(l)
  BY <1>6 DEF Smooth, Fetch, End, Goto
<1>7. CASE RecordLive(l)
  BY <1>7 DEF RecordLive, End, Goto, repo
<1>8. ~(EarlyPreflight(l) \/ Validate(l) \/ ResumeDetect(l) \/ Preflight(l))
  BY DEF EarlyPreflight, Validate, ResumeDetect, Preflight
<1> QED
  BY <1>1, <1>2, <1>3, <1>4, <1>5, <1>6, <1>7, <1>8 DEF Smooth, Advance

LEMMA SmoothLaunch ==
  ASSUME OneLock, RunsAreOwn, IInv, Smoothly, NEW l \in Launches,
         (Start(l) /\ Clean /\ local = origin) \/ Smooth(l)
  PROVE  Smoothly'
<1>1. LaunchStep(l) /\ (Start(l) \/ Smooth(l))
  BY DEF LaunchStep, Smooth
<1>2. ASSUME NEW m \in Launches \ {l}
      PROVE  pc'[m] = pc[m] /\ ~Running(m)
  BY <1>1, OneMoves, OneRuns DEF IInv
<1>3. /\ pc'[l] \in BeforeStage5 => RunOf[l] \notin sidecars'
      /\ pc'[l] \in BeforeStage9 => state'[RunOf[l]].done = {}
      /\ pc'[l] \in BeforeLock => lock'[RunOf[l]] = Nobody
      /\ pc'[l] # "resumeLock"
      /\ pc'[l] \in {"early", "validate", "resume", "checks"} => wt' = Last(local').files
      /\ pc'[l] \in BeforeCommit \cup AfterPush => origin' = local'
      /\ pc'[l] \in {"recordCommit", "push"} => IsPrefix(origin', local')
      /\ pc'[l] \in Committed => wt' = Last(local').files
      /\ stray' = "none"
  <2>1. CASE \/ Start(l) /\ Clean /\ local = origin
             \/ EarlyPreflight(l) \/ Validate(l) \/ ResumeDetect(l) \/ Preflight(l)
    BY <2>1, SmoothEarly DEF Smoothly, Committed
  <2>2. CASE Smooth(l) /\ ~(EarlyPreflight(l) \/ Validate(l) \/ ResumeDetect(l) \/ Preflight(l))
    <3>1. pc[l] \notin BeforeLock \ {"lock"}
      BY <2>2 DEF Smooth, Advance, AcquireLock, UploadOrReuse, Assemble, CopyReportPair,
         PromoteDryRun, PromoteFixture, PromoteManifest, PromoteReadme, Write,
         VerifyWritten, EnforceAllowlist, Commit, RecordCommit, Push, RecordPush, Fetch,
         Poll, RecordLive, BeforeStage5, BeforeStage9, BeforeLock
    <3> QED
      BY <2>2, <3>1, SmoothLate DEF BeforeStage5, BeforeStage9, BeforeLock
  <2> QED
    BY <2>1, <2>2
<1>4. RunIsNew'
  <2> SUFFICES ASSUME NEW m \in Launches
               PROVE  /\ pc'[m] \in BeforeStage5 => RunOf[m] \notin sidecars'
                      /\ pc'[m] \in BeforeStage9 => state'[RunOf[m]].done = {}
                      /\ pc'[m] \in BeforeLock => lock'[RunOf[m]] = Nobody
    BY DEF RunIsNew
  <2>1. CASE m # l
    <3>1. m \in Launches \ {l}
      BY <2>1
    <3> QED
      BY <1>1, <1>2, <3>1, OthersRuns DEF Smoothly, RunIsNew
  <2> QED
    BY <1>3, <2>1
<1>5. InStep'
  <2> SUFFICES ASSUME NEW m \in Launches, m # l
               PROVE  /\ pc'[m] \notin {"resumeLock", "early", "validate", "resume", "checks"}
                      /\ pc'[m] \notin BeforeCommit \cup AfterPush
                      /\ pc'[m] \notin Committed
    BY <1>3 DEF InStep, Committed
  <2> QED
    BY <1>2 DEF Running, Working, BeforeStage5, BeforeStage9, BeforeLock, BeforeCommit,
       HasReport, AfterPush, Committed
<1> QED
  BY <1>3, <1>4, <1>5 DEF Smoothly

\* The operator's restore and the site's deployment disturb no launch.
LEMMA SmoothAround ==
  ASSUME IInv, Smoothly, Restore \/ Deploy \/ UNCHANGED vars
  PROVE  Smoothly'
<1>1. CASE Restore
  <2>1. \A l \in Launches : pc[l] \in Ended \cup {"idle"}
    BY <1>1 DEF Restore, NothingRuns, Running, IInv, Typed, TypeOK
  <2>2. UNCHANGED <<pc, sidecars, state, lock>> /\ stray' = "none"
    BY <1>1 DEF Restore, runDirs
  <2> QED
    BY <2>1, <2>2 DEF Smoothly, RunIsNew, InStep, BeforeStage5, BeforeStage9, BeforeLock,
       BeforeCommit, HasReport, AfterPush, Committed, Ended
<1>2. CASE Deploy \/ UNCHANGED vars
  <2>1. UNCHANGED <<pc, sidecars, state, lock, wt, stray, local, origin>>
    BY <1>2 DEF Deploy, vars, runDirs
  <2> QED
    BY <2>1 DEF Smoothly, RunIsNew, InStep
<1> QED
  BY <1>1, <1>2

LEMMA SmoothInit == Init => Smoothly
<1> SUFFICES ASSUME Init PROVE Smoothly
  OBVIOUS
<1>1. /\ \A l \in Launches : pc[l] = "idle"
      /\ stray = "none" /\ sidecars = {}
      /\ state = [r \in Runs |-> NoState] /\ lock = [r \in Runs |-> Nobody]
  BY DEF Init
<1> QED
  BY <1>1, RunOfEveryLaunch
     DEF Smoothly, RunIsNew, InStep, NoState, BeforeStage5, BeforeStage9, BeforeLock,
         BeforeCommit, HasReport, AfterPush, Committed

LEMMA SmoothSteps ==
  ASSUME OneLock, RunsAreOwn, IInv, Smoothly, [SmoothNext]_vars
  PROVE  IInv' /\ Smoothly'
<1>1. IInv'
  BY SmoothIsNext, StepsKeep
<1>2. Smoothly'
  BY SmoothLaunch, SmoothAround DEF SmoothNext
<1> QED
  BY <1>1, <1>2

\* Without a fault no gate of run_stage9_publish refuses a launch whose run
\* directory is its own and whose operator starts it, as the instructions ask, on
\* a clean worktree at origin/main: what its earlier steps wrote, and what the
\* launches before it left, is what each gate asks for.
THEOREM NoGateIsInTheWay ==
  ASSUME OneLock, RunsAreOwn PROVE SmoothSpec => []NoGateRefuses
<1>1. Init => IInv /\ Smoothly
  BY InitKeeps, SmoothInit
<1>2. (IInv /\ Smoothly) /\ [SmoothNext]_vars => (IInv /\ Smoothly)'
  BY SmoothSteps
<1>3. IInv /\ Smoothly => NoGateRefuses
  BY GatesOpen
<1> QED
  BY <1>1, <1>2, <1>3, PTL DEF SmoothSpec
=============================================================================
