---------------------------- MODULE Stage9Publish ---------------------------
(***************************************************************************)
(* The Stage 9 publish transaction (stage9_publish.py and the promotion it *)
(* calls) on one git repository, for every launch an operator or the       *)
(* scheduler makes of Build-and-Rank and Re-Rank.                          *)
(*                                                                         *)
(* A launch assembles a candidate board from the prior board and its fresh *)
(* rows, copies the report pair and the promoted fixture, manifest and     *)
(* README into the worktree, commits them, pushes the commit and waits for *)
(* the site to serve it.  It may be refused at every step (git, network,   *)
(* file system or gate), it may be killed at every step, and a relaunch on *)
(* the same run directory resumes at the push when the state file says so  *)
(* and the relaunch gets as far: Stage 5 comes first, and refuses a run    *)
(* directory that already holds its validation sidecar.                    *)
(*                                                                         *)
(* The content of a publication file is abstracted to the launch that      *)
(* wrote it, a commit to its author and its files, and a commit id to the  *)
(* whole history that ends with it.                                        *)
(***************************************************************************)
EXTENDS Integers, FiniteSets, Sequences, SequencesExt

CONSTANTS
  Launches,      \* the processes that run Stage 9, each of them once
  Runs,          \* run directories; run_id is the directory's name
  RunOf,         \* the run directory of each launch
  LockDir,       \* the directory that holds the .crunch.lock of each run
  DryRuns,       \* the launches with dry_run (rerank_driver --publish-dry-run)
  BuildAndRank,  \* those that check the repository before they compute too
  Initial,       \* the author of the board the repository starts with
  Other,         \* the author of commits that do not publish
  Nobody,        \* the free value of the Stage 9 lock
  MaxOutside,    \* bound: commits pushed to origin by somebody else, and
                 \* changes that a developer leaves in the worktree
  MaxKills       \* bound: launches that are killed

ASSUME RunOfEveryLaunch == RunOf \in [Launches -> Runs]
ASSUME LaunchKinds == DryRuns \subseteq Launches /\ BuildAndRank \subseteq Launches
\* Only crunch_rebuild_orchestrator.py takes --run-dir, and it has no dry_run
\* launch of Stage 9; rerank_driver.py names each run by its starting time.
ASSUME SharedRunsAreBuildAndRank ==
  \A l, m \in Launches : l # m /\ RunOf[l] = RunOf[m]
                         => {l, m} \subseteq BuildAndRank \ DryRuns
ASSUME AuthorsDiffer == /\ Initial \notin Launches
                        /\ Other \notin Launches
                        /\ Nobody \notin Launches
                        /\ Initial # Other
ASSUME BoundsAreNumbers == MaxOutside \in Nat /\ MaxKills \in Nat

VARIABLES
  pc,        \* the step each launch is at
  base,      \* the prior fixture that a launch's candidate was combined with
  wt,        \* the publication files in the worktree
  stray,     \* another change in the worktree: "none", "edited" or "staged"
  local,     \* the history of HEAD (branch main)
  origin,    \* the history of main at the remote
  tracking,  \* how much of origin the ref refs/remotes/origin/main knows
  live,      \* how much of origin the site has deployed
  state,     \* publish_state.json of each run directory
  sidecars,  \* the runs whose publish_candidate/validation/validation.json
             \* exists
  ccc,       \* the runs whose fresh_ccc_records.json passes its gate
  lock,      \* .stage9_publish.lock of each run directory
  others,    \* commits pushed by somebody else so far
  edits,     \* worktree changes made by a developer so far
  late       \* ghost: the launches that were between their allowlist check
             \* and their git commit when a developer staged a file

vars == <<pc, base, wt, stray, local, origin, tracking, live, state,
          sidecars, ccc, lock, others, edits, late>>
repo == <<wt, stray, local, origin, tracking, live>>
runDirs == <<state, sidecars, ccc>>
outside == <<others, edits, late>>

Files == {"fixture", "manifest", "readme", "report"}
Stamps == Launches \cup {Initial}
Trees == [Files -> Stamps]
Commits == [author : Stamps \cup {Other}, files : Trees, extra : BOOLEAN]
Recorded == {"commit_created", "push_ok", "live_manifest_verified"}
NoState == [done |-> {}, commit |-> <<>>]

AllOf(stamp) == [f \in Files |-> stamp]
Genesis == <<[author |-> Initial, files |-> AllOf(Initial), extra |-> FALSE]>>

Working == {"early", "validate", "resume", "resumeLock", "checks", "lock", "ccc",
            "combine", "reportPair", "promoteDryRun", "fixture", "manifest",
            "readme", "verify", "allowlist", "commit", "recordCommit",
            "push", "recordPush", "fetch", "poll", "recordLive"}
Ended == {"published", "dry_run_complete", "refused", "escaped", "dead"}

Running(l) == pc[l] \in Working
NothingRuns == \A l \in Launches : ~Running(l)

Init == /\ pc = [l \in Launches |-> "idle"]
        /\ base = [l \in Launches |-> Initial]
        /\ wt = AllOf(Initial)
        /\ stray = "none"
        /\ local = Genesis /\ origin = Genesis
        /\ tracking = 1 /\ live = 1
        /\ state = [r \in Runs |-> NoState]
        /\ sidecars = {} /\ ccc = {}
        /\ lock = [r \in Runs |-> Nobody]
        /\ others = 0 /\ edits = 0 /\ late = {}

-----------------------------------------------------------------------------
(* What git and the state file answer.                                      *)

\* git status --porcelain prints nothing.
Clean == wt = Last(local).files /\ stray = "none"

\* git merge-base --is-ancestor origin/main HEAD, for the ref as last fetched.
TrackingIsAncestor == IsPrefix(SubSeq(origin, 1, tracking), local)

\* The manifest names the fixture's SHA: both were written by one promotion.
Bound(files) == files.manifest = files.fixture

\* Faulty variants: the preflight does not look at the worktree; the resume
\* does not compare HEAD with the recorded commit.
PreflightOfDirtyTree == TrackingIsAncestor /\ Bound(wt)
AtCleanWorktree(r) == Clean

\* verify_publish_preflight up to the lock, for a launch that has the
\* operator's approval and the Blob token.
PreflightChecks == Clean /\ TrackingIsAncestor /\ Bound(wt)

\* publish_state.json says that the commit was created and not pushed.
CommitNotPushed(r) == /\ "commit_created" \in state[r].done
                      /\ "push_ok" \notin state[r].done

\* HEAD is the recorded commit and the worktree is exactly its files.
AtRecordedCommit(r) == local = state[r].commit /\ Clean

\* The fields compared (run id, SHA, counts, report, chart storage) may well be
\* the same for two promotions of one run; otherwise they differ.
SameFields(a, b) == \/ a = b
                    \/ {a, b} \subseteq Launches /\ RunOf[a] = RunOf[b]

-----------------------------------------------------------------------------
(* A step of a launch: it moves to the next step, or the launch ends and    *)
(* the finally block unlinks the lock if this launch acquired it.  An       *)
(* OSError of the unlink is swallowed, and then the file stays.             *)

Goto(l, step) == pc' = [pc EXCEPT ![l] = step]

End(l, outcome) ==
  /\ Goto(l, outcome)
  /\ \/ lock' = [r \in Runs |-> IF lock[r] = l THEN Nobody ELSE lock[r]]
     \/ UNCHANGED lock

\* _record_state: add a completed state; with a commit, its fields as well.
Record(l, done, commit) ==
  state' = [state EXCEPT ![RunOf[l]] =
              [done |-> @.done \cup {done}, commit |-> commit]]

-----------------------------------------------------------------------------
(* Faulty variants of the operations below: what the properties would catch. *)

\* The README is not generated again.
PromoteNoReadme(l) == /\ pc[l] = "readme"
                      /\ Goto(l, "verify")
                      /\ UNCHANGED <<base, repo, runDirs, lock, outside>>

\* The dry-run gate falls through to the promote write.
PromoteAlways(l) == /\ pc[l] = "promoteDryRun"
                    /\ wt.report = l
                    /\ Goto(l, "fixture")
                    /\ UNCHANGED <<base, repo, runDirs, lock, outside>>

\* git commit without the allowlist check.
EnforceNothing(l) == /\ pc[l] = "allowlist"
                     /\ Goto(l, "commit")
                     /\ UNCHANGED <<base, repo, runDirs, lock, outside>>

\* git push --force.
PushForced(l) ==
  /\ pc[l] = "push"
  /\ origin' = local
  /\ tracking' = Len(local) /\ Goto(l, "recordPush")
  /\ UNCHANGED <<base, wt, stray, local, live, runDirs, lock, outside>>

\* The exit code of git push is not looked at.
PushUnchecked(l) ==
  /\ pc[l] = "push"
  /\ origin' = IF IsPrefix(origin, local) THEN local ELSE origin
  /\ tracking' = Len(local) /\ Goto(l, "recordPush")
  /\ UNCHANGED <<base, wt, stray, local, live, runDirs, lock, outside>>

\* The poll accepts any manifest, or compares the site with the prior one.
PollAnything(l) == /\ pc[l] = "poll"
                   /\ Goto(l, "recordLive")
                   /\ UNCHANGED <<base, repo, runDirs, lock, outside>>

PollPrior(l) == /\ pc[l] = "poll"
                /\ SameFields(origin[live].files.manifest, base[l])
                /\ Goto(l, "recordLive")
                /\ UNCHANGED <<base, repo, runDirs, lock, outside>>

-----------------------------------------------------------------------------
\* A launch starts when it has the crunch lock of its directory.
Start(l) ==
  /\ pc[l] = "idle"
  /\ \A m \in Launches : Running(m) => LockDir[RunOf[m]] # LockDir[RunOf[l]]
  /\ Goto(l, IF l \in BuildAndRank THEN "early" ELSE "validate")
  /\ UNCHANGED <<base, repo, runDirs, lock, outside>>

\* _stage9_preflight, before Stage 1: the checks without the lock.
EarlyPreflight(l) ==
  /\ pc[l] = "early"
  /\ PreflightChecks
  /\ Goto(l, "validate")
  /\ UNCHANGED <<base, repo, runDirs, lock, outside>>

\* Stage 5 of run_rerank_publish, before Stage 9: the validator of make_publish_
\* seams and of the orchestrator writes validation.json and never overwrites
\* one.  Its FileExistsError is no CrunchError: it leaves the orchestrator
\* without a refusal.
Validate(l) ==
  /\ pc[l] = "validate"
  /\ sidecars' = sidecars \cup {RunOf[l]}
  /\ Goto(l, IF RunOf[l] \in sidecars THEN "escaped" ELSE "resume")
  /\ UNCHANGED <<base, repo, state, ccc, lock, outside>>

\* _resume_commit_not_pushed: read before any lock is taken.
ResumeDetect(l) ==
  /\ pc[l] = "resume"
  /\ IF CommitNotPushed(RunOf[l])
       THEN AtRecordedCommit(RunOf[l]) /\ Goto(l, "resumeLock")
       ELSE Goto(l, "checks")
  /\ UNCHANGED <<base, repo, runDirs, lock, outside>>

Preflight(l) ==
  /\ pc[l] = "checks"
  /\ PreflightChecks
  /\ Goto(l, "lock")
  /\ UNCHANGED <<base, repo, runDirs, lock, outside>>

\* acquire_stage9_lock: O_CREAT|O_EXCL, never reclaimed.  When its content
\* cannot be written the launch is refused, and the finally block does not
\* know of the file.
AcquireLock(l) ==
  /\ pc[l] \in {"lock", "resumeLock"}
  /\ lock[RunOf[l]] = Nobody
  /\ lock' = [lock EXCEPT ![RunOf[l]] = l]
  /\ \/ Goto(l, IF pc[l] = "lock" THEN "ccc" ELSE "push")
     \/ Goto(l, "refused")
  /\ UNCHANGED <<base, repo, runDirs, outside>>

\* upload_or_reuse_fresh_ccc: reuse the run's records or upload and verify.
UploadOrReuse(l) ==
  /\ pc[l] = "ccc"
  /\ ccc' = ccc \cup {RunOf[l]}
  /\ Goto(l, "combine")
  /\ UNCHANGED <<base, repo, state, sidecars, lock, outside>>

\* assemble_candidate: the rows that are not fresh come from the prior board,
\* whose fixture must match its promotion manifest.
Assemble(l) ==
  /\ pc[l] = "combine"
  /\ RunOf[l] \in ccc /\ Bound(wt)
  /\ base' = [base EXCEPT ![l] = wt.fixture]
  /\ Goto(l, "reportPair")
  /\ UNCHANGED <<repo, runDirs, lock, outside>>

\* One publication file is replaced by the candidate's.
Write(l, step, file, next) ==
  /\ pc[l] = step
  /\ wt' = [wt EXCEPT ![file] = l]
  /\ Goto(l, next)
  /\ UNCHANGED <<base, stray, local, origin, tracking, live, runDirs, lock,
                 outside>>

\* A faulty variant: the report stays in the run directory.
CopyNothing(l) == /\ pc[l] = "reportPair"
                  /\ Goto(l, "promoteDryRun")
                  /\ UNCHANGED <<base, repo, runDirs, lock, outside>>

CopyReportPair(l) == Write(l, "reportPair", "report", "promoteDryRun")

\* run_promote_dry_run: the candidate binds the report in the worktree.  A dry
\* run is complete here.
PromoteDryRun(l) ==
  /\ pc[l] = "promoteDryRun"
  /\ wt.report = l
  /\ IF l \in DryRuns THEN End(l, "dry_run_complete")
                      ELSE Goto(l, "fixture") /\ UNCHANGED lock
  /\ UNCHANGED <<base, repo, runDirs, outside>>

\* run_promote_write: promote() verifies the report again, then replaces the
\* fixture, the manifest and the README one after the other.
PromoteFixture(l) == wt.report = l /\ Write(l, "fixture", "fixture", "manifest")
PromoteManifest(l) == Write(l, "manifest", "manifest", "readme")
PromoteReadme(l) == Write(l, "readme", "readme", "verify")

\* verify_promote_write_outputs: the fixture and the manifest are this run's.
VerifyWritten(l) ==
  /\ pc[l] = "verify"
  /\ wt.fixture = l /\ wt.manifest = l
  /\ Goto(l, "allowlist")
  /\ UNCHANGED <<base, repo, runDirs, lock, outside>>

\* enforce_publication_allowlist: nothing else is changed in the worktree.
EnforceAllowlist(l) ==
  /\ pc[l] = "allowlist"
  /\ stray = "none"
  /\ Goto(l, "commit")
  /\ UNCHANGED <<base, repo, runDirs, lock, outside>>

\* git add of the allowlist and git commit of the index, in the files' state
\* at that time; git refuses an empty commit.
Commit(l) ==
  /\ pc[l] = "commit"
  /\ wt # Last(local).files \/ stray = "staged"
  /\ local' = Append(local, [author |-> l, files |-> wt,
                             extra |-> stray = "staged"])
  /\ stray' = IF stray = "staged" THEN "none" ELSE stray
  /\ Goto(l, "recordCommit")
  /\ UNCHANGED <<base, wt, origin, tracking, live, runDirs, lock, outside>>

\* git rev-parse HEAD, then _record_state("commit_created", commit_sha=...).
RecordCommit(l) ==
  /\ pc[l] = "recordCommit"
  /\ Record(l, "commit_created", local)
  /\ Goto(l, "push")
  /\ UNCHANGED <<base, repo, sidecars, ccc, lock, outside>>

\* git push origin main: the remote takes a fast-forward.  The answer may be
\* lost on the way back, and then the push counts as failed.
Push(l) ==
  /\ pc[l] = "push"
  /\ IsPrefix(origin, local)
  /\ origin' = local
  /\ \/ tracking' = Len(local) /\ Goto(l, "recordPush") /\ UNCHANGED lock
     \/ End(l, "refused") /\ UNCHANGED tracking
  /\ UNCHANGED <<base, wt, stray, local, live, runDirs, outside>>

RecordPush(l) ==
  /\ pc[l] = "recordPush"
  /\ Record(l, "push_ok", state[RunOf[l]].commit)
  /\ Goto(l, "fetch")
  /\ UNCHANGED <<base, repo, sidecars, ccc, lock, outside>>

\* verify_live_manifest: git fetch, then origin/main must be HEAD.
Fetch(l) ==
  /\ pc[l] = "fetch"
  /\ tracking' = Len(origin)
  /\ IF origin = local THEN Goto(l, "poll") /\ UNCHANGED lock
                       ELSE End(l, "refused")
  /\ UNCHANGED <<base, wt, stray, local, origin, live, runDirs, outside>>

\* The poll of the live manifest against the one in the worktree matches.
Poll(l) ==
  /\ pc[l] = "poll"
  /\ SameFields(origin[live].files.manifest, wt.manifest)
  /\ Goto(l, "recordLive")
  /\ UNCHANGED <<base, repo, runDirs, lock, outside>>

RecordLive(l) ==
  /\ pc[l] = "recordLive"
  /\ Record(l, "live_manifest_verified", state[RunOf[l]].commit)
  /\ End(l, "published")
  /\ UNCHANGED <<base, repo, sidecars, ccc, outside>>

\* _refuse: a gate does not hold, or git, the network or the file system
\* fails.  It is possible at every step, and undoes nothing.
Refuse(l) == /\ Running(l)
             /\ End(l, "refused")
             /\ UNCHANGED <<base, repo, runDirs, outside>>

\* The process is killed or the machine stops: its lock file stays.
Crash(l) == /\ Running(l)
            /\ Cardinality({m \in Launches : pc[m] = "dead"}) < MaxKills
            /\ Goto(l, "dead")
            /\ UNCHANGED <<base, repo, runDirs, lock, outside>>

-----------------------------------------------------------------------------
(* What happens around the launches.                                        *)

\* Somebody else pushes a commit that touches no publication file.
PushOther ==
  /\ others + edits < MaxOutside
  /\ others' = others + 1
  /\ origin' = Append(origin, [author |-> Other, files |-> Last(origin).files,
                               extra |-> FALSE])
  /\ UNCHANGED <<pc, base, wt, stray, local, tracking, live, runDirs, lock,
                 edits, late>>

\* A developer changes a file outside the publication, and may stage it, at any
\* time; git commit takes the whole index, whenever it was filled.
Edit ==
  /\ others + edits < MaxOutside
  /\ edits' = edits + 1
  /\ stray' \in {"edited", "staged"}
  /\ late' = IF stray' = "staged" THEN late \cup {l \in Launches : pc[l] = "commit"}
                                  ELSE late
  /\ UNCHANGED <<pc, base, wt, local, origin, tracking, live, runDirs, lock,
                 others>>

\* The operator's git, between launches: restore the worktree to HEAD.
Restore ==
  /\ NothingRuns /\ ~Clean
  /\ wt' = Last(local).files /\ stray' = "none"
  /\ UNCHANGED <<pc, base, local, origin, tracking, live, runDirs, lock,
                 outside>>

\* git pull of a branch that has no commits of its own.
Pull ==
  /\ NothingRuns /\ Clean
  /\ IsPrefix(local, origin)
  /\ local' = origin /\ wt' = Last(origin).files /\ tracking' = Len(origin)
  /\ local' # local \/ tracking' # tracking
  /\ UNCHANGED <<pc, base, stray, origin, live, runDirs, lock, outside>>

\* The operator removes a Stage 9 lock that was left behind.
Unlock(r) ==
  /\ NothingRuns /\ lock[r] # Nobody
  /\ lock' = [lock EXCEPT ![r] = Nobody]
  /\ UNCHANGED <<pc, base, repo, runDirs, outside>>

\* The operator moves a run's earlier validation output out of the way, without
\* which no relaunch on its directory comes past Stage 5.
ClearValidation(r) ==
  /\ NothingRuns /\ r \in sidecars
  /\ sidecars' = sidecars \ {r}
  /\ UNCHANGED <<pc, base, repo, state, ccc, lock, outside>>

\* The hosting service deploys what origin holds.
Deploy ==
  /\ live < Len(origin)
  /\ live' = Len(origin)
  /\ UNCHANGED <<pc, base, wt, stray, local, origin, tracking, runDirs,
                 lock, outside>>

-----------------------------------------------------------------------------
Advance(l) ==
  \/ EarlyPreflight(l) \/ Validate(l) \/ ResumeDetect(l) \/ Preflight(l)
  \/ AcquireLock(l) \/ UploadOrReuse(l) \/ Assemble(l) \/ CopyReportPair(l) \/ PromoteDryRun(l)
  \/ PromoteFixture(l) \/ PromoteManifest(l) \/ PromoteReadme(l)
  \/ VerifyWritten(l) \/ EnforceAllowlist(l) \/ Commit(l) \/ RecordCommit(l)
  \/ Push(l) \/ RecordPush(l) \/ Fetch(l) \/ Poll(l) \/ RecordLive(l)

Next ==
  \/ \E l \in Launches : Start(l) \/ Advance(l) \/ Refuse(l) \/ Crash(l)
  \/ PushOther \/ Edit \/ Restore \/ Pull \/ Deploy
  \/ \E r \in Runs : Unlock(r) \/ ClearValidation(r)

Spec == Init /\ [][Next]_vars

(* The same launches when nothing fails: each is started as the operating   *)
(* instructions ask, on a clean worktree at origin/main, every call returns *)
(* what the program hopes for, and the site deploys what is pushed.         *)
Smooth(l) == Advance(l) /\ pc'[l] # "refused"
             /\ (pc'[l] \notin Working => \A r \in Runs : lock'[r] # l)

SmoothNext == \/ \E l \in Launches : \/ Start(l) /\ Clean /\ local = origin
                                     \/ Smooth(l)
              \/ Restore \/ Deploy

SmoothSpec == /\ Init /\ [][SmoothNext]_vars
              /\ \A l \in Launches : WF_vars(Smooth(l))
              /\ WF_vars(Deploy)

-----------------------------------------------------------------------------
\* Types of the variables and no more: a publication tree in the worktree or in a
\* commit may mix the files of several launches.
TypeOK == /\ pc \in [Launches -> Working \cup Ended \cup {"idle"}]
          /\ base \in [Launches -> Stamps]
          /\ wt \in Trees
          /\ stray \in {"none", "edited", "staged"}
          /\ local \in Seq(Commits) /\ origin \in Seq(Commits)
          /\ tracking \in 1 .. Len(origin) /\ live \in 1 .. Len(origin)
          /\ state \in [Runs -> [done : SUBSET Recorded, commit : Seq(Commits)]]
          /\ sidecars \in SUBSET Runs /\ ccc \in SUBSET Runs
          /\ lock \in [Runs -> Launches \cup {Nobody}]
          /\ others \in 0 .. MaxOutside /\ edits \in 0 .. MaxOutside
          /\ late \subseteq Launches

Published(history) == {i \in 1 .. Len(history) : history[i].author \in Launches}

\* No torn board is ever committed, nor therefore pushed: the fixture, the
\* manifest, the README and the report of a publication commit were all
\* written by the launch that commits, whatever was refused or killed before.
UntornBoards ==
  \A i \in Published(local) : local[i].files = AllOf(local[i].author)

\* A board is combined with the board it replaces: the rows that a run carries
\* over are those of the previous commit, so no run's rows are lost.
NoLostUpdate ==
  \A i \in Published(local) : base[local[i].author] = local[i - 1].files.fixture

\* The commit holds the publication files and nothing else: what a developer has
\* staged at any other time, before the launch or during it, the preflight and the
\* allowlist keep out.  The one way in is the window they leave open: a file that
\* is staged after this launch's allowlist check and before its git commit.
OnlyPublicationFiles ==
  \A i \in Published(local) : local[i].extra => local[i].author \in late

\* Only commits that passed every gate reach the remote: no dry run's, and
\* none of a run whose chart records were not uploaded and verified.
OnlyGatedBoardsArePublic ==
  \A i \in Published(origin) : /\ origin[i].author \notin DryRuns
                               /\ RunOf[origin[i].author] \in ccc

\* A push, also a resumed one, pushes the commit that the run recorded and
\* nothing on top of it.
PushesRecordedCommit ==
  \A l \in Launches : pc[l] = "push" => local = state[RunOf[l]].commit

\* live_manifest_verified is recorded, and published reported, only after the
\* site deployed a board of that run.
VerifiedWasServed ==
  \A r \in Runs :
    "live_manifest_verified" \in state[r].done
      => \E i \in Published(origin) : i <= live /\ RunOf[origin[i].author] = r

\* Without a fault every gate is open when a launch gets there: what one step of
\* the launch leaves behind, and what earlier launches left, is what the next
\* gate asks for, so that only waiting for the site can hold a launch up.
NoGateRefuses ==
  \A l \in Launches :
    /\ pc[l] \in {"early", "checks"} => PreflightChecks
    /\ pc[l] = "validate" => RunOf[l] \notin sidecars
    /\ pc[l] = "resume" => ~CommitNotPushed(RunOf[l])
    /\ pc[l] = "lock" => lock[RunOf[l]] = Nobody
    /\ pc[l] = "combine" => RunOf[l] \in ccc /\ Bound(wt)
    /\ pc[l] \in {"promoteDryRun", "fixture"} => wt.report = l
    /\ pc[l] = "verify" => wt.fixture = l /\ wt.manifest = l
    /\ pc[l] = "allowlist" => stray = "none"
    /\ pc[l] = "commit" => wt # Last(local).files
    /\ pc[l] = "push" => IsPrefix(origin, local)
    /\ pc[l] = "fetch" => origin = local
    /\ pc[l] = "poll" => SameFields(Last(origin).files.manifest, wt.manifest)

\* Without a fault every launch completes: the gates refuse no launch, of the
\* same or of another run directory, that finds the repository in order.
EveryLaunchCompletes ==
  \A l \in Launches :
    Running(l) ~> pc[l] \in {"published", "dry_run_complete"}

-----------------------------------------------------------------------------
(* The remote's history as the ledger of PublishLedger: what an entry makes *)
(* public is its four files, and it was built on the board whose fixture    *)
(* its launch combined.                                                     *)
PublicEntry(commit) ==
  [board |-> commit.files,
   on |-> IF commit.author \in Launches THEN AllOf(base[commit.author])
                                         ELSE commit.files]

Ledger == INSTANCE PublishLedger
            WITH Boards <- {AllOf(l) : l \in Launches \ DryRuns},
                 First <- AllOf(Initial),
                 ledger <- [i \in 1 .. Len(origin) |-> PublicEntry(origin[i])],
                 served <- live

\* The public history is that of PublishLedger: it only grows, by whole
\* boards built on the ones that they replace, and the site follows it.
ImplementsLedger == Ledger!Spec

-----------------------------------------------------------------------------
(* What the operating instructions and the code's comments say, and the     *)
(* program does not keep.                                                   *)

\* "Mid-Stage-9 failures never require operator git": when no launch was
\* killed and nobody edited, the worktree is clean for the next launch.
OperatorGitNeverNeeded ==
  (edits = 0 /\ \A l \in Launches : ~Running(l) /\ pc[l] # "dead") => Clean

\* "Stage 9 preflight refuses ... a diverged origin": a launch that passed the
\* checks did not have a history that the remote has left.
PreflightRefusesDiverged ==
  [][\A l \in Launches :
       pc[l] = "checks" /\ pc'[l] = "lock"
         => IsPrefix(origin, local) \/ IsPrefix(local, origin)]_vars

\* "Post-commit, pre-push ... resumes at PUSH ONLY -- never a second commit":
\* no launch commits while an earlier publication is still to be pushed.
NeverASecondCommit ==
  [][\A l \in Launches : pc[l] = "commit" /\ local' # local
       => \A i \in Published(local) : i \in 1 .. Len(origin)]_vars

\* "relaunch and let the resume validate": a relaunch on the directory of a run
\* whose recorded commit is to be pushed gets as far as the resume.
RelaunchReachesResume ==
  [][\A l \in Launches : pc[l] = "validate" /\ pc'[l] = "escaped"
       => ~CommitNotPushed(RunOf[l])]_vars
=============================================================================
