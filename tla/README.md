# Verification of the publication chain of prjct9

This directory holds TLA+ models of the programs under `src/project` that end in a
public ranking board, the TLC configurations that check the models on small
instances, and proofs, checked by TLAPS, of what the checks can only show for those
instances. It is written for someone who has the repository at hand; every
definition that models code names its lines in `PROJECT.json` under `map`.

## 1. The system

The repository computes rankings of traded securities and publishes one of them, the
"board", on a web site. The site is a React application that reads
`frontend/public/fixtures/k6_mtf_ranking.json`; publishing means committing that file
with its promotion manifest, README and report, pushing `main`, and waiting until the
hosting service serves the new manifest.

| component | state it keeps | operations | talks to |
|---|---|---|---|
| Crunch run lock (`crunch_rebuild_orchestrator.py`) | `output/crunch_runs/.crunch.lock`: a JSON file with the holder's pid | `acquire_lock`, `release_lock` | every run, the operating system's process table |
| Build-and-Rank run control (`crunch_rebuild_orchestrator.py`) | the run directory: plan, checkpoints, quarantine, `RUN_SUMMARY.json` | `preflight`, `run`, `_run_execute`, the publish dry-run tail, the publish tail | the four engine runners as subprocesses, the lock, Stage 9 |
| Re-Rank driver (`rerank_driver.py`) | a status file, the run directory | `main`: token, lock, board, recook, quarantine guard, priors, publish | the recook driver, the lock, Stage 9 |
| Stage 9 (`stage9_publish.py`) | `.stage9_publish.lock`, `publish_state.json`, `fresh_ccc_records.json`, the git worktree | preflight, resume, upload, combine, report pair, promote dry run, promote write, verify, commit, push, live poll | git, the remote, the Blob store, the web site |
| Promotion (`utils/react_publish/promote_k6_mtf_artifact.py`) | the public fixture, its manifest and README | `promote` | the report and the sidecars it verifies |
| Combine and proof assembly (`crunch_combine_proof.py`), validation join | none: files in, files out | `combine_and_assemble` | Stage 9 |
| K=6 recook (`k6_recook.py`), history and ranking engines | caches, price caches, signal libraries, a ranking per run | Stages 0 to F | the engines |
| Engines and their runners (`onepass`, `impactsearch`, `stackbuilder`, `trafficflow`) | workbooks, selected builds | compute | price source |
| Guarded writers (`signal_library_stable_promotion_writer.py`, `multiwindow_k_confluence_patch_writer.py`, `daily_board_automation_writer.py`, the cache refreshers) | the production files they replace, snapshots | authorise, snapshot, write, roll back | each other's plans |
| Controlled compute (`controlled_compute.py`) | a compute manifest | a pool of jobs with time-outs | subprocesses |
| Global ticker library | a SQLite registry | discover, validate, export | Yahoo |
| Interactive applications, front end, planners, audits | none of their own | read and show | saved artifacts |

How they interact. An operator or the scheduler starts a run. Build-and-Rank
(`crunch_rebuild_orchestrator.py`) plans, takes the crunch lock of its run directory's
parent, and drives OnePass, ImpactSearch, StackBuilder and the recook as subprocesses;
Re-Rank (`rerank_driver.py`) takes the same lock and drives the recook alone. Both then
validate the fresh rows (Stage 5), join them with the ranking (Stage 6) and hand them
to `run_stage9_publish`, which changes the git worktree, commits, pushes and watches
the site. The lock file and the run directories are shared by every run on a machine;
the remote and the site are shared with everybody.

What is hard, and what makes each part correct:

| part | hard behaviours | correct when |
|---|---|---|
| crunch lock | an empty file between two calls; several contenders judging one stale file; reused pids; a release that unlinks whatever is at the path | one holder at a time; a live holder's file is never taken; stale files are only taken over on request; every contender is answered |
| Stage 9 | a refusal or a kill between any two of about twenty steps; a lost answer of `git push`; a remote that moves; a deployment that is late or of another board; a second launch on a directory, or on another one, afterwards | the committed boards are whole, built on their predecessors, contain nothing else, and only they become public; without faults every launch completes |
| run control | answers read before the lock and used after it; quarantine without a way back; exceptions outside the expected class; directories that two runs share | no run works beside another; a halted run is recorded as halted; nothing moved away is lost |
| Re-Rank driver | a partial recook that must not be published as a whole one | what is published is exactly what the recook kept |
| recook | a lock with a time limit that is reclaimed without being asked; stages that exclude, fail or stop | its exit code and envelope agree with what it wrote |
| guarded writers | several production files replaced one after the other, then rolled back | all or nothing of a promotion, and a snapshot for each replaced file |
| controlled compute | time-outs, a fail-fast stop with jobs still running | every job is accounted for once |

`PROJECT.json` lists every component, modelled or not, and under `hazards` each of
these behaviours at the line where it bites.

## 2. Plan

The order follows what a reader of the site depends on: first that two runs exclude each
other, then that the transaction which changes the public board is right, then what
feeds it.

1. `CrunchLock`, which implements the abstract `RunLock`, with `CrunchLockProofs`: done.
2. `Stage9Publish`, which implements the abstract `PublishLedger`, with
   `Stage9PublishProofs`: done.
3. `CrunchRun` with `K6Recook`, and `RerankDriver` over both, with `RerankDriverProofs`: done.
   Build-and-Rank and Re-Rank are two kinds of run over one lock, run directories, stacks and
   one board. The merge of carried and fresh rows (`Merge`, `Combine`) is part of it. Their
   lock is a `RunLock` too.
4. `StablePromotion`, which implements the abstract `AtomicReplace`, with
   `StablePromotionProofs`: done.
5. `ControlledCompute` with `ControlledComputeProofs`: done.
6. `DailyBoard` with `DailyBoardProofs`: done.
7. Open: the recook's own time-limited lock beside recooks started by hand; the Confluence
   patch writer beside the pipeline of `DailyBoard`.

How the modules compose. `RerankDriver` EXTENDS `CrunchRun`, which EXTENDS `K6Recook`: both
kinds of run act on one state. `CrunchLock` and `Stage9Publish` take apart what is one
variable and two steps there. That the one variable stands for the file is not left to the
reader: `RunLock` says what a lock is to the runs that take it, `CrunchLock` implements it one
file-system call at a time (`ImplementsRunLock`), and what the runs of `RerankDriver` do with
their variable is a `RunLock` as well (`LockIsARunLock`). For the publish, `CrunchRun` relies on
what the theorems of `Stage9Publish` say, that a board is built on the one it replaces.
`StablePromotion`, `ControlledCompute` and `DailyBoard` share no state with the chain, nor
with each other, except for files that each of them models as changed by other programs.

## 3. The crunch lock: `CrunchLock`

`acquire_lock` (`crunch_rebuild_orchestrator.py:248-287`) is modelled one file-system
call at a time. `file` is the lock path: `NoFile`, or who put the file there and whether
its content has been written. `pc` is each process's step and `seen` what its read of an
existing file returned.

| action | code |
|---|---|
| `Create` | `os.open(O_CREAT \| O_EXCL)`, or `FileExistsError` |
| `Fill` | `os.write` of the payload through the descriptor |
| `Read` | `lock_path.read_text` and `json.loads` |
| `Judge` | `_pid_alive` of the pid read, and the three refusals |
| `Reclaim` | `_atomic_write_text` over the path |
| `Release` | `release_lock`: an unlink of the path, whoever put the file there, whose failure is swallowed |
| `Launch`, `Crash` | the start of a run; a kill or a stop of the machine |

A pid stands for one process; that the operating system may give a dead run's pid to
another program, and that `psutil` may be missing, is `PidAlive`, which may answer
"alive" or "unknown" of a process that has ended.

`Attended` is an assumption about the operator and not about the code: that
`--reclaim-stale-lock` is used as its error message asks, when every other run has ended,
and that no other reclaimer is started until the lock is taken. The code does not enforce it. Without it
(`Attended = FALSE`) `MutualExclusion` and `ImplementsRunLock` are false: a reclaimer that
reads the file between its creation and its filling takes it from a live run, and two
reclaimers that judge one stale file both take it.

Run `CrunchLock` has four processes of which two are reclaimers, in every order, with a
kill or a failed unlink at every step. Two of each kind are the smallest number for which
a reclaimer meets a holder, a contender and another reclaimer. It checks `TypeOK`,
`MutualExclusion`, the refinement `ImplementsRunLock` and the liveness property
`AlwaysAnswered`. Fairness: weak fairness of a process's own acquisition
steps, as each is a system call that returns; nothing obliges a launch, the end
of a run or a kill. No symmetry is used.

`RunLock` has three steps: a run takes a free lock, a run started to do so takes over one that
was left taken, and a run leaves it, free or taken. The mapping takes as `claim` who put the
file there, as `inside` the processes that have created or replaced it and not yet left, also
while its content is still to be written, and as `entitled` the reclaimers. All reading and
judging of the file in between is a stutter. The refinement has in it that no step takes the
file of a live run away and that a stale file is only ever reclaimed; `CrunchLockProofs` states
these two of the file itself (`NeverStealsLive`, `OnlyReclaimClearsStale`), with what the
mapping leaves out, that the holder's pid can be read (`HolderIsNamed`), and proves them.

## 4. The publish transaction: `Stage9Publish`

One action per step of `run_stage9_publish` and of the promotion it calls
(`utils/react_publish/promote_k6_mtf_artifact.py`), preceded by what decides whether a
launch comes that far: the crunch lock (`Start`), the early preflight of Build-and-Rank
(`EarlyPreflight`) and the sidecar of Stage 5 (`Validate`).

| state | code |
|---|---|
| `wt`, `stray` | the fixture, manifest, README and report in the worktree; any other change in it, staged or not |
| `local`, `origin`, `tracking` | HEAD's history, the remote's `main`, and how much of it `refs/remotes/origin/main` knows |
| `live` | what the hosting service has deployed |
| `state` | `publish_state.json`: `completed_states` and the recorded commit |
| `sidecars`, `ccc` | `publish_candidate/validation/validation.json` and `fresh_ccc_records.json` of a run |
| `lock` | `.stage9_publish.lock` of a run directory |
| `base` | the prior fixture a candidate was combined with |

A file's content is the launch that wrote it; a commit is its author, its files and
whether anything else went into it; a commit id is the whole history up to it. Thereby
"HEAD is the recorded commit" is an equality of histories, as it is for git's hashes.
A gate is a guard, and every gate's failure, every exception of git, of the network or
of the file system is `Refuse`, which is possible at every step and undoes nothing,
as `_refuse` undoes nothing. `Push` may take effect and still be reported as failed.
`Crash` leaves the lock file. `Validate` is the one failure that is not a refusal: a
`FileExistsError` that leaves the orchestrator.

Around the launches: `PushOther`, somebody else's commit on the remote; `Edit`, a developer's change;
`Restore`, `Pull`, `Unlock`, `ClearValidation`, what an operator does between launches; `Deploy`.
These are external: modelled from how the code meets them.

Two constants state who uses the repository how. `LockDir`: the runs check it with
one lock directory, the default; a `--run-dir` elsewhere has a lock of its own, and
with one lock directory per run two launches interleave their promotions and
`UntornBoards` fails. `DryRuns`: the launches with
`--publish-dry-run`; only Re-Rank has them.

A developer may edit and stage a file at any moment. `git commit` takes the whole index, and
between a launch's allowlist check and its commit nothing looks at the index again: what is
staged in this window is committed with the board. The code leaves the window open. The history
variable `late` has the launches that were in it when a developer staged a file, and
`OnlyPublicationFiles` says that it is the only way in: no other moment, before the launch or
during it, gets a foreign file into a publication commit.

| run | launches | shows |
|---|---|---|
| `Stage9Publish_safety` | Build-and-Rank, its relaunch on the same directory, a Re-Rank | `TypeOK`, `UntornBoards`, `NoLostUpdate`, `OnlyPublicationFiles`, `PushesRecordedCommit`, `VerifiedWasServed`, and that the remote and the site implement `PublishLedger` (`ImplementsLedger`) |
| `Stage9Publish_smooth` | Build-and-Rank, a rehearsal, a Re-Rank, without faults | `EveryLaunchCompletes`; `NoGateRefuses`; `OnlyGatedBoardsArePublic` |
| `Stage9Publish_git` | a rehearsal | the instructions' "Mid-Stage-9 failures never require operator git" does not hold: the worktree stays dirty, also after a successful rehearsal |
| `Stage9Publish_diverged` | Build-and-Rank, then a Re-Rank | "preflight refuses a diverged origin" holds only of what was last fetched |
| `Stage9Publish_recommit` | two Re-Ranks | "never a second commit": a relaunched Re-Rank is a new run and commits on top of the commit that was not pushed |
| `Stage9Publish_resume` | Build-and-Rank and its relaunch | "relaunch and let the resume validate": the relaunch fails at Stage 5 and does not reach the resume |

Bounds. Three launches: one that fails, one that meets what it left on the same directory, one that
meets it from another directory; each property relates at most two commits and the
board before them. `MaxOutside = 1`: one foreign commit or one edit is enough to make the
histories diverge or a file appear in a commit. `MaxKills = 1`: a kill differs from a
refusal only by the lock file, and a second one adds no new state of the worktree; the
`Refuse` steps are not bounded. In the last four runs the
bounds are those of the shortest counterexample. Deadlock is not checked in this module: launches run
once, and the system may stop when all have ended.

Fairness. Only `SmoothSpec` has any: weak fairness of every launch's steps and of the
deployment, in a world without faults. It justifies no claim about a faulty one; its
purpose is to show that the gates let a launch through that finds everything in order, in any
sequence of launches, which an over-strict gate would not. `NoGateRefuses` is the part of that
which needs no fairness: wherever a launch is, the guard of its gate holds, so that it can only
be waiting for the deployment.

`PublishLedger` is the abstract promise: a history of entries that only grows; each entry
leaves the board alone or brings a new, whole board built on the one before; the site serves
ever later entries. The refinement mapping takes the remote's history as the ledger, a
commit's four files as its board, and the board its author combined as what it was
built on.

## 5. Build-and-Rank beside Re-Rank: `CrunchRun`, `K6Recook`, `RerankDriver`

| state | code |
|---|---|
| `blocked` | the operator's list of blocked tickers |
| `lock` | who the crunch lock names |
| `pc`, `job` | a run's step, and what it found out: mode, run directory, reuse, exclusions, fresh rows, the merged board |
| `engine` | the child process of a run with the input it has read; it may outlive the run |
| `universe`, `onepass` | `allowed_universe.txt` and `01_onepass.json` of a run directory |
| `workbook`, `stack`, `quarantine` | ImpactSearch workbooks, StackBuilder runs in place, and what the run directories' quarantines hold |
| `board` | the published row of each secondary |
| `refreshed`, `built` | history variables: what OnePass has been through, every StackBuilder run ever made |

| action | code |
|---|---|
| `LaunchBuild` | `main`, `run` and `preflight`: the run directory is written and the processes are looked at, without the lock |
| `TakeLock`, `Gates`, `Release` | `acquire_lock`, the refusals of `run` under the lock, the `finally` |
| `StartOnePass` ... `EndStackBuilder` | `_run_execute`: each stage's engine as a child process, the scan of what it wrote |
| `MoveWorkbook`, `MoveStack` | the quarantines before ImpactSearch and StackBuilder, one secondary after the other; a kill, or a move that cannot be, stops them in between |
| `Recook`, `RerankRecook` | `k6_recook.py` strict for Build-and-Rank, lenient for Re-Rank, with `parse_recook_outcome` and the ceiling |
| `Combine`, `Promote` | the validation sidecar's coverage and the join of ranking and sidecar (`Joined`), `combine_and_assemble`, the promotion of Stage 9 |
| `Kill`, `Orphan`, `Edit` | a kill; an engine that goes on without its parent; an edit of the list |

A secondary's way through the recook is its *fate* (`K6Recook!Fates`): at which barrier it
falls, or whether it has a row, with a rank or without. `Status` and `Excluded` follow from
the fates, which is all that the callers see. A ticker is a model value, a stack a set of
tickers and who made it; scores are left out. Halts are folded into that status, and the recook
is one step: both callers hold the lock, and look at its exit code, its envelope and its ranking
when it is over.

An engine that ends, well or badly, or that a kill of its run leaves to itself, has written any
part of its output: the workbooks of any of the secondaries (`WriteWorkbooks`), a StackBuilder run with any
members for any of them (`Outputs`, `WriteStacks`); one without members has no combo file, so that the recook
finds nothing there (`HasCombo`). ImpactSearch writes a workbook when all its primaries are
done; one that is torn by a kill counts as not written, since a later run moves it
away before anything reads it.

Re-Rank checks the ranking's rows against the board less the quarantined, unless the ranking
cannot be read: then `kept_secondaries` is `None` and the check is left out (`Publishable`). What
stands in the way of a row that vanishes is then the join, which covers each validated secondary
by a row, strictly one to one. `NothingDroppedSilently` is about the promotion, and fails with a join that
lets a secondary go. As in section 3, `--reclaim-stale-lock` is used
as its message asks.

Run `CrunchRun`: three launches of either kind, on two directories, with two secondaries of
which one is rebuilt, two tickers, one kill and one edit, about 1.96 million states (some three minutes). Three launches are
what the properties relate at most: one that is killed or halts, one that meets what it left, and
one that was launched in between. Two tickers tell an excluded from a carried one. With one
secondary to rebuild, a quarantine that stops halfway is one that has moved it and not started
the engine; halfway through several is covered by the proofs of section 9, which are for any number.
The run checks
that no two engines write at once (`OneEngine`), that what is promoted is the run's own
work without blocked tickers (`OwnStacks`), that no stack is lost (`StacksKept`), that a
reused OnePass has been through the tickers (`ReuseIsEarned`), that Re-Rank promotes nothing without
accounting for every row of the board (`NothingDroppedSilently`), that a publish puts back no older row
(`NoLostRow`), that the lock is a `RunLock` (`LockIsARunLock`), and that it comes free
(`LockComesFree`). Two consequences are stated in `RerankDriverProofs` and proved there: that
the stack behind every row of the public board is in its place or in some quarantine
(`PublishedIsKept`), and that the owner of the lock is on its way to the release or was killed
(`LockHasOwner`).

Fairness: a run's own steps and an orphan's end are weakly fair, since each is a sequence of
system calls and of child processes, which are assumed to end. Nothing obliges
a launch, a kill or an edit.

## 6. The stable promotion: `StablePromotion`

| state | code |
|---|---|
| `staged`, `prod` | the pickle and the sidecar manifest of each library in the two directories |
| `plan`, `granted` | the writer's own plan, and `--write`, the environment variable and the path guard |
| `pc`, `at` | the writer's step and the library it is at |
| `touched` | the in-memory log of targets and their prior bytes |
| `report` | what the result says was added, replaced and copied |
| `start`, `lost` | history variables: production at the start, failed restores |
| `restaged`, `overlooked` | history variables: libraries staged anew since the writer last looked; libraries planned as unchanged and staged anew between the plan and the second look |

`Plan` and `Gate` are `plan_signal_library_stable_promotion` and the gates with
`_writer_side_revalidate`; `CopyPkl` and `CopySide` are one copy each, with its snapshot, its log entry and
its failure; `Restore` and `RolledBack` are the rollback, in reverse order, whose failures the code
passes over; `Kill` is possible at each of them, `Stage` and `Rebuild` are other programs.
`Verifies` and `Loads` say which manifest decides whether a library loads
(`provenance_manifest.py`).

Run `StablePromotion`: two libraries, three contents (one complete, one without an embedded manifest, one that does not
load), every content of both directories at the start, one change by another program
and one failing restore, about 2 million states. Two libraries are needed for a failure after a
success, and three contents for every verdict of the loader. It checks that a failed batch
leaves nothing behind but files whose restore was lost (`AllOrNothing`), that after a complete one
production has what was staged (`CompleteIsPromoted`) and that it loads (`PromotedLoads`), and that a
batch is one replacement (`ImplementsAtomicReplace`). There is no
liveness: the writer is a straight line. Deadlock is checked.

`CompleteIsPromoted` compares pickles, and sidecars where the plan copies one, and excepts two
kinds of libraries that the code does not protect. One that is staged anew after the second look is copied
as it is then, pickle and sidecar perhaps of two builds (`restaged`). One that was planned as
unchanged and is staged anew before the second look is passed over (`overlooked`): the look does
not plan anew, the batch skips the library, and production ends with something else than what is
staged, in a promotion that reports it unchanged. Without either exception TLC finds the case. `PromotedLoads` has
an exception of its own, a legacy library without a sidecar that replaces one with a sidecar: the old
sidecar stays and the new pickle does not load.

`AtomicReplace` is a directory in which a batch replaces the files it wants in one step, all or
none, out of a source that may move under it. During a batch the mapping takes the files to
hold what the log says they held before, so that each copy and each restore is a stutter and
`Complete` is the replacement. That the log can undo a torn batch at every moment is thereby part
of the refinement; `TornBatchIsRepairable` of `StablePromotionProofs` says it of the files. A kill is the one step after which some of the files are replaced, and a
restore that is lost the one after which a failed batch leaves one replaced.

## 7. Controlled compute: `ControlledCompute`

`spec` is the request, `phase` the program's, `pc` and `result` each job's; `sidecars` is what lies
under the search roots, with its author; `before` is a job's look before its command; `orphans`
are the jobs whose command goes on after the time limit.

| action | code |
|---|---|
| `Validate` | `validate_compute_job_spec`, exit code 2, and the dry run |
| `Start`, `Skip` | the serial loop with `fail_fast`, or a worker of the pool that takes the next job |
| `Exit`, `Timeout`, `Judge` | `subprocess.run` returns, or runs out of time; the search for the sidecar and its verdict |
| `BreakPool` | `BrokenProcessPool`: every job without a result has failed |
| `WriteManifest` | the manifest and `--strict` |
| `Write`, `WriteOutside` | a command, or another program, writes a sidecar |

Run `ControlledCompute`: three jobs on two processors, in eighteen requests (serial with and without
`fail_fast`, pools, rejected, dry; shared and separate roots), about 287 thousand states. Two jobs may write under one
root while a third waits; with three jobs a pool of two has one that waits. That what is recorded of a job that ended is never revised is the action
property `ResultsAreFinal` of `ControlledComputeProofs`. Fairness: the program's
own steps; a command returns or runs into its time limit. Nothing obliges a command
to write.

## 8. The daily board: `DailyBoard`

One ticker. An artifact is the date of its last row, or a file that cannot be read: it has a row
for every bar up to that date, so that the dates which all K have in common (`CommonDates`) are the
bars up to the earliest of their last ones.

| state | code |
|---|---|
| `cutoff` | `resolve_current_as_of_date` |
| `source`, `cache` | the provider's last bar, the price cache's last date |
| `runs`, `mtime` | the ticker's StackBuilder runs, absent, bare, with combo files, or full with the leaderboard, and their directories' times |
| `hindered` | what else the plan looks at: whether the catalogue health report blocks the ticker, whether its multi-timeframe libraries are missing |
| `daily`, `mtf`, `confl` | the artifacts of stages 6D-1, 6D-2 and 6D-3 |
| `pc`, `k`, `seed` | the writer's step, its K, the run that 6D-1 picked |
| `reached`, `ahead`, `faults` | history variables: the latest date the cache has held, the writer's last look; how much has gone wrong |

| action | code |
|---|---|
| `Plan` | `daily_board_automation_preflight.py`: `_classify_action` |
| `Refresh`, `Recheck` | `signal_engine_cache_refresher.py`, then `cache_cutoff_watcher.py` |
| `Pipeline`, `BuildDaily` | the pick of a StackBuilder run; stage 6D-1, a K at a time, which leaves out one bar |
| `Bridge`, `BuildConfluence` | stages 6D-2 and 6D-3 |
| `Report` | readiness and the ranking contract, read-only |
| `Kill` | a kill, or an exception that a builder lets through, in the middle of a write perhaps |
| `NextDay`, `Publish`, `RefreshElsewhere`, `MakeRun`, `Hinder` | the calendar, the provider, other programs, an operator |

The plan takes a run with combo files for usable (`_has_leaderboard`), and 6D-1 needs
`combo_leaderboard.xlsx` itself: with only the former the pipeline goes on to 6D-2 with the daily
artifacts there are. The health report counts in the readiness verdict as well as in the plan; the libraries in the
plan only, as no stage of this pipeline opens them.

Run `DailyBoard`: three weekdays of which the middle one is a holiday, two StackBuilder runs, K of 1 and 2, two
faults, of which a hindrance that appears is one, about 1.85 million states. Two K values can be of different days and two runs can mix; the
holiday is what makes "one bar is left out" and "strictly ahead of the cutoff" differ; two
faults tear a file and then hit the repair. Fairness: the operator runs the writer every day
and it comes to its end, days pass, bars are published. `GetsCurrentOrWaits` says what this is
worth: with one StackBuilder run, and once nothing hinders it any more, a ticker becomes current for the
last day, or waits at a cache that ends exactly at the cutoff, which the plan neither refreshes nor uses.
It says nothing of days in the middle of the calendar: there a holiday between the cutoff and the next bar
leaves a ticker behind its cutoff though its run went well, against the comment at
`cache_cutoff_watcher.py:14`. `NeverUnmade`, that a current ticker stays so, ends with the day or
with a health report that blocks it. Midnight after the writer's last look lets its stages go
on with that look's cutoff; `OnlyReadyWrites` is about the look and `NeverUnmade` about the harm.

Run `DailyBoard_stack` refutes what the runbook says, that the pipeline takes the
newest run: 6D-1 does, and 6D-2 then takes for each K the first daily artifact by name, of
whichever run. `OneVintage` shows that nevertheless runs are never mixed in one artifact.

## 9. Proofs

`CrunchLockProofs` proves, for every set of processes:

- `TypeCorrect`: `Spec => []TypeOK`;
- `LockIsExclusive` (`MutualExclusion`), `HolderIsAlwaysNamed` (`HolderIsNamed`), `LiveFilesAreSafe`
  (`NeverStealsLive`), `StaleFilesStay` (`OnlyReclaimClearsStale`), under the assumption `Attended \/ Reclaimers = {}`;
- `ImplementsALock`: `Spec => ImplementsRunLock`, under the same assumption. A launch
  may come between any two calls of a contender, which the mapping does not see; that a
  reclaimer finds nobody inside is `ReclaimsAlone`.

The argument is an inductive invariant. `MutualExclusion` is not inductive: a process about
to overwrite the file would break it. `IInv` adds that the file at the path is that of the
process that fills or holds it (`FileIsHolders`), that only reclaimers come to the
overwriting (`OnlyReclaimersReclaim`), and that no other run exists while one of them
acquires (`ReclaimsAlone`, the discipline's consequence). Uniqueness of the holder
follows since a file has one owner.

`Stage9PublishProofs` proves, for every set of launches, run directories and kinds of
launch:

- `TypeCorrect`: `Spec => []TypeOK`, with no further assumption; this is about types alone, and a
  worktree or a commit that mixes the files of several launches has them;
- `BoardsAreWhole`, `NothingIsLost`, `PushesWhatWasRecorded`, `OnlyGatedArePublic`,
  `VerifiedBoardsWereServed`: the invariants `UntornBoards`, `NoLostUpdate`,
  `PushesRecordedCommit`, `OnlyGatedBoardsArePublic` and `VerifiedWasServed`, under the
  assumption `OneLock`;
- `NothingElseIsCommitted`: `OnlyPublicationFiles`, with no further assumption;
- `PublishesALedger`: `Spec => ImplementsLedger`, under `OneLock`;
- `NoGateIsInTheWay`: `SmoothSpec => []NoGateRefuses`, under `OneLock` and `RunsAreOwn`, that each launch
  has a run directory of its own (a second one on the same directory is refused at its sidecar,
  section 4).

`OneLock` says that all run directories have one lock directory, which is the default of
both programs; section 4 says what fails without it.

None of the invariants is inductive. What `IInv` adds follows the life of one launch:

| conjunct | says | is there for |
|---|---|---|
| `AtMostOneRuns` | the crunch lock lets one launch run | every other conjunct: nobody else touches the worktree, HEAD or the state file in between |
| `OwnFiles` | which files a launch has written at each step | `UntornBoards`: at the commit it has written all four |
| `BuiltOnHead` | from the preflight on the worktree is HEAD's, and then the base is HEAD's fixture | `NoLostUpdate` |
| `RecordedIsHead` | at a push HEAD is the recorded commit | `PushesRecordedCommit` |
| `RehearsalsStop`, `ChartsUploaded` | where a rehearsal may be, and where the run's charts are accepted | `OnlyGatedBoardsArePublic` |
| `PublishesOwnRun`, `ServedWhenSeen` | what a run pushes and waits for is a board of that run | `VerifiedWasServed` |
| `Lawful` | both histories, HEAD's and the remote's: every publication is whole, new, gated and built on the one before; every other commit leaves the board alone; every board is some publication's | all of them, and the refinement |

`Lawful` is stated of the remote's history as well as of HEAD's since a push makes one the
other and a pull the reverse, and both may have moved apart in between. That a board is new rests on
`AfterCommit`: a launch that is in a history has committed and will not come to the
commit again. Each lemma about a step of a launch first removes the other launches
(`OneRuns`), and then checks the conjunct for the one that moved. For the refinement a
step either leaves the remote's entries alone (`RemoteSteps`, for which `BasesStay` shows that
the base of a committed launch is settled) or extends them lawfully (`LawfulGrowth`).

`NothingElseIsCommitted` has an invariant of its own, `LateInv`, which needs no lock: a launch that is at its commit while a
foreign file is staged is `late`, and so is the author of every publication commit with a foreign file, in HEAD's history and in
the remote's.

`NoGateIsInTheWay` needs, besides `IInv`, what a world without faults keeps: `RunIsNew`, that what a
launch has not yet come to in its run directory is as it was made, and `InStep`, that the worktree is HEAD's until
the report is copied and again from the commit on, and that the remote has HEAD except between the
commit and its push. That `git commit` is not refused as empty rests on `Lawful`: the last board
is that of a launch that has committed, and the one at its commit has not (`NotYetPublished`).

`RerankDriverProofs` proves all safety properties of the run `CrunchRun`, `PublishedIsKept` and
`LockHasOwner` for any number of runs,
directories, secondaries and tickers (`TypesHold`, `OneEngineHolds`, `OwnStacksHolds`,
`StacksKeptHolds`, `ReuseIsEarnedHolds`, `NothingDroppedHolds`, `NoLostRowHolds`,
`PublishedIsKeptHolds`, `LockHasOwnerHolds`, and the refinement `LockIsALock`). The invariants:

| conjunct | says | is there for |
|---|---|---|
| `HolderHolds`, `EngineHasParent` | who is past the lock is named by it; an engine's parent waits for it or is dead | `OneEngine`: two engines would be of the holder, or an orphan's |
| `OrphanBars` | while an orphan writes, no run that saw no engine is past the lock; one that looked before is refused | `OneEngine`: the look comes before the lock and its answer is used after it |
| `ReclaimerAlone` | a reclaimer is alone until it has the lock | `OrphanBars` at a reclaim |
| `ListedIsRefreshed`, `ReuseIsRefreshed` | what a OnePass result lists, OnePass has been through; so has it what a reuse was proved for | `ReuseIsEarned` |
| `MergedIsCurrent` | from the merge to the promotion the board is the one that was merged | `NoLostRow` |
| `BuiltKept` | each stack is in place or in a quarantine | `StacksKept` |
| `StacksBuilt`, `RowsBuilt`, `JobsBuilt` | every stack in place, every row of the board and every row a run carries is of a StackBuilder run there was | `PublishedIsKept`, from `BuiltKept`: a row goes from a stack to a run's rows, is merged, and promoted, while the stacks are moved |
| `HolderHolds`, `OwnerKept` | no step takes a run out of those that will release the lock, and leaves it named | `LockHasOwner`, `LockIsARunLock` |
| `OwnWork` | what is at each stage the run's own; it is inductive together with `NothingDroppedSilently` (`WorkInductive`), which the join establishes and a board that nobody else promotes keeps | `OwnStacks`, `NothingDroppedSilently` |

`StablePromotionProofs` proves the run's four invariants and `TornBatchIsRepairable` for any number of libraries and contents. The
argument is the log: during a batch each entry holds what the target held at the start
(`LogIsComplete`), every file that differs is in it, and only files behind the writer are touched
(`TouchedIsPast`), so that undoing entry by entry from the end leads back to the start. While copies
are made no restore has failed yet; a file that was not touched is as it was. `ReportIsTrue` and
`PastIsPromoted` relate the report and the plan to what lies behind the writer.
`PromotionIsOneReplacement` proves `Spec => ImplementsAtomicReplace`. It needs `LogIsOfBatch` besides: the log has
each file once, and each file in it is wanted and holds what was staged, or was staged since. A copy
appends the file with what it held, so that the log turns production into the same directory as before
(`CopyStep`); undoing the last entry does the same (`RestoreStep`); at the end of a batch that went through
every wanted file has been replaced (`EndStep`, from `PastIsPromoted`).

`ControlledComputeProofs` proves the run's five invariants and `ResultsAreFinal` for any number of jobs, processors, search roots and
requests; the one assumption is that the roots are finitely many. `Authored` says that what a job has written is under its
root and was not there at its look, `SeesEarlier` that the look saw all that was older, and
`GivenUp` that a command that goes on belongs to a job that has failed: hence a job's own
sidecar is among the candidates at its verdict, and a success has one candidate only
(`OnlyCandidate`, `VerdictFacts`). `InOrder` and `Planned` follow the serial loop: what is later than a
job under way waits, hence also at a failure.

`DailyBoardProofs` proves `EligibleIsEarned`, `OneVintage`, `OnlyReadyWrites` and `NeverUnmade` for
any calendar, K values, runs and faults, under the assumption that the price series begins before the days
of the board (`SeriesStartsEarlier`; a series of a single bar is kept whole by 6D-1).
`AllFinal` says of every date in an artifact that the cache has held a later one, or that it lies before all cutoffs;
`NothingToDo` that the writer is idle, or reports, whenever the Confluence artifact reaches the
cutoff. That a set of dates has its least and greatest member is proved from the library's
well-foundedness of the natural numbers (`MinIsLeast`, `MaxIsGreatest`).

Only model-checked, as liveness is out of the prover's reach: `AlwaysAnswered`, `EveryLaunchCompletes`,
`LockComesFree`, `EndsWithManifest`, `GetsCurrentOrWaits`. Every safety property of a passing run is a
theorem. In `Stage9Publish` the fault-free and the faulty behaviours are separate
specifications; the theorems are about the faulty one, which contains the other's steps, except
`NoGateIsInTheWay`.

## 10. Not modelled

Most of the repository by size: the numerical engines, the canonical scoring engine, the
interactive applications and the research previews are floating-point computation over price series and its
presentation, without an order of steps that could go wrong; the planners, audits and
report generators read and print. The share of all lines that `map` names is small
for this reason, and covers the programs that change what others read.

Of what is modelled: what a gate computes is represented by what it binds, an artifact by its last date, a
sidecar by its author and soundness, a stack by its members. Reports that no later step
reads (`RUN_SUMMARY.json`, plans, status files, execution logs) are left out. A second machine that
shares the repository only through the remote is `PushOther`, as far as it publishes no
boards itself.

Hazards that no property covers are marked in `PROJECT.json` with the reason. The two that
matter: the recook's own lock (`k6_recook.py:1581`), which an empty file or an expired time
hands to a second recook, and which the crunch lock makes irrelevant for the two drivers but not
for recooks started by hand; and the Confluence patch writer, which replaces an artifact
that it read earlier. Smaller ones stay out of the list since nothing the models have depends on them: a contender
that the lock refuses writes its reports over those of the live run in the same directory; a second
quarantine of workbooks replaces the first one's files; `publish_state.json` only ever adds states, and chart records of an
earlier attempt are reused, which takes an operator who has moved the validation away; the ranking contract's
read-only check fails over artifacts of abandoned runs. `PROJECT.json` gives the reason for every component that is left out.
