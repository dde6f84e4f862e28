---------------------------- MODULE DailyBoard ------------------------------
(***************************************************************************)
(* How one ticker of the daily board is made current: the guarded writer   *)
(* daily_board_automation_writer.py plans with                             *)
(* daily_board_automation_preflight.py, refreshes the price cache          *)
(* (signal_engine_cache_refresher.py), looks at it again                   *)
(* (cache_cutoff_watcher.py) and runs confluence_pipeline_runner.py:       *)
(*   6D-1  one daily artifact per K of the newest StackBuilder run,        *)
(*   6D-2  one multi-timeframe artifact per K of the daily ones,           *)
(*   6D-3  one Confluence artifact out of the multi-timeframe ones,        *)
(* then readiness and, read-only, the ranking contract.                    *)
(*                                                                         *)
(* An artifact is the date of its last row: it has a row for each bar up   *)
(* to then.  Artifacts are written in place, so a write that fails, or a   *)
(* kill, may leave a torn file.  Meanwhile days pass, the data provider    *)
(* publishes bars, other programs refresh the cache and report on the      *)
(* catalogue's health, and an operator makes StackBuilder runs.            *)
(***************************************************************************)
EXTENDS Integers, FiniteSets, FiniteSetsExt

CONSTANTS
  Weekdays,  \* the dates the cutoff may have: First..LastDay
  Bars,      \* the dates with a bar: the weekdays without the holidays, and later ones
  NK,        \* the K values are 1..NK
  NSeeds,    \* the StackBuilder runs are 1..NSeeds, in the order of their names
  MaxFaults  \* how many writes fail, fetches fall short, kills and hindrances happen

None == 0    \* no file, no run
Torn == -1   \* a file that cannot be read

Ks == 1..NK
Seeds == 1..NSeeds

ASSUME DatesAreDates == Weekdays \subseteq Nat \ {0} /\ Bars \subseteq Nat \ {0}
                          /\ IsFiniteSet(Bars) /\ Weekdays # {} /\ Bars # {}
\* A price series begins long before the days of the board.
ASSUME SeriesStartsEarlier == \E b \in Bars : \A d \in Weekdays : b < d
ASSUME CountsAreCounts == NK \in Nat \ {0} /\ NSeeds \in Nat \ {0} /\ MaxFaults \in Nat

VARIABLES
  cutoff,   \* what resolve_current_as_of_date answers
  source,   \* the provider's last bar
  cache,    \* the last date of the price cache
  reached,  \* ghost: the latest date the cache has held
  runs,     \* each StackBuilder run: absent, bare, with combo files, or full (leaderboard)
  mtime,    \* when its directory was changed last
  daily,    \* the daily artifacts: the date of each run and K
  mtf,      \* the multi-timeframe artifacts
  confl,    \* the Confluence artifact: its date, and the run and date of each K's input
  hindered, \* what else the plan looks at and finds in the way
  pc,       \* the writer's step
  k,        \* the K it comes to next
  seed,     \* the run that 6D-1 has picked
  ahead,    \* ghost: the cache was ahead of the cutoff at the writer's last look
  faults    \* how much has gone wrong

vars == <<cutoff, source, cache, reached, runs, mtime, daily, mtf, confl, hindered,
          pc, k, seed, ahead, faults>>
artifacts == <<daily, mtf, confl>>
world == <<cutoff, source, runs, mtime, hindered>>

\* The catalogue health report blocks the ticker; of its multi-timeframe signal libraries
\* there are too few.  Both are files of other programs.
Hindrances == {"health", "libraries"}

Dates == Bars \cup {None}
Stages == {"refresh", "recheck", "pipeline", "6D-1", "6D-2", "6D-3", "readiness"}
NoConfluence == [date |-> None, inputs |-> [j \in Ks |-> [seed |-> None, date |-> None]]]
TornConfluence == [NoConfluence EXCEPT !.date = Torn]

\* A faulty variant: the last bar is kept.
Untrimmed(date) == date

\* The one bar that 6D-1 leaves out (persist_skip_bars); a series of one bar is
\* kept as it is.
Trimmed(date) == IF \E b \in Bars : b < date THEN Max({b \in Bars : b < date}) ELSE date

\* A faulty variant: a cache that ends at the cutoff counts.
ReadyAtCutoff == cache # None /\ cache >= cutoff

\* evaluate_cache_cutoff_state: ready_for_pipeline_write.
Ready == cache # None /\ cache > cutoff

Readable(file) == file \notin {None, Torn}

\* inspect_ticker_pipeline: leader_eligible.
Eligible ==
  /\ "health" \notin hindered
  /\ Readable(confl.date) /\ confl.date >= cutoff
  /\ \A j \in Ks : \E s \in Seeds : Readable(mtf[s][j])

\* _has_leaderboard: combo files, which a run writes as it searches, will do.
Usable == {s \in Seeds : runs[s] \in {"combos", "full"}}

\* _resolve_stackbuilder_selection: the newest of the usable, unless tied.
Newest(set) == {s \in set : \A t \in set : mtime[t] <= mtime[s]}
Selected == Cardinality(Newest(Usable)) = 1

Init == /\ cutoff = Min(Weekdays)
        /\ source = Min(Bars)
        /\ cache \in {None, Min(Bars)} /\ reached = cache
        /\ runs \in [Seeds -> {"absent", "full"}]
        /\ mtime = [s \in Seeds |-> 0]
        /\ daily = [s \in Seeds |-> [j \in Ks |-> None]]
        /\ mtf = daily /\ confl = NoConfluence /\ hindered \in SUBSET Hindrances
        /\ pc = "idle" /\ k = 1 /\ seed = None /\ ahead = FALSE /\ faults = 0

-----------------------------------------------------------------------------
\* Faulty variants of the plan: currentness is looked at last.
PlanLate ==
  /\ pc = "idle"
  /\ hindered = {}
  /\ cache # None /\ Usable # {} /\ Selected /\ cache # cutoff
  /\ pc' = IF Ready THEN "pipeline" ELSE "refresh"
  /\ ahead' = (cache > cutoff)
  /\ UNCHANGED <<world, cache, reached, artifacts, k, seed, faults>>

\* _classify_action, when it says that there is something to do and the run has both
\* keys: the ticker is not current, nothing hinders it, a stack is selected, and the
\* cache is behind the cutoff, or ahead of it.  In every other case, and without the
\* keys, the writer ends with a skip.
Plan ==
  /\ pc = "idle"
  /\ ~Eligible /\ hindered = {}
  /\ cache # None /\ Usable # {} /\ Selected /\ cache # cutoff
  /\ pc' = IF Ready THEN "pipeline" ELSE "refresh"
  /\ ahead' = (cache > cutoff)
  /\ UNCHANGED <<world, cache, reached, artifacts, k, seed, faults>>

\* refresh_signal_engine_cache: what the provider returned replaces the cache, though
\* it end earlier; a fetch that fails leaves it.
Refresh ==
  /\ pc = "refresh"
  /\ \/ cache' = source /\ UNCHANGED faults
     \/ /\ faults < MaxFaults /\ faults' = faults + 1
        /\ cache' \in {b \in Bars : b < source} \cup {cache}
  /\ reached' = Max({reached, cache'})
  /\ pc' = "recheck"
  /\ UNCHANGED <<world, artifacts, k, seed, ahead>>

\* The second look: the pipeline is withheld unless it says ready.
Recheck ==
  /\ pc = "recheck"
  /\ pc' = IF Ready THEN "pipeline" ELSE "idle"
  /\ ahead' = (cache > cutoff)
  /\ UNCHANGED <<world, cache, reached, artifacts, k, seed, faults>>

\* discover_latest_stackbuilder_run: any directory counts, and one of those with the
\* newest time is taken; without the leaderboard itself 6D-1 builds nothing.
Pipeline ==
  /\ pc = "pipeline"
  /\ \E s \in Newest({t \in Seeds : runs[t] # "absent"}) :
       \/ runs[s] = "full" /\ pc' = "6D-1" /\ seed' = s
       \/ runs[s] # "full" /\ pc' = "6D-2" /\ seed' = None
  /\ k' = 1
  /\ UNCHANGED <<world, cache, reached, artifacts, ahead, faults>>

\* Files are written in place: a write may fail before it, or after it has emptied
\* the file.
Outcomes(old, new, torn) ==
  {[file |-> new, fault |-> 0], [file |-> old, fault |-> 1], [file |-> torn, fault |-> 1]}

\* A faulty variant: one K too many.
ThenKAndOne(stage, next) == IF k <= NK THEN pc' = stage /\ k' = k + 1
                            ELSE pc' = next /\ k' = 1

\* A stage goes over the K values, and the next one starts again.
ThenK(stage, next) == IF k < NK THEN pc' = stage /\ k' = k + 1
                      ELSE pc' = next /\ k' = 1

\* 6D-1 for one K: the cache is read anew for each.
BuildDaily ==
  /\ pc = "6D-1"
  /\ cache # None
  /\ \E o \in Outcomes(daily[seed][k], Trimmed(cache), Torn) :
       /\ faults + o.fault <= MaxFaults /\ faults' = faults + o.fault
       /\ daily' = [daily EXCEPT ![seed][k] = o.file]
  /\ ThenK("6D-1", "6D-2")
  /\ UNCHANGED <<world, cache, reached, mtf, confl, seed, ahead>>

\* 6D-2 for one K: of the readable daily artifacts with that K the first by name.
FirstWith(j) == {s \in Seeds : /\ Readable(daily[s][j])
                               /\ \A t \in Seeds : t < s => ~Readable(daily[t][j])}

\* A faulty variant: the bar that 6D-1 has left out is left out again.
BridgeTrimmed ==
  /\ pc = "6D-2"
  /\ mtf' = [s \in Seeds |-> IF s \in FirstWith(k)
                             THEN [mtf[s] EXCEPT ![k] = Trimmed(daily[s][k])] ELSE mtf[s]]
  /\ ThenK("6D-2", "6D-3")
  /\ UNCHANGED <<world, cache, reached, daily, confl, seed, ahead, faults>>

Bridge ==
  /\ pc = "6D-2"
  /\ \/ FirstWith(k) = {} /\ UNCHANGED <<mtf, faults>>
     \/ \E s \in FirstWith(k) : \E o \in Outcomes(mtf[s][k], daily[s][k], Torn) :
          /\ faults + o.fault <= MaxFaults /\ faults' = faults + o.fault
          /\ mtf' = [mtf EXCEPT ![s][k] = o.file]
  /\ ThenK("6D-2", "6D-3")
  /\ UNCHANGED <<world, cache, reached, daily, confl, seed, ahead>>

\* The candidates of 6D-3: for each K which run's artifact is read.  A group is buildable
\* if there are dates of which every K has a row; the last of these is what it is good for.
CommonDates(g) == {b \in Bars : \A j \in Ks : b <= mtf[g[j]][j]}
Groups(choices) == {g \in choices : /\ \A j \in Ks : Readable(mtf[g[j]][j])
                                    /\ CommonDates(g) # {}}
Common(g) == Max(CommonDates(g))

\* A faulty variant: every K takes what there is, of whichever run.
GroupsMixed == Groups([Ks -> Seeds])

\* One run has to cover every K.
FullGroups == Groups({[j \in Ks |-> s] : s \in Seeds})

\* The group whose common rows end last; which of two that tie depends on file times.
Freshest == {g \in FullGroups : \A h \in FullGroups : Common(h) <= Common(g)}

\* 6D-3: without a full group nothing is written.
BuildConfluence ==
  /\ pc = "6D-3"
  /\ \/ FullGroups = {} /\ UNCHANGED <<confl, faults>>
     \/ \E g \in Freshest :
          LET built == [date |-> Common(g),
                        inputs |-> [j \in Ks |-> [seed |-> g[j], date |-> mtf[g[j]][j]]]]
          IN \E o \in Outcomes(confl, built, TornConfluence) :
               /\ faults + o.fault <= MaxFaults /\ faults' = faults + o.fault
               /\ confl' = o.file
  /\ pc' = "readiness"
  /\ UNCHANGED <<world, cache, reached, daily, mtf, k, seed, ahead>>

\* Readiness and the ranking contract, which only read; the report is made.
Report ==
  /\ pc = "readiness"
  /\ pc' = "idle" /\ seed' = None
  /\ UNCHANGED <<world, cache, reached, artifacts, k, ahead, faults>>

\* The writer is killed, in the middle of a write perhaps, or a stage of the pipeline
\* raises what its builder does not catch.
Kill ==
  /\ pc \in Stages
  /\ faults < MaxFaults /\ faults' = faults + 1
  /\ \/ UNCHANGED artifacts
     \/ pc = "6D-1" /\ daily' = [daily EXCEPT ![seed][k] = Torn] /\ UNCHANGED <<mtf, confl>>
     \/ /\ pc = "6D-2"
        /\ \E s \in FirstWith(k) : mtf' = [mtf EXCEPT ![s][k] = Torn]
        /\ UNCHANGED <<daily, confl>>
     \/ pc = "6D-3" /\ FullGroups # {} /\ confl' = TornConfluence /\ UNCHANGED <<daily, mtf>>
  /\ pc' = "idle" /\ k' = 1 /\ seed' = None
  /\ UNCHANGED <<world, cache, reached, ahead>>

-----------------------------------------------------------------------------
\* A weekday ends; the provider publishes a bar, on the day of the bar at the earliest.
NextDay ==
  /\ \E d \in Weekdays : d > cutoff
  /\ cutoff' = Min({d \in Weekdays : d > cutoff})
  /\ UNCHANGED <<source, cache, reached, runs, mtime, hindered, artifacts,
                 pc, k, seed, ahead, faults>>

Publish ==
  /\ \E b \in Bars : b > source
  /\ source' = Min({b \in Bars : b > source})
  /\ source' <= cutoff + 1
  /\ UNCHANGED <<cutoff, cache, reached, runs, mtime, hindered, artifacts,
                 pc, k, seed, ahead, faults>>

\* Another program refreshes the cache, with a short answer perhaps.
RefreshElsewhere ==
  /\ \/ cache' = source /\ UNCHANGED faults
     \/ /\ faults < MaxFaults /\ faults' = faults + 1
        /\ cache' \in {b \in Bars : b < source}
  /\ reached' = Max({reached, cache'})
  /\ UNCHANGED <<world, artifacts, pc, k, seed, ahead>>

\* An operator starts a StackBuilder run, which writes combo files and its leaderboard last.
MakeRun(s) ==
  /\ \/ runs[s] = "absent" /\ runs' = [runs EXCEPT ![s] = "bare"]
     \/ runs[s] = "bare" /\ runs' = [runs EXCEPT ![s] = "combos"]
     \/ runs[s] = "combos" /\ runs' = [runs EXCEPT ![s] = "full"]
  /\ mtime' = [mtime EXCEPT ![s] = cutoff]
  /\ UNCHANGED <<cutoff, source, cache, reached, hindered, artifacts,
                 pc, k, seed, ahead, faults>>

\* The health report changes its mind; libraries come and go.
Hinder ==
  /\ \/ \E h \in hindered : hindered' = hindered \ {h} /\ UNCHANGED faults
     \/ /\ faults < MaxFaults /\ faults' = faults + 1
        /\ \E h \in Hindrances \ hindered : hindered' = hindered \cup {h}
  /\ UNCHANGED <<cutoff, source, cache, reached, runs, mtime, artifacts, pc, k, seed, ahead>>

-----------------------------------------------------------------------------
Steps == Plan \/ Refresh \/ Recheck \/ Pipeline \/ BuildDaily \/ Bridge
           \/ BuildConfluence \/ Report

Next == \/ Steps \/ Kill
        \/ NextDay \/ Publish \/ RefreshElsewhere \/ Hinder
        \/ \E s \in Seeds : MakeRun(s)

Spec == Init /\ [][Next]_vars

\* The operator runs the writer every day, it comes to its end, days pass and bars
\* are published.  Nothing obliges another program or a StackBuilder run.
FairSpec == Spec /\ WF_vars(Steps) /\ WF_vars(NextDay) /\ WF_vars(Publish)

-----------------------------------------------------------------------------
Files == Dates \cup {Torn}
TypeOK ==
  /\ cutoff \in Weekdays /\ source \in Bars /\ cache \in Dates /\ reached \in Dates
  /\ runs \in [Seeds -> {"absent", "bare", "combos", "full"}] /\ hindered \subseteq Hindrances
  /\ mtime \in [Seeds -> Weekdays \cup {0}]
  /\ daily \in [Seeds -> [Ks -> Files]] /\ mtf \in [Seeds -> [Ks -> Files]]
  /\ confl \in [date : Files, inputs : [Ks -> [seed : Seeds \cup {None}, date : Dates]]]
  /\ pc \in Stages \cup {"idle"} /\ k \in Ks /\ seed \in Seeds \cup {None}
  /\ ahead \in BOOLEAN /\ faults \in 0..MaxFaults

\* A ticker is shown as current at a cutoff only if the price cache once went past that
\* cutoff, which is what makes the cutoff's own row final: whatever order refreshes,
\* kills, short fetches, midnights and runs of the pipeline come in.
EligibleIsEarned == Eligible => reached > cutoff

\* The Confluence artifact is of one StackBuilder run, and its last row is one that
\* every K has, though the runs' artifacts lie in one directory and their K's are of
\* different days when the cache moved or a write failed between them.
OneVintage ==
  Readable(confl.date) =>
    \A j \in Ks : /\ confl.inputs[j].seed = confl.inputs[1].seed
                  /\ confl.inputs[j].date >= confl.date

\* Artifacts change only in a run whose last look, before the refresh or after it,
\* found the cache ahead of the cutoff of that moment.
OnlyReadyWrites == [][artifacts' # artifacts => ahead]_vars

\* A ticker that is current stays current until the day ends or the health report blocks
\* it: no refresh, kill or further run of the writer unmakes it.
NeverUnmade ==
  [][Eligible /\ ~Eligible' => cutoff' # cutoff \/ "health" \in hindered']_vars

\* With one StackBuilder run, and once nothing hinders it any more, the ticker becomes
\* current for the last day and stays so, whatever was torn on the way and though a holiday
\* comes between; or the cache ends at the cutoff exactly, which the writer waits out (its
\* plan refreshes a cache that is behind, never one that is level) and only another program
\* or the next day ends.
OneStack == \E s \in Seeds : /\ runs[s] = "full"
                             /\ \A t \in Seeds : runs[t] # "absent" <=> t = s
GetsCurrentOrWaits ==
  cache # None /\ []OneStack /\ <>[](hindered = {}) => <>[](Eligible \/ cache = cutoff)

\* "the existing pipeline default picks the newest by directory mtime.  The executor
\* preserves this behavior" (PHASE_6H7_PRODUCTION_RUNBOOK.md:250-253): after a run of
\* the pipeline without a fault the Confluence artifact is of the run that was picked.
PicksNewestRun ==
  pc = "readiness" /\ seed # None /\ faults = 0 =>
    \A j \in Ks : confl.inputs[j].seed = seed
=============================================================================
