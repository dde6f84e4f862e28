------------------------- MODULE DailyBoardProofs ---------------------------
(***************************************************************************)
(* Proofs about DailyBoard, for any calendar, any number of K values and   *)
(* StackBuilder runs, and any number of faults.                            *)
(*                                                                         *)
(* That a current ticker has earned it rests on the one bar 6D-1 leaves    *)
(* out: every date in an artifact lies before a date the cache has held,   *)
(* or before all the days of the board.  That a current ticker stays       *)
(* current rests on the plan: the writer is under way only when the        *)
(* Confluence artifact does not reach the cutoff.                          *)
(***************************************************************************)
EXTENDS DailyBoard, FiniteSetTheorems, NaturalsInduction, WellFoundedInduction, TLAPS

\* The date of a finished row: the cache has held a later one, or it is out of reach.
Final(date) == date < reached \/ \A w \in Weekdays : date < w
AllFinal ==
  /\ cache <= reached
  /\ \A s \in Seeds, j \in Ks : /\ Readable(daily[s][j]) => Final(daily[s][j])
                                /\ Readable(mtf[s][j]) => Final(mtf[s][j])
  /\ Readable(confl.date) => Final(confl.date)

\* The steps that come after a look that said ready.
Past(step) == step \in {"pipeline", "6D-1", "6D-2", "6D-3", "readiness"}
LookedReady == Past(pc) => ahead

SeedPicked == pc = "6D-1" => seed \in Seeds

\* The Confluence artifact reaches the cutoff; then every K is there, and the writer
\* has nothing to do.
Reaches == Readable(confl.date) /\ confl.date >= cutoff
Covered == \A j \in Ks : \E s \in Seeds : Readable(mtf[s][j])
NothingToDo == Reaches => Covered /\ pc \in {"idle", "readiness"}

IInv == TypeOK /\ SeedPicked /\ AllFinal /\ LookedReady /\ NothingToDo /\ OneVintage

USE DatesAreDates, CountsAreCounts, SeriesStartsEarlier

-----------------------------------------------------------------------------
\* A set of natural numbers that is not empty has its least element.
LEMMA MinIsLeast ==
  ASSUME NEW S, S \subseteq Nat, S # {}
  PROVE  Min(S) \in S /\ \A x \in S : Min(S) <= x
<1>1. IsWellFoundedOn(OpToRel(<, Nat), Nat)
  BY NatLessThanWellFounded
<1>2. PICK m \in S : \A x \in S : ~(<<x, m>> \in OpToRel(<, Nat))
  BY <1>1, WFMin
<1>3. ASSUME NEW x \in S PROVE m <= x
  <2>1. m \in Nat /\ x \in Nat
    OBVIOUS
  <2>2. ~(x < m)
    BY <1>2, <2>1 DEF OpToRel
  <2> QED
    BY <2>1, <2>2
<1> QED
  BY <1>3 DEF Min

\* One that is bounded has its greatest.
LEMMA MaxIsGreatest ==
  ASSUME NEW S, S \subseteq Nat, S # {}, NEW m \in Nat, \A x \in S : x <= m
  PROVE  Max(S) \in S /\ \A x \in S : x <= Max(S)
<1> DEFINE T == {m - x : x \in S}
<1>1. T \subseteq Nat /\ T # {}
  <2>1. ASSUME NEW x \in S PROVE m - x \in Nat
    <3>1. x \in Nat /\ x <= m
      OBVIOUS
    <3> QED
      BY <3>1
  <2>2. T # {}
    OBVIOUS
  <2> QED
    BY <2>1, <2>2
<1>2. Min(T) \in T /\ \A t \in T : Min(T) <= t
  BY <1>1, MinIsLeast
<1>3. PICK g \in S : Min(T) = m - g
  BY <1>2
<1>4. \A x \in S : m - x \in T
  OBVIOUS
<1> HIDE DEF T
<1>5. \A x \in S : x <= g
  <2> SUFFICES ASSUME NEW x \in S PROVE x <= g
    OBVIOUS
  <2>1. m - g <= m - x
    BY <1>2, <1>3, <1>4
  <2> QED
    BY <2>1
<1> QED
  BY <1>5 DEF Max

\* The latest date so far.
LEMMA Later ==
  ASSUME NEW a \in Nat, NEW b \in Nat
  PROVE  Max({a, b}) \in {a, b} /\ a <= Max({a, b}) /\ b <= Max({a, b})
<1>1. Max({a, b}) \in {a, b} /\ \A x \in {a, b} : x <= Max({a, b})
  <2>1. a + b \in Nat /\ \A x \in {a, b} : x <= a + b
    OBVIOUS
  <2> QED
    BY <2>1, MaxIsGreatest
<1> QED
  BY <1>1

\* What 6D-1 keeps of a cache is a bar, and a final one.
LEMMA TrimmedIsFinal ==
  ASSUME TypeOK, AllFinal, cache # None
  PROVE  Trimmed(cache) \in Bars /\ Final(Trimmed(cache))
<1> DEFINE E == {b \in Bars : b < cache}
<1>1. cache \in Bars /\ cache \in Nat /\ reached \in Nat /\ cache <= reached
  BY DEF TypeOK, AllFinal, Dates
<1>2. CASE E # {}
  <2>1. Max(E) \in E
    <3>1. ASSUME NEW b \in E PROVE b \in Nat /\ b <= cache
      <4>1. b \in Nat /\ b < cache
        BY DatesAreDates
      <4> QED
        BY <1>1, <4>1
    <3> HIDE DEF E
    <3> QED
      BY <1>1, <1>2, <3>1, MaxIsGreatest
  <2>2. Trimmed(cache) = Max(E)
    BY <1>2 DEF Trimmed
  <2>3. Trimmed(cache) \in Bars /\ Trimmed(cache) < cache
    BY <2>1, <2>2
  <2>4. Trimmed(cache) \in Nat
    BY <2>3
  <2>5. Trimmed(cache) < reached
    BY <1>1, <2>3, <2>4
  <2> QED
    BY <2>3, <2>5 DEF Final
<1>3. CASE E = {}
  <2>1. Trimmed(cache) = cache
    BY <1>3 DEF Trimmed
  <2>2. PICK b \in Bars : \A d \in Weekdays : b < d
    BY SeriesStartsEarlier
  <2>3. cache <= b
    BY <1>1, <1>3
  <2>4. \A d \in Weekdays : cache < d
    BY <1>1, <2>2, <2>3
  <2> QED
    BY <1>1, <2>1, <2>4 DEF Final
<1> QED
  BY <1>2, <1>3

\* A group that covers every K is of one run; its common date is that of a bar, and no K
\* has a last row before it.
LEMMA CommonIsCommon ==
  ASSUME TypeOK, NEW g \in FullGroups
  PROVE  /\ \E s \in Seeds : g = [j \in Ks |-> s]
         /\ \A j \in Ks : Readable(mtf[g[j]][j]) /\ mtf[g[j]][j] \in Bars
         /\ \A j \in Ks : Common(g) <= mtf[g[j]][j]
         /\ Common(g) \in Bars
<1>1. PICK s \in Seeds : g = [j \in Ks |-> s]
  BY DEF FullGroups, Groups
<1>2. (\A j \in Ks : Readable(mtf[g[j]][j])) /\ CommonDates(g) # {}
  BY DEF FullGroups, Groups
<1>3. \A j \in Ks : mtf[g[j]][j] \in Bars
  BY <1>1, <1>2 DEF TypeOK, Files, Dates, Readable
<1>4. /\ CommonDates(g) \subseteq Nat /\ mtf[g[1]][1] \in Nat
      /\ \A b \in CommonDates(g) : b <= mtf[g[1]][1]
  <2>1. 1 \in Ks
    BY DEF Ks
  <2> QED
    BY <1>3, <2>1, DatesAreDates DEF CommonDates
<1>5. Max(CommonDates(g)) \in CommonDates(g)
  BY <1>2, <1>4, MaxIsGreatest
<1>6. Common(g) \in Bars /\ \A j \in Ks : Common(g) <= mtf[g[j]][j]
  BY <1>5 DEF Common, CommonDates
<1> QED
  BY <1>1, <1>2, <1>3, <1>6

\* What a write may leave.
LEMMA OutcomeFile ==
  ASSUME NEW old, NEW new, NEW torn, NEW o \in Outcomes(old, new, torn)
  PROVE  o.file \in {old, new, torn} /\ o.fault \in {0, 1}
BY DEF Outcomes

-----------------------------------------------------------------------------
\* The counts and dates that a step leaves.
LEMMA NextIs ==
  ASSUME NEW S, S \subseteq Nat, NEW a \in Nat, \E d \in S : d > a
  PROVE  Min({d \in S : d > a}) \in S /\ Min({d \in S : d > a}) > a
<1> DEFINE L == {d \in S : d > a}
<1>1. L \subseteq Nat /\ L # {}
  OBVIOUS
<1>2. Min(L) \in L
  BY <1>1, MinIsLeast
<1> QED
  BY <1>2

LEMMA KeepsGoing ==
  ASSUME NEW stage, NEW next, k \in Ks, ThenK(stage, next)
  PROVE  k' \in Ks /\ pc' \in {stage, next}
BY DEF ThenK, Ks

\* The cache after a refresh, by whom it may be.
LEMMA CacheStep ==
  ASSUME TypeOK, AllFinal, Refresh \/ RefreshElsewhere
  PROVE  /\ cache' \in Dates /\ reached' \in Dates /\ faults' \in 0..MaxFaults
         /\ cache' <= reached' /\ reached <= reached'
<1>1. cache' \in Dates /\ faults' \in 0..MaxFaults
  BY DEF TypeOK, Refresh, RefreshElsewhere, Dates
<1>2. \A d \in Dates : d \in Nat
  BY DEF Dates, None
<1>3. reached' = Max({reached, cache'}) /\ reached \in Dates
  BY DEF TypeOK, Refresh, RefreshElsewhere
<1>4. reached' \in {reached, cache'} /\ reached <= reached' /\ cache' <= reached'
  BY <1>1, <1>2, <1>3, Later
<1> QED
  BY <1>1, <1>3, <1>4

\* What BuildConfluence builds is of its type.
LEMMA BuiltIsTyped ==
  ASSUME TypeOK, NEW g \in FullGroups
  PROVE  [date |-> Common(g),
          inputs |-> [j \in Ks |-> [seed |-> g[j], date |-> mtf[g[j]][j]]]]
           \in [date : Files, inputs : [Ks -> [seed : Seeds \cup {None}, date : Dates]]]
<1>1. \A j \in Ks : g[j] \in Seeds
  BY CommonIsCommon
<1>2. Common(g) \in Bars /\ \A j \in Ks : mtf[g[j]][j] \in Bars
  BY CommonIsCommon
<1> QED
  BY <1>1, <1>2 DEF Files, Dates

LEMMA TornIsTyped ==
  TornConfluence \in [date : Files, inputs : [Ks -> [seed : Seeds \cup {None}, date : Dates]]]
BY DEF TornConfluence, NoConfluence, Files, Dates, Torn, None

LEMMA Constants ==
  /\ None \in Dates /\ None \in Files /\ Torn \in Files /\ Bars \subseteq Files
  /\ Bars \subseteq Dates /\ 1 \in Ks /\ 0 \in 0..MaxFaults
  /\ ~Readable(None) /\ ~Readable(Torn)
  /\ \A b \in Bars : b \in Nat /\ Readable(b)
  /\ \A w \in Weekdays : w \in Nat
BY DEF None, Torn, Files, Dates, Readable, Ks

-----------------------------------------------------------------------------
\* The types are kept.
LEMMA TypeStep == IInv /\ [Next]_vars => TypeOK' /\ SeedPicked'
<1> SUFFICES ASSUME IInv, [Next]_vars PROVE TypeOK' /\ SeedPicked'
  OBVIOUS
<1> USE Constants DEF IInv, SeedPicked
<1>1. CASE Plan \/ Recheck \/ Report \/ UNCHANGED vars
  <2>1. ASSUME Plan \/ Recheck PROVE TypeOK' /\ SeedPicked'
    <3>1. /\ pc' \in {"pipeline", "refresh", "idle"}
          /\ UNCHANGED <<world, cache, reached, artifacts, k, seed, faults>>
      BY <2>1 DEF Plan, Recheck, Ready
    <3>2. ahead' = (cache > cutoff)
      BY <2>1 DEF Plan, Recheck
    <3>3. ahead' \in BOOLEAN
      BY <3>2
    <3> QED
      BY <3>1, <3>3 DEF world, artifacts, TypeOK, Stages
  <2>2. ASSUME Report PROVE TypeOK' /\ SeedPicked'
    BY <2>2 DEF Report, world, artifacts, TypeOK
  <2>3. ASSUME UNCHANGED vars PROVE TypeOK' /\ SeedPicked'
    BY <2>3 DEF vars, TypeOK
  <2> QED
    BY <1>1, <2>1, <2>2, <2>3
<1>2. CASE Refresh \/ RefreshElsewhere
  BY <1>2, CacheStep DEF Refresh, RefreshElsewhere, world, artifacts, TypeOK, Stages
<1>3. CASE Pipeline
  <2>1. /\ pc' \in {"6D-1", "6D-2"} /\ k' = 1 /\ seed' \in Seeds \cup {None}
        /\ pc' = "6D-1" => seed' \in Seeds
    BY <1>3 DEF Pipeline, Newest
  <2>2. UNCHANGED <<world, cache, reached, artifacts, ahead, faults>>
    BY <1>3 DEF Pipeline
  <2> QED
    BY <2>1, <2>2 DEF world, artifacts, TypeOK, Stages
<1>4. CASE BuildDaily
  <2>1. PICK o \in Outcomes(daily[seed][k], Trimmed(cache), Torn) :
          /\ faults + o.fault <= MaxFaults /\ faults' = faults + o.fault
          /\ daily' = [daily EXCEPT ![seed][k] = o.file]
    BY <1>4 DEF BuildDaily
  <2>2. Trimmed(cache) \in Files
    BY <1>4, TrimmedIsFinal DEF BuildDaily
  <2>3. seed \in Seeds /\ k \in Ks
    BY <1>4 DEF BuildDaily, TypeOK
  <2>4. o.file \in Files /\ o.fault \in {0, 1}
    BY <2>2, <2>3, OutcomeFile DEF TypeOK
  <2>5. daily' \in [Seeds -> [Ks -> Files]] /\ faults' \in 0..MaxFaults
    BY <2>1, <2>3, <2>4 DEF TypeOK
  <2>6. k' \in Ks /\ pc' \in {"6D-1", "6D-2"}
    BY <1>4, <2>3, KeepsGoing DEF BuildDaily
  <2> QED
    BY <1>4, <2>3, <2>5, <2>6 DEF BuildDaily, world, TypeOK, Stages
<1>5. CASE Bridge
  <2>1. k' \in Ks /\ pc' \in {"6D-2", "6D-3"}
    BY <1>5, KeepsGoing DEF Bridge, TypeOK
  <2>2. mtf' \in [Seeds -> [Ks -> Files]] /\ faults' \in 0..MaxFaults
    <3>1. CASE UNCHANGED <<mtf, faults>>
      BY <3>1 DEF TypeOK
    <3>2. ASSUME NEW s \in FirstWith(k), NEW o \in Outcomes(mtf[s][k], daily[s][k], Torn),
                 faults + o.fault <= MaxFaults, faults' = faults + o.fault,
                 mtf' = [mtf EXCEPT ![s][k] = o.file]
          PROVE  mtf' \in [Seeds -> [Ks -> Files]] /\ faults' \in 0..MaxFaults
      <4>1. s \in Seeds /\ k \in Ks
        BY DEF FirstWith, TypeOK
      <4>2. mtf[s][k] \in Files /\ daily[s][k] \in Files
        BY <4>1 DEF TypeOK
      <4>3. o.file \in Files /\ o.fault \in {0, 1}
        BY <4>2, OutcomeFile
      <4> QED
        BY <3>2, <4>1, <4>3 DEF TypeOK
    <3> QED
      BY <1>5, <3>1, <3>2 DEF Bridge
  <2> QED
    BY <1>5, <2>1, <2>2 DEF Bridge, world, TypeOK, Stages
<1>6. CASE BuildConfluence
  <2>1. /\ confl' \in [date : Files, inputs : [Ks -> [seed : Seeds \cup {None}, date : Dates]]]
        /\ faults' \in 0..MaxFaults
    <3>1. CASE UNCHANGED <<confl, faults>>
      BY <3>1 DEF TypeOK
    <3>2. ASSUME NEW g \in Freshest,
                 \E o \in Outcomes(confl, [date |-> Common(g),
                       inputs |-> [j \in Ks |-> [seed |-> g[j], date |-> mtf[g[j]][j]]]],
                       TornConfluence) :
                   /\ faults + o.fault <= MaxFaults /\ faults' = faults + o.fault
                   /\ confl' = o.file
          PROVE  /\ confl' \in [date : Files,
                                inputs : [Ks -> [seed : Seeds \cup {None}, date : Dates]]]
                 /\ faults' \in 0..MaxFaults
      <4> DEFINE built == [date |-> Common(g),
                   inputs |-> [j \in Ks |-> [seed |-> g[j], date |-> mtf[g[j]][j]]]]
      <4>1. g \in FullGroups
        BY DEF Freshest
      <4>2. built \in [date : Files, inputs : [Ks -> [seed : Seeds \cup {None}, date : Dates]]]
        BY <4>1, BuiltIsTyped
      <4>3. PICK o \in Outcomes(confl, built, TornConfluence) :
              /\ faults + o.fault <= MaxFaults /\ faults' = faults + o.fault
              /\ confl' = o.file
        BY <3>2
      <4>4. o.file \in {confl, built, TornConfluence} /\ o.fault \in {0, 1}
        BY OutcomeFile
      <4> HIDE DEF built
      <4> QED
        BY <4>2, <4>3, <4>4, TornIsTyped DEF TypeOK
    <3> QED
      BY <1>6, <3>1, <3>2 DEF BuildConfluence
  <2> QED
    BY <1>6, <2>1 DEF BuildConfluence, world, TypeOK, Stages
<1>7. CASE Kill
  <2>1. /\ daily' \in [Seeds -> [Ks -> Files]] /\ mtf' \in [Seeds -> [Ks -> Files]]
        /\ confl' \in [date : Files, inputs : [Ks -> [seed : Seeds \cup {None}, date : Dates]]]
    <3>1. CASE UNCHANGED artifacts
      BY <3>1 DEF artifacts, TypeOK
    <3>2. CASE daily' = [daily EXCEPT ![seed][k] = Torn] /\ UNCHANGED <<mtf, confl>>
      BY <3>2 DEF TypeOK
    <3>3. ASSUME NEW s \in FirstWith(k), mtf' = [mtf EXCEPT ![s][k] = Torn],
                 UNCHANGED <<daily, confl>>
          PROVE  mtf' \in [Seeds -> [Ks -> Files]]
      BY <3>3 DEF TypeOK
    <3>4. CASE confl' = TornConfluence /\ UNCHANGED <<daily, mtf>>
      BY <3>4, TornIsTyped DEF TypeOK
    <3>5. \/ UNCHANGED artifacts
          \/ daily' = [daily EXCEPT ![seed][k] = Torn] /\ UNCHANGED <<mtf, confl>>
          \/ /\ \E s \in FirstWith(k) : mtf' = [mtf EXCEPT ![s][k] = Torn]
             /\ UNCHANGED <<daily, confl>>
          \/ confl' = TornConfluence /\ UNCHANGED <<daily, mtf>>
      BY <1>7 DEF Kill
    <3> QED
      BY <3>1, <3>2, <3>3, <3>4, <3>5 DEF TypeOK
  <2>2. faults' \in 0..MaxFaults
    BY <1>7 DEF Kill, TypeOK
  <2> QED
    BY <1>7, <2>1, <2>2 DEF Kill, world, TypeOK
<1>8. CASE NextDay
  <2>1. cutoff' \in Weekdays
    BY <1>8, NextIs DEF NextDay, TypeOK
  <2> QED
    BY <1>8, <2>1 DEF NextDay, artifacts, TypeOK
<1>9. CASE Publish
  <2>1. source' \in Bars
    BY <1>9, NextIs DEF Publish, TypeOK
  <2> QED
    BY <1>9, <2>1 DEF Publish, artifacts, TypeOK
<1>10. ASSUME NEW s \in Seeds, MakeRun(s) PROVE TypeOK' /\ SeedPicked'
  BY <1>10 DEF MakeRun, artifacts, TypeOK
<1>11. CASE Hinder
  BY <1>11 DEF Hinder, artifacts, TypeOK
<1> QED
  BY <1>1, <1>2, <1>3, <1>4, <1>5, <1>6, <1>7, <1>8, <1>9, <1>10, <1>11 DEF Next, Steps

-----------------------------------------------------------------------------
\* What 6D-3 makes of a group.
Built(g) == [date |-> Common(g),
             inputs |-> [j \in Ks |-> [seed |-> g[j], date |-> mtf[g[j]][j]]]]

\* The steps that change an artifact: each stage its own kind, by what it reads.
WritesDaily ==
  /\ pc = "6D-1" /\ UNCHANGED <<mtf, confl>>
  /\ \A s \in Seeds, j \in Ks :
       \/ daily'[s][j] \in {daily[s][j], Torn}
       \/ cache # None /\ daily'[s][j] = Trimmed(cache)
WritesMtf ==
  /\ pc = "6D-2" /\ UNCHANGED <<daily, confl>>
  /\ \A s \in Seeds, j \in Ks : mtf'[s][j] \in {mtf[s][j], Torn, daily[s][j]}
WritesConfluence ==
  /\ pc = "6D-3" /\ UNCHANGED <<daily, mtf>>
  /\ confl' \in {confl, TornConfluence} \/ \E g \in FullGroups : confl' = Built(g)

\* Whatever a step does to an artifact is one of these; the day does not end with it.
LEMMA Writes ==
  ASSUME IInv, [Next]_vars
  PROVE  \/ UNCHANGED artifacts
         \/ UNCHANGED <<cutoff, reached>> /\ (WritesDaily \/ WritesMtf \/ WritesConfluence)
<1> USE DEF IInv
<1>1. CASE BuildDaily
  <2>1. PICK o \in Outcomes(daily[seed][k], Trimmed(cache), Torn) :
          daily' = [daily EXCEPT ![seed][k] = o.file]
    BY <1>1 DEF BuildDaily
  <2>2. o.file \in {daily[seed][k], Trimmed(cache), Torn}
    BY OutcomeFile
  <2>3. seed \in Seeds /\ k \in Ks
    BY <1>1 DEF BuildDaily, TypeOK, SeedPicked
  <2>4. ASSUME NEW s \in Seeds, NEW j \in Ks
        PROVE  daily'[s][j] = IF s = seed /\ j = k THEN o.file ELSE daily[s][j]
    BY <2>1, <2>3 DEF TypeOK
  <2> QED
    BY <1>1, <2>2, <2>4 DEF BuildDaily, WritesDaily, world
<1>2. CASE Bridge
  <2>1. ASSUME NEW m \in FirstWith(k), NEW o \in Outcomes(mtf[m][k], daily[m][k], Torn),
               mtf' = [mtf EXCEPT ![m][k] = o.file], NEW s \in Seeds, NEW j \in Ks
        PROVE  mtf'[s][j] \in {mtf[s][j], Torn, daily[s][j]}
    <3>1. o.file \in {mtf[m][k], daily[m][k], Torn}
      BY OutcomeFile
    <3>2. m \in Seeds /\ k \in Ks
      BY DEF FirstWith, TypeOK
    <3>3. mtf'[s][j] = IF s = m /\ j = k THEN o.file ELSE mtf[s][j]
      BY <2>1, <3>2 DEF TypeOK
    <3> QED
      BY <3>1, <3>3
  <2> QED
    BY <1>2, <2>1 DEF Bridge, WritesMtf, world
<1>3. CASE BuildConfluence
  <2>1. CASE UNCHANGED confl
    BY <1>3, <2>1 DEF BuildConfluence, artifacts
  <2>2. ASSUME NEW g \in Freshest, NEW o \in Outcomes(confl, Built(g), TornConfluence),
               confl' = o.file
        PROVE  confl' \in {confl, TornConfluence} \/ \E h \in FullGroups : confl' = Built(h)
    <3>1. o.file \in {confl, Built(g), TornConfluence}
      BY OutcomeFile
    <3>2. g \in FullGroups
      BY DEF Freshest
    <3> QED
      BY <2>2, <3>1, <3>2
  <2> QED
    BY <1>3, <2>1, <2>2 DEF BuildConfluence, Built, WritesConfluence, world
<1>4. CASE Kill
  <2>1. UNCHANGED <<cutoff, reached>>
    BY <1>4 DEF Kill, world
  <2>2. ASSUME pc = "6D-1", daily' = [daily EXCEPT ![seed][k] = Torn], UNCHANGED <<mtf, confl>>
        PROVE  WritesDaily
    BY <2>2 DEF WritesDaily, TypeOK, SeedPicked
  <2>3. ASSUME pc = "6D-2", NEW m \in FirstWith(k), mtf' = [mtf EXCEPT ![m][k] = Torn],
               UNCHANGED <<daily, confl>>
        PROVE  WritesMtf
    BY <2>3 DEF WritesMtf, FirstWith, TypeOK
  <2>4. ASSUME pc = "6D-3", confl' = TornConfluence, UNCHANGED <<daily, mtf>>
        PROVE  WritesConfluence
    BY <2>4 DEF WritesConfluence
  <2> QED
    BY <1>4, <2>1, <2>2, <2>3, <2>4 DEF Kill
<1>5. CASE UNCHANGED artifacts
  BY <1>5
<1> QED
  BY <1>1, <1>2, <1>3, <1>4, <1>5 DEF Next, Steps, Plan, Refresh, Recheck, Pipeline, Report,
     NextDay, Publish, RefreshElsewhere, Hinder, MakeRun, vars, artifacts

\* The cache has never held more than now and before, and dates stay final.
LEMMA ReachedGrows ==
  ASSUME IInv, [Next]_vars
  PROVE  /\ reached <= reached' /\ cache' <= reached'
         /\ \A d \in Nat : Final(d) => Final(d)'
<1> USE DEF IInv
<1>1. \A d \in Dates : d \in Nat
  BY Constants DEF Dates, None
<1>2. reached \in Dates /\ cache \in Dates /\ reached' \in Dates /\ cache' \in Dates
  <2>1. TypeOK'
    BY TypeStep
  <2> QED
    BY <2>1 DEF TypeOK
<1>3. ASSUME UNCHANGED <<cache, reached>> PROVE reached <= reached' /\ cache' <= reached'
  BY <1>1, <1>2, <1>3 DEF AllFinal
<1>4. ASSUME Refresh \/ RefreshElsewhere PROVE reached <= reached' /\ cache' <= reached'
  BY <1>4, CacheStep
<1>5. \/ UNCHANGED <<cache, reached>> \/ Refresh \/ RefreshElsewhere
  BY DEF Next, Steps, Plan, Recheck, Pipeline, BuildDaily, Bridge, BuildConfluence,
     Report, Kill, NextDay, Publish, Hinder, MakeRun, vars
<1>6. reached <= reached' /\ cache' <= reached'
  BY <1>3, <1>4, <1>5
<1> QED
  BY <1>1, <1>2, <1>6 DEF Final

\* What is before a final row is final.
LEMMA EarlierIsFinal ==
  ASSUME NEW d \in Nat, NEW e \in Nat, d <= e, Final(e), reached \in Nat
  PROVE  Final(d)
<1>1. e < reached => d < reached
  OBVIOUS
<1>2. ASSUME NEW w \in Weekdays, e < w PROVE d < w
  <2>1. w \in Nat
    BY DatesAreDates
  <2> QED
    BY <1>2, <2>1
<1> QED
  BY <1>1, <1>2 DEF Final

\* Every date of an artifact stays final.
LEMMA FinalStep == IInv /\ [Next]_vars => AllFinal'
<1> SUFFICES ASSUME IInv, [Next]_vars PROVE AllFinal'
  OBVIOUS
<1> USE DEF IInv
<1> DEFINE Fine(f) == Readable(f) => f \in Bars /\ Final(f)
<1>1. \A f \in Files : Readable(f) => f \in Bars
  BY DEF Files, Dates, Readable
<1>2. \A s \in Seeds, j \in Ks : Fine(daily[s][j]) /\ Fine(mtf[s][j])
  BY <1>1 DEF TypeOK, AllFinal
<1>3. Fine(confl.date)
  BY <1>1 DEF TypeOK, AllFinal
<1>4. Fine(Torn) /\ (cache # None => Fine(Trimmed(cache)))
  BY TrimmedIsFinal, Constants
<1>5. \A s \in Seeds, j \in Ks : Fine(daily'[s][j]) /\ Fine(mtf'[s][j])
  BY <1>2, <1>4, Writes DEF WritesDaily, WritesMtf, WritesConfluence, artifacts
<1>6. Fine(confl'.date)
  <2>1. CASE UNCHANGED confl
    BY <1>3, <2>1
  <2>2. CASE WritesConfluence
    <3>1. CASE confl' \in {confl, TornConfluence}
      <4>1. TornConfluence.date = Torn
        BY DEF TornConfluence, NoConfluence
      <4> QED
        BY <1>3, <1>4, <3>1, <4>1
    <3>2. ASSUME NEW g \in FullGroups, confl' = Built(g) PROVE Fine(confl'.date)
      <4>1. confl'.date = Common(g)
        BY <3>2 DEF Built
      <4>2. Common(g) \in Bars /\ Common(g) <= mtf[g[1]][1] /\ Readable(mtf[g[1]][1])
        BY CommonIsCommon, Constants
      <4>3. g[1] \in Seeds
        BY CommonIsCommon, Constants
      <4>4. mtf[g[1]][1] \in Bars /\ Final(mtf[g[1]][1])
        BY <1>2, <4>2, <4>3, Constants
      <4>5. Common(g) \in Nat /\ mtf[g[1]][1] \in Nat /\ reached \in Nat
        <5>1. Common(g) \in Nat /\ mtf[g[1]][1] \in Nat
          BY <4>2, <4>4
        <5>2. reached \in Nat
          BY DEF TypeOK, Dates, None
        <5> QED
          BY <5>1, <5>2
      <4>6. Final(Common(g))
        BY <4>2, <4>4, <4>5, EarlierIsFinal
      <4> QED
        BY <4>1, <4>2, <4>6
    <3> QED
      BY <2>2, <3>1, <3>2 DEF WritesConfluence
  <2> QED
    BY <2>1, <2>2, Writes DEF WritesDaily, WritesMtf, artifacts
<1>7. \A b \in Bars : Final(b) => Final(b)'
  BY ReachedGrows, Constants
<1>8. \A s \in Seeds, j \in Ks : /\ Readable(daily'[s][j]) => Final(daily[s][j])'
                                 /\ Readable(mtf'[s][j]) => Final(mtf[s][j])'
  BY <1>5, <1>7 DEF Final
<1>9. Readable(confl'.date) => Final(confl.date)'
  BY <1>6, <1>7 DEF Final
<1> QED
  BY <1>8, <1>9, ReachedGrows DEF AllFinal, Readable

-----------------------------------------------------------------------------
\* The stages after a look that said ready are only reached by way of it.
LEMMA LookStep == IInv /\ [Next]_vars => LookedReady'
<1> SUFFICES ASSUME IInv, [Next]_vars, Past(pc') PROVE ahead'
  BY DEF LookedReady
<1> USE DEF IInv, Past
<1>1. CASE Plan \/ Recheck
  BY <1>1 DEF Plan, Recheck, Ready
<1>2. CASE Past(pc) /\ ahead' = ahead
  BY <1>2 DEF LookedReady
<1>3. ASSUME Bridge \/ BuildDaily PROVE Past(pc) /\ ahead' = ahead
  BY <1>3 DEF Bridge, BuildDaily
<1> QED
  BY <1>1, <1>2, <1>3 DEF Next, Steps, Refresh, Pipeline, BuildConfluence, Report, Kill,
     NextDay, Publish, RefreshElsewhere, Hinder, MakeRun, vars

\* The writer is at a stage that changes artifacts only when there is something to do.
LEMMA NothingStep == IInv /\ [Next]_vars => NothingToDo'
<1> SUFFICES ASSUME IInv, [Next]_vars, Reaches' PROVE Covered' /\ pc' \in {"idle", "readiness"}
  BY DEF NothingToDo
<1> USE DEF IInv
<1>1. TypeOK'
  BY TypeStep
<1>2. cutoff \in Nat /\ cutoff' \in Nat /\ cutoff <= cutoff'
  <2>1. cutoff \in Nat /\ cutoff' \in Nat
    BY <1>1, Constants DEF TypeOK
  <2>2. ASSUME NextDay PROVE cutoff <= cutoff'
    <3>1. cutoff' > cutoff
      BY <2>1, <2>2, NextIs, Constants DEF NextDay
    <3> QED
      BY <2>1, <3>1
  <2>3. ~NextDay => cutoff' = cutoff
    BY DEF Next, Steps, Plan, Refresh, Recheck, Pipeline, BuildDaily, Bridge, BuildConfluence,
       Report, Kill, Publish, RefreshElsewhere, Hinder, MakeRun, world, vars
  <2> QED
    BY <2>1, <2>2, <2>3
<1>3. Readable(confl'.date) /\ confl'.date >= cutoff'
  BY DEF Reaches, Readable
<1>4. CASE UNCHANGED confl
  <2>1. confl.date \in Nat
    BY <1>3, <1>4, Constants DEF TypeOK, Files, Dates, Readable
  <2>2. Reaches
    BY <1>2, <1>3, <1>4, <2>1 DEF Reaches
  <2>3. Covered /\ pc \in {"idle", "readiness"}
    BY <2>2 DEF NothingToDo
  <2>4. hindered = {} => Eligible
    BY <2>2, <2>3 DEF Eligible, Reaches, Covered
  <2>5. UNCHANGED artifacts
    BY <2>3, Writes DEF WritesDaily, WritesMtf, WritesConfluence
  <2>6. pc' \in {"idle", "readiness"}
    BY <2>3, <2>4 DEF Next, Steps, Plan, Refresh, Recheck, Pipeline, BuildDaily, Bridge,
       BuildConfluence, Report, Kill, NextDay, Publish, RefreshElsewhere, Hinder, MakeRun, vars
  <2> QED
    BY <2>3, <2>5, <2>6 DEF Covered, artifacts
<1>5. CASE WritesConfluence /\ ~UNCHANGED confl
  <2>1. confl' # TornConfluence
    BY <1>3, Constants DEF TornConfluence, NoConfluence
  <2>2. PICK g \in FullGroups : TRUE
    BY <1>5, <2>1 DEF WritesConfluence
  <2>3. Covered
    BY CommonIsCommon DEF Covered
  <2>4. pc' = "readiness" \/ pc' = "idle"
    BY <1>5 DEF WritesConfluence, Next, Steps, Plan, Refresh, Recheck, Pipeline, BuildDaily,
       Bridge, BuildConfluence, Report, Kill, NextDay, Publish, RefreshElsewhere, Hinder, MakeRun,
       artifacts, vars
  <2> QED
    BY <1>5, <2>3, <2>4 DEF Covered, WritesConfluence
<1> QED
  BY <1>4, <1>5, Writes DEF WritesDaily, WritesMtf, artifacts

\* One run, and no row that a K lacks.
LEMMA VintageStep == IInv /\ [Next]_vars => OneVintage'
<1> SUFFICES ASSUME IInv, [Next]_vars PROVE OneVintage'
  OBVIOUS
<1> USE DEF IInv
<1>1. CASE UNCHANGED confl
  BY <1>1 DEF OneVintage, Readable
<1>2. CASE confl' = TornConfluence
  BY <1>2, Constants DEF OneVintage, TornConfluence, NoConfluence, Readable
<1>3. ASSUME NEW g \in FullGroups, confl' = Built(g) PROVE OneVintage'
  <2>1. /\ confl'.date = Common(g)
        /\ \A j \in Ks : /\ confl'.inputs[j].seed = g[j]
                         /\ confl'.inputs[j].date = mtf[g[j]][j]
    BY <1>3 DEF Built
  <2>2. \A j \in Ks : g[j] = g[1] /\ mtf[g[j]][j] >= Common(g)
    <3>1. \A j \in Ks : /\ Common(g) <= mtf[g[j]][j] /\ mtf[g[j]][j] \in Nat
                        /\ Common(g) \in Nat
      BY CommonIsCommon, Constants
    <3>2. \A j \in Ks : g[j] = g[1]
      BY CommonIsCommon, Constants
    <3> QED
      BY <3>1, <3>2
  <2> QED
    BY <2>1, <2>2, Constants DEF OneVintage
<1> QED
  BY <1>1, <1>2, <1>3, Writes DEF WritesDaily, WritesMtf, WritesConfluence, artifacts

-----------------------------------------------------------------------------
\* The initial states.
LEMMA InitInv == Init => IInv
<1> SUFFICES ASSUME Init PROVE IInv
  OBVIOUS
<1>1. Min(Weekdays) \in Weekdays /\ Min(Bars) \in Bars
  BY MinIsLeast, DatesAreDates
<1>2. /\ pc = "idle" /\ cache = reached /\ cache \in Dates /\ confl = NoConfluence
      /\ \A s \in Seeds, j \in Ks : daily[s][j] = None /\ mtf[s][j] = None
  BY <1>1 DEF Init, Dates
<1>3. ~Readable(confl.date)
  BY <1>2, Constants DEF NoConfluence
<1>4. TypeOK
  <2>1. cutoff \in Weekdays /\ source \in Bars /\ cache \in Dates /\ reached \in Dates
    BY <1>1, <1>2 DEF Init
  <2>2. /\ daily \in [Seeds -> [Ks -> Files]] /\ mtf \in [Seeds -> [Ks -> Files]]
        /\ confl \in [date : Files, inputs : [Ks -> [seed : Seeds \cup {None}, date : Dates]]]
    BY Constants DEF Init, NoConfluence
  <2>3. /\ runs \in [Seeds -> {"absent", "bare", "combos", "full"}]
        /\ mtime \in [Seeds -> Weekdays \cup {0}] /\ hindered \subseteq Hindrances
        /\ pc = "idle" /\ k \in Ks /\ seed = None /\ ahead = FALSE /\ faults = 0
    BY Constants DEF Init
  <2> QED
    BY <2>1, <2>2, <2>3, Constants DEF TypeOK
<1>5. AllFinal
  <2>1. cache <= reached
    <3>1. \A d \in Dates : d \in Nat
      BY Constants DEF Dates, None
    <3>2. cache \in Nat /\ reached = cache
      BY <1>2, <3>1
    <3> QED
      BY <3>2
  <2> QED
    BY <1>2, <1>3, <2>1, Constants DEF AllFinal
<1>6. SeedPicked /\ LookedReady /\ NothingToDo /\ OneVintage
  BY <1>2, <1>3 DEF SeedPicked, LookedReady, Past, NothingToDo, Reaches, OneVintage
<1> QED
  BY <1>4, <1>5, <1>6 DEF IInv

\* The invariant is inductive.
LEMMA InvStep == IInv /\ [Next]_vars => IInv'
BY TypeStep, FinalStep, LookStep, NothingStep, VintageStep DEF IInv

\* Every behaviour keeps the invariant.
THEOREM Invariance == Spec => []IInv
<1>1. Init => IInv
  BY InitInv
<1>2. IInv /\ [Next]_vars => IInv'
  BY InvStep
<1> QED
  BY <1>1, <1>2, PTL DEF Spec

\* The variables keep their types.
THEOREM TypeCorrect == Spec => []TypeOK
<1>1. IInv => TypeOK
  BY DEF IInv
<1> QED
  BY <1>1, Invariance, PTL

\* A ticker that inspect_ticker_pipeline calls current has had a cache beyond the cutoff.
THEOREM CurrentIsEarned == Spec => []EligibleIsEarned
<1>1. ASSUME IInv, Eligible PROVE reached > cutoff
  <2>1. Readable(confl.date) /\ confl.date >= cutoff /\ Final(confl.date)
    BY <1>1 DEF IInv, AllFinal, Eligible
  <2>2. cutoff \in Weekdays /\ cutoff \in Nat
    BY <1>1, Constants DEF IInv, TypeOK
  <2>3. confl.date \in Nat
    BY <1>1, <2>1, Constants DEF IInv, TypeOK, Files, Dates, Readable
  <2>4. reached \in Nat
    BY <1>1, Constants DEF IInv, TypeOK, Dates, None
  <2>5. ~(confl.date < cutoff)
    BY <2>1, <2>2, <2>3
  <2>6. confl.date < reached
    BY <2>1, <2>2, <2>5 DEF Final
  <2> QED
    BY <2>1, <2>2, <2>3, <2>4, <2>6
<1>2. IInv => EligibleIsEarned
  BY <1>1 DEF EligibleIsEarned
<1> QED
  BY <1>2, Invariance, PTL

\* The Confluence artifact is of one StackBuilder run and ends with a row of every K.
THEOREM ConfluenceIsOfOneRun == Spec => []OneVintage
<1>1. IInv => OneVintage
  BY DEF IInv
<1> QED
  BY <1>1, Invariance, PTL

\* Artifacts change only after a look that found the cache ahead of its cutoff.
THEOREM WritesOnlyWhenReady == Spec => OnlyReadyWrites
<1>1. ASSUME IInv, [Next]_vars PROVE artifacts' # artifacts => ahead
  <2>1. artifacts' # artifacts => Past(pc)
    BY <1>1, Writes DEF WritesDaily, WritesMtf, WritesConfluence, Past
  <2> QED
    BY <1>1, <2>1 DEF IInv, LookedReady
<1>2. IInv /\ [Next]_vars => [artifacts' # artifacts => ahead]_vars
  BY <1>1
<1> QED
  BY <1>2, Invariance, PTL DEF Spec, OnlyReadyWrites

\* A current ticker stays so until the day ends or the health report blocks it.
THEOREM CurrentStaysCurrent == Spec => NeverUnmade
<1>1. ASSUME IInv, [Next]_vars, Eligible, ~Eligible'
      PROVE  cutoff' # cutoff \/ "health" \in hindered'
  <2>1. SUFFICES ASSUME cutoff' = cutoff, "health" \notin hindered' PROVE FALSE
    OBVIOUS
  <2>2. Reaches
    BY <1>1 DEF Eligible, Reaches
  <2>3. pc \in {"idle", "readiness"}
    BY <1>1, <2>2 DEF IInv, NothingToDo
  <2>4. UNCHANGED artifacts
    BY <1>1, <2>3, Writes DEF WritesDaily, WritesMtf, WritesConfluence
  <2> QED
    BY <1>1, <2>1, <2>4 DEF Eligible, artifacts, Readable
<1>2. IInv /\ [Next]_vars =>
       [Eligible /\ ~Eligible' => cutoff' # cutoff \/ "health" \in hindered']_vars
  BY <1>1
<1> QED
  BY <1>2, Invariance, PTL DEF Spec, NeverUnmade
=============================================================================
