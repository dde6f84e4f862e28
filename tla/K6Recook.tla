------------------------------ MODULE K6Recook ------------------------------
(***************************************************************************)
(* The verdict of one run of k6_recook.py over the secondaries it was asked *)
(* for: which of them fall at which barrier of the chain stage 0 -> A ->   *)
(* Aprime -> B -> E -> F, what the envelope says of them, and which rows   *)
(* the ranking artifact has.                                               *)
(***************************************************************************)
EXTENDS FiniteSets

\* How far a secondary comes: its directory is not there (or has no combo file), it has
\* no usable plan, a ticker it depends on is unavailable for an allowable reason, it falls
\* at Aprime, B or E, its history cannot be scored, or it is ranked.
Fates == {"missing", "unplanned", "unavailable", "dropped", "unscored", "ranked"}

\* driver.exclusions at the end of the chain.  A missing directory is not among them,
\* and neither is a secondary that stage F cannot score.
Excluded(fate) == {s \in DOMAIN fate : fate[s] \in {"unplanned", "unavailable", "dropped"}}

\* The rows of the ranking artifact: the unscored ones are in it, without a rank.
Rows(fate) == {s \in DOMAIN fate : fate[s] \in {"unscored", "ranked"}}

\* Nobody comes as far as the ranking, a fault that is not one secondary's own (a pointer
\* that cannot be written, a provider that blocks, a ranking in which every history was
\* unreadable), or an unavailable ticker without the flag that allows such exclusions: the
\* chain halts and no ranking is written.
Halts(fate, strict, systemic) ==
  \/ systemic
  \/ strict /\ \E s \in DOMAIN fate : fate[s] = "unavailable"
  \/ Rows(fate) = {}

\* status of the envelope; "failed" stands for "refused" too.
Status(fate, strict, systemic) ==
  IF Halts(fate, strict, systemic) THEN "failed"
  ELSE IF Excluded(fate) = {} THEN "ok" ELSE "partial"
=============================================================================
