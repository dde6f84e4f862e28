------------------------------- MODULE RunLock -------------------------------
(***************************************************************************)
(* What the crunch lock is to the runs that take it: at most one run at a  *)
(* time relies on it; a run that ends gives it back or leaves it taken;    *)
(* and a lock that was left taken is taken over only by a run that was     *)
(* started to do so, when nobody relies on it any more.                    *)
(*                                                                         *)
(* CrunchLock implements it file-system call by file-system call, and the  *)
(* lock of the runs in RerankDriver is one.                                *)
(***************************************************************************)
CONSTANT Procs  \* the runs

VARIABLES
  claim,    \* {p} when the lock names p, {} when it is free
  inside,   \* the runs that rely on having the lock
  entitled  \* the runs started to take over a lock that was left; not the
            \* lock's own state, and nothing is said of how it changes

vars == <<claim, inside>>

Init == claim = {} /\ inside = {}

Enter(p) == claim' = {p} /\ inside' = {p}

Take(p) == claim = {} /\ inside = {} /\ Enter(p)

TakeOver(p) == claim # {} /\ inside = {} /\ p \in entitled /\ Enter(p)

\* The end of a run, or its death.
Leave(p) == /\ claim = {p} /\ inside = {p}
            /\ inside' = {}
            /\ claim' \in {{}, claim}

Next == \E p \in Procs : Take(p) \/ TakeOver(p) \/ Leave(p)

Spec == Init /\ [][Next]_vars
=============================================================================
