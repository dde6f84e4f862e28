---------------------------- MODULE PublishLedger ---------------------------
(***************************************************************************)
(* What the publish pipeline promises its readers, whatever runs, fails or *)
(* is killed behind it: the public history of the board only grows, every  *)
(* new board is whole and was built on the one it replaces, and the site   *)
(* serves ever later boards of that history.                               *)
(***************************************************************************)
EXTENDS Integers, Sequences, SequencesExt

CONSTANTS Boards,  \* the boards that a publish may make public
          First    \* the board that is public at the start

VARIABLES ledger,  \* the public history: each entry's board and the board
                   \* that it was built on
          served   \* the entry that the site serves

Entry(board, on) == [board |-> board, on |-> on]

Init == /\ ledger = <<Entry(First, First)>>
        /\ served = 1

\* An entry either leaves the board of the previous one as it is, or brings a
\* board that is new and was built on it.
Lawful(history, i) ==
  LET previous == history[i - 1].board
  IN \/ history[i] = Entry(previous, previous)
     \/ /\ history[i] \in [board : Boards, on : {previous}]
        /\ \A j \in 1 .. i - 1 : history[j].board # history[i].board

Publish == /\ IsStrictPrefix(ledger, ledger')
           /\ \A i \in Len(ledger) + 1 .. Len(ledger') : Lawful(ledger', i)
           /\ UNCHANGED served

Deploy == /\ served' \in served + 1 .. Len(ledger)
          /\ UNCHANGED ledger

Next == Publish \/ Deploy

Spec == Init /\ [][Next]_<<ledger, served>>
=============================================================================
