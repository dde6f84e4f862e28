---------------------------- MODULE AtomicReplace ----------------------------
(***************************************************************************)
(* What the promotion writer is to the directory it writes into: a batch   *)
(* that replaces the files it wants, all of them or none, out of a source  *)
(* that may move under it.  A batch that fails leaves the directory alone, *)
(* except for the files whose restore is lost; one that is killed leaves   *)
(* some of the files replaced and the others as they were.  The other      *)
(* programs that write into the directory are not run beside a batch.      *)
(*                                                                         *)
(* StablePromotion implements it, one copied and one restored file at a    *)
(* time: what it has copied counts for nothing until the batch is through. *)
(***************************************************************************)
CONSTANTS
  Libs,     \* the libraries
  Parts,    \* the files of each
  Contents  \* what a file may hold

VARIABLES
  files,   \* what the files of the directory hold
  source,  \* what a batch copies
  phase,   \* "open", "busy", or "failing"
  wanted,  \* the files that the batch replaces
  moved    \* the libraries whose source has changed since it began

vars == <<files, source, phase, wanted, moved>>

Files == Libs \X Parts

Init == /\ files \in [Files -> Contents] /\ source \in [Files -> Contents]
        /\ phase = "open" /\ wanted = {} /\ moved = {}

\* The library is staged anew, at any time.
Restage(l) ==
  /\ source' \in [Files -> Contents]
  /\ \A f \in Files : f[1] # l => source'[f] = source[f]
  /\ moved' = IF phase = "open" THEN moved ELSE moved \cup {l}
  /\ UNCHANGED <<files, phase, wanted>>

\* Another program writes a library between two batches.
Write(l) ==
  /\ phase = "open"
  /\ files' \in [Files -> Contents]
  /\ \A f \in Files : f[1] # l => files'[f] = files[f]
  /\ UNCHANGED <<source, phase, wanted, moved>>

Begin == /\ phase = "open" /\ phase' = "busy"
         /\ wanted' \in SUBSET Files
         /\ UNCHANGED <<files, source, moved>>

\* The file holds what was staged, or what was staged since.
Replaced(f) == files'[f] = source[f] \/ f[1] \in moved

Close == phase' = "open" /\ wanted' = {} /\ moved' = {} /\ UNCHANGED source

Commit == /\ phase = "busy"
          /\ files' \in [Files -> Contents]
          /\ \A f \in Files : IF f \in wanted THEN Replaced(f) ELSE files'[f] = files[f]
          /\ Close

Fail == phase = "busy" /\ phase' = "failing" /\ UNCHANGED <<files, source, wanted, moved>>

\* The file that was to be put back keeps what the batch has put there.
LoseRestore == /\ phase = "failing"
               /\ files' \in [Files -> Contents]
               /\ \E f \in wanted : /\ Replaced(f)
                                    /\ \A g \in Files \ {f} : files'[g] = files[g]
               /\ UNCHANGED <<source, phase, wanted, moved>>

Abandon == phase = "failing" /\ Close /\ UNCHANGED files

Break == /\ phase # "open"
         /\ files' \in [Files -> Contents]
         /\ \A f \in Files : files'[f] # files[f] => f \in wanted /\ Replaced(f)
         /\ Close

Next == \/ \E l \in Libs : Restage(l) \/ Write(l)
        \/ Begin \/ Commit \/ Fail \/ LoseRestore \/ Abandon \/ Break

Spec == Init /\ [][Next]_vars
=============================================================================
