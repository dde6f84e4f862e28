----------------------- MODULE MCControlledCompute --------------------------
(* Small instances of ControlledCompute: three jobs on two processors, serial *)
(* or in a pool, with a search root of their own or a shared one; requests    *)
(* that are rejected; a dry run.                                              *)
EXTENDS ControlledCompute

CONSTANTS r1, r2

Layouts ==
  { [look |-> <<"search", "search", "none">>, root |-> <<r1, r1, r1>>, required |-> <<TRUE, FALSE, FALSE>>],
    [look |-> <<"search", "none", "exact">>, root |-> <<r1, r1, r2>>, required |-> <<FALSE, FALSE, TRUE>>],
    [look |-> <<"none", "none", "search">>, root |-> <<r1, r1, r1>>, required |-> <<TRUE, FALSE, TRUE>>] }

Options ==
  { [mode |-> "serial", workers |-> 2, maxJobs |-> 0, failFast |-> f, dryRun |-> FALSE, strict |-> f] : f \in BOOLEAN }
  \cup { [mode |-> "local_process_pool", workers |-> w, maxJobs |-> 3, failFast |-> TRUE, dryRun |-> FALSE, strict |-> FALSE] : w \in {0, 2} }
  \cup { [mode |-> "serial", workers |-> 1, maxJobs |-> 1, failFast |-> TRUE, dryRun |-> FALSE, strict |-> FALSE],
         [mode |-> "serial", workers |-> 1, maxJobs |-> 3, failFast |-> TRUE, dryRun |-> TRUE, strict |-> TRUE] }

SmallRequests ==
  { [mode |-> o.mode, workers |-> o.workers, maxJobs |-> o.maxJobs, failFast |-> o.failFast,
     dryRun |-> o.dryRun, strict |-> o.strict,
     look |-> l.look, root |-> l.root, required |-> l.required] : o \in Options, l \in Layouts }
TwoRoots == {r1, r2}
=============================================================================
