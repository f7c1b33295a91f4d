------------------------------ MODULE MCQueues ------------------------------
(* The generation queue under three kinds of trouble, one chosen at the       *)
(* start: a restart of the process with two executions, calls of every kind   *)
(* failing for one execution, and a restart between refusals and retries.     *)
EXTENDS GenQueue, TLC, FiniteSets

CONSTANTS RestartCrashAt, AllFaults

VARIABLE trouble

\* Workers are interchangeable, and so are executions.
Symmetry == Permutations(Execs) \cup Permutations(Workers)

\* The refusals are those of the module itself.
Restarting == INSTANCE GenQueue WITH
  MaxEntries <- 4, CrashAt <- RestartCrashAt, Faults <- {"lock", "done"}
Failing == INSTANCE GenQueue WITH
  MaxEntries <- 3, MaxCrash <- 0, CrashAt <- {}, Faults <- AllFaults

\* Bound: one execution in the failing world.
QueuesNext ==
  /\ trouble' = trouble
  /\ \/ trouble = "restart" /\ Restarting!Next
     \/ trouble = "failing" /\ Failing!Next /\ Cardinality({e \in Execs : status'[e] # "none"}) <= 1
     \/ trouble = "refusing" /\ Next
QueuesInit == Init /\ trouble \in {"restart", "failing", "refusing"}
QueuesSpec == QueuesInit /\ [][QueuesNext]_<<vars, trouble>>

-----------------------------------------------------------------------------
\* handle, ErrNoRetry: a refused execution is never run again, as long as its
\* done key is written and its entry acknowledged.
RefusedStaysRefused ==
  [][trouble = "refusing" => \A e \in refused : runs'[e] = runs[e]]_<<vars, trouble>>

\* handle, Task.Retry: one run, MaxRetry more, and one for every restart.
RunsStayBounded == trouble = "refusing" => RunsBounded
=============================================================================
