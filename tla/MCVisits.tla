------------------------------ MODULE MCVisits ------------------------------
(* What is to be done and must come to an end, on small instances: the        *)
(* executions a user follows from project to project, and the tasks of the    *)
(* generation queue, one of the two at a time: focus says which.              *)
EXTENDS Workspace

CONSTANTS A, B, a, a2, b, QueuedTasks, Workers, Reclaimer, Nobody, CrashAt
VARIABLES
  focus,
  stream, base, cursor, pending, idle, due, dead, doneKey, lock, status, con, batch, phase,
  moving, crashes, direct, runs, turnedDown

\* Two projects; in one of them a second image of a node gets a node of its own.
MCHome == [n \in {a, a2, b} |-> IF n = b THEN B ELSE A]
MCSibling == [n \in {a, a2, b} |-> IF n = a THEN a2 ELSE None]

queueVars == <<stream, base, cursor, pending, idle, due, dead, doneKey, lock, status, con,
  batch, phase, moving, crashes, direct, runs, turnedDown>>

Queue == INSTANCE GenQueue WITH
  Execs <- QueuedTasks, MaxRetry <- 1, MaxLen <- 5, MaxEntries <- 4, MaxCrash <- 1,
  Stall <- FALSE, Faults <- {"enqueue", "reply", "exists", "find", "done", "retry"},
  refused <- turnedDown

\* Of what an earlier tab left the queue takes one choice: nothing.
VisitsInit ==
  /\ focus \in {"visit", "queue"} /\ Init /\ Queue!Init
  /\ focus = "queue" => \A p \in Projects : \A n \in DOMAIN board[p] : board[p][n] = Fresh
VisitsNext ==
  /\ UNCHANGED focus
  /\ \/ focus = "visit" /\ Next /\ UNCHANGED queueVars
     \/ focus = "queue" /\ Queue!Next /\ UNCHANGED vars

\* The fairness of the two, each where it is in use.
VisitsFairness ==
  /\ WF_vars(focus = "visit" /\ Answers) /\ WF_vars(focus = "visit" /\ Serves)
  /\ WF_vars(focus = "visit" /\ Resumes) /\ WF_vars(focus = "visit" /\ ReleaseButton)
  /\ WF_vars(focus = "visit" /\ \E t \in tails : Reconcile(t))
  /\ \A e \in 1..MaxRuns : WF_vars(focus = "visit" /\ e \in Execs /\ Ends(e))
  /\ \A w \in Workers : WF_queueVars(focus = "queue" /\ Queue!Read(w))
  /\ \A c \in Queue!Consumers : WF_queueVars(focus = "queue" /\ Queue!Handle(c))
  /\ \A t \in QueuedTasks : WF_queueVars(focus = "queue" /\ Queue!LockOut(t))
  /\ \A m \in 1..4 : WF_queueVars(focus = "queue" /\ m \in Queue!Entries /\ Queue!LeaseOut(m))
  /\ WF_queueVars(focus = "queue" /\
       (Queue!TakeNext \/ Queue!ClearLocks \/ Queue!Claim \/ Queue!MoveRemove \/ Queue!Tick))
  /\ SF_queueVars(focus = "queue" /\ Queue!MoveAdd)
VisitsSpec == VisitsInit /\ [][VisitsNext]_<<focus, vars, queueVars>> /\ VisitsFairness
-----------------------------------------------------------------------------
\* A card of the canvas does not turn for ever (useExecutionStream.ts), and a
\* task that was enqueued is done, refused, dead-lettered or handed to the
\* process itself (queue.go, handle).
EverythingEnds == SpinnerStops /\ Queue!EveryTaskCloses
=============================================================================
