---------------------------- MODULE VideoCharge ----------------------------
(***************************************************************************)
(* The money of one video node of one workflow execution.                  *)
(*                                                                         *)
(* A run is one pass of the queue's worker through VideoExecutor.Execute.  *)
(* It charges the user, submits an upstream task, polls it, stores the     *)
(* video and settles the charge; a run that dies or fails retryably is     *)
(* followed by another run of the same execution.  Around the runs act     *)
(* the administrator's "refund" clicks (Ledger.RefundManually) and the     *)
(* watchdog of stale executions.  They share four stores: the user's       *)
(* credits (charged, bill), the reconciliation rows of provider_tasks      *)
(* (rows, order), the Redis task reference of the node (ref) and the Redis *)
(* set of refund markers (marker).                                         *)
(*                                                                         *)
(* A run takes at most one charge and creates at most one upstream task,   *)
(* so the charge key and the task id of run r are both written r.          *)
(***************************************************************************)
EXTENDS ProviderTasks, Naturals, Sequences, FiniteSets, TLC

CONSTANTS
  Runs,      \* passes through VideoExecutor.Execute
  Clicks,    \* presses of the "refund" button, each served once
  MaxRetry,  \* queue.max_retry
  DownloadFailureLimit,
  Overlap,   \* may the queue redeliver a message whose run is still alive?
  Watchdog,  \* is the watchdog of stale executions running?
  OldSuccess,\* does the canvas still show an earlier generation as a success?
  CrashAt,   \* labels of a run or a click at which its process may die
  Faults     \* calls that may fail: a subset of Calls

Calls == {"plan", "charge", "record", "mark", "pay", "confirm"}

Payers == Runs \cup Clicks

Symmetry == Permutations(Runs) \cup Permutations(Clicks)

ASSUME VideoChargeAssumption ==
  /\ None \notin Payers
  /\ Runs \cap Clicks = {}
  /\ MaxRetry \in Nat
  /\ DownloadFailureLimit \in Nat \ {0}
  /\ Overlap \in BOOLEAN
  /\ Watchdog \in BOOLEAN
  /\ OldSuccess \in BOOLEAN
  /\ Faults \subseteq Calls

VARIABLES
  act,      \* act[r]: where run r is and its local variables
  click,    \* click[a]: where refund request a is, the row and task it holds
  charged,  \* charged[c]: credits were deducted under charge key c
  bill,     \* bill[p]: the refund entry of payer p, once credits were returned
  rows,     \* rows[k]: the row k of provider_tasks
  order,    \* the keys of the existing rows, oldest first
  ref,      \* the async task reference of the node in Redis
  marker,   \* task ids whose refund marker is set in Redis
  upstream, \* upstream[t]: what became of task t, and the charge it was made for
  given,    \* charges whose video reached the user (generation_history)
  msg,      \* the queue's message of the execution
  retries,  \* Task.Retry
  exec,     \* status of the execution
  dog       \* the watchdog

vars == <<act, click, charged, bill, rows, order, ref, marker, upstream, given,
          msg, retries, exec, dog>>

MaybeRun == Runs \cup {None}

\* A row is keyed by charge_key, or by task_id when it was written without one.
RowKeys == {"charge", "task"} \X Runs

\* `charge` is the charge a reference stands for, `key` the charge_key it
\* carries: the same, except when it was rebuilt from a row without one.
NoRef == [task |-> None, charge |-> None, key |-> None, failures |-> 0]
Refs ==
  [task : Runs, charge : MaybeRun, key : MaybeRun, failures : Nat] \cup {NoRef}

NoBill == [charge |-> None, task |-> None, key |-> None]
Bills == [charge : MaybeRun, task : MaybeRun, key : MaybeRun]

Paid(p) == bill[p].charge # None

RunLabels ==
  {"idle", "load", "check", "charge", "recordCharge", "create", "saveRef",
   "hook", "poll", "recordFailure", "takeRef", "askRefunded", "mark", "pay",
   "unmark", "restore", "recordRefund", "consume", "download", "countFailure",
   "abandon", "recordAbandon", "history", "recordDelivered", "clearRef",
   "ended", "over"}

NoRun == [pc |-> "idle", charge |-> None, key |-> None, task |-> None,
          own |-> FALSE, resumed |-> FALSE, why |-> "none", failures |-> 0,
          outcome |-> "none"]

RunStates ==
  [pc : RunLabels,
   charge : MaybeRun,   \* the charge taskRef stands for
   key : MaybeRun,      \* taskRef.ChargeKey
   task : MaybeRun,     \* taskRef.TaskID
   own : BOOLEAN,       \* chargedAmount > 0: this run took the charge
   resumed : BOOLEAN,   \* resumeRef # nil
   why : {"none", "rejected", "unknown"},
   failures : Nat,      \* taskRef.DownloadFailures
   outcome : {"none", "ok", "retry", "noretry"}]

ClickLabels == {"idle", "claimed", "paying", "unmarking", "reverting", "confirming", "done"}
ClickStates == [pc : ClickLabels, row : RowKeys \cup {None}, task : MaybeRun]

\* The watchdog's pass over the execution: its evidence of delivery and the
\* task reference it read.
NoDog == [pc |-> "idle", ref |-> NoRef, delivered |-> FALSE]

Alive(r) == act[r].pc \notin {"idle", "over"}

TypeOK ==
  /\ act \in [Runs -> RunStates]
  /\ click \in [Clicks -> ClickStates]
  /\ charged \in [Runs -> BOOLEAN]
  /\ bill \in [Payers -> Bills]
  /\ rows \in [RowKeys -> Row(Runs)]
  /\ order \in Seq(RowKeys)
  /\ ref \in Refs
  /\ marker \subseteq Runs
  /\ upstream \in [Runs -> [state : {"none", "running", "done", "rejected"},
                            charge : MaybeRun]]
  /\ given \subseteq MaybeRun
  /\ msg \in {"queued", "taken", "gone"}
  /\ retries \in Nat
  /\ exec \in {"pending", "running", "done", "failed"}
  /\ dog \in [pc : {"idle", "judge", "close"}, ref : Refs, delivered : BOOLEAN]

Init ==
  /\ act = [r \in Runs |-> NoRun]
  /\ click = [a \in Clicks |-> [pc |-> "idle", row |-> None, task |-> None]]
  /\ charged = [c \in Runs |-> FALSE]
  /\ bill = [p \in Payers |-> NoBill]
  /\ rows = [k \in RowKeys |-> NoRow]
  /\ order = <<>>
  /\ ref = NoRef
  /\ marker = {}
  /\ upstream = [t \in Runs |-> [state |-> "none", charge |-> None]]
  /\ given = {}
  /\ msg = "queued"
  /\ retries = 0
  /\ exec = "pending"
  /\ dog = NoDog
-----------------------------------------------------------------------------
(* Shared stores *)

\* A call that Faults names may fail; its error is seen by the caller.
Succeeds(call) == IF call \in Faults THEN BOOLEAN ELSE {TRUE}

ChargeRow(c) == <<"charge", c>>
TaskRow(t) == <<"task", t>>

HoldsTask(k, t) == Exists(rows[k]) /\ rows[k].task = t

\* INSERT ... ON CONFLICT on row k: the row is created or updated.
Put(k, new) ==
  /\ rows' = [rows EXCEPT ![k] = Upserted(@, new)]
  /\ order' = IF Exists(rows[k]) THEN order ELSE Append(order, k)

\* Ledger.Record with a charge key.  Its error is dropped by every caller; the
\* unique index on task_id makes it fail when another row has the task id.
RecordCharge(c, status, refunded, t) ==
  \E ok \in Succeeds("record") :
    IF ok /\ (t = None \/ \A k \in RowKeys \ {ChargeRow(c)} : ~HoldsTask(k, t))
    THEN Put(ChargeRow(c), [status |-> status, refunded |-> refunded, task |-> t])
    ELSE UNCHANGED <<rows, order>>

\* Ledger.Record with a task id only: it lands on the row that has the task id.
RecordTask(t, status, refunded) ==
  \E ok \in Succeeds("record") :
    LET new == [status |-> status, refunded |-> refunded, task |-> t]
    IN IF ~ok THEN UNCHANGED <<rows, order>>
       ELSE IF \E k \in RowKeys : HoldsTask(k, t)
            THEN \E k \in RowKeys : HoldsTask(k, t) /\ Put(k, new)
            ELSE Put(TaskRow(t), new)

\* ActiveChargeByNode: the newest row that is still outstanding.
IsLatestOutstanding(i) ==
  /\ Outstanding(rows[order[i]])
  /\ \A j \in DOMAIN order : j > i => ~Outstanding(rows[order[j]])

SomeOutstanding == \E i \in DOMAIN order : Outstanding(rows[order[i]])

\* recordProviderTask: by charge key if there is one, else by task id.
RecordProviderTask(c, t, status, refunded) ==
  \/ c # None /\ RecordCharge(c, status, refunded, t)
  \/ c = None /\ t # None /\ RecordTask(t, status, refunded)
  \/ c = None /\ t = None /\ UNCHANGED <<rows, order>>

\* TakeAsyncTaskRef (GETDEL), ClearAsyncTaskRef, SaveAsyncTaskRef.
DeleteRef == ref' = NoRef
SaveRef(r) == ref' = [task |-> act[r].task, charge |-> act[r].charge,
                      key |-> act[r].key, failures |-> act[r].failures]

At(r, label) == act[r].pc = label
Goto(r, label) == act' = [act EXCEPT ![r].pc = label]
End(r, outcome) == act' = [act EXCEPT ![r] = [@ EXCEPT !.pc = "ended", !.outcome = outcome]]

money == <<charged, bill>>
table == <<rows, order>>
redis == <<ref, marker>>
world == <<upstream, given>>
sched == <<msg, retries, exec, dog>>
-----------------------------------------------------------------------------
(* Taking the charge *)

\* The queue hands the execution to a worker: HandleQueuedTask sets it running.
Start(r) ==
  /\ msg = "queued" /\ exec # "done"
  /\ At(r, "idle")
  /\ Overlap \/ \A q \in Runs : ~Alive(q)
  /\ msg' = "taken"
  /\ exec' = "running"
  /\ Goto(r, "load")
  /\ UNCHANGED <<click, money, table, redis, world, retries, dog>>

\* Mutant: the failed downloads counted so far are not carried over.
LoadForgetful(r) ==
  /\ At(r, "load")
  /\ IF ref = NoRef
     THEN Goto(r, "check")
     ELSE act' = [act EXCEPT ![r] = [@ EXCEPT
            !.pc = "create", !.resumed = TRUE, !.task = ref.task,
            !.charge = ref.charge, !.key = ref.key]]
  /\ UNCHANGED <<click, money, table, redis, world, sched>>

\* LoadAsyncTaskRef: resume the submitted task if there is one.
Load(r) ==
  /\ At(r, "load")
  /\ IF ref = NoRef
     THEN Goto(r, "check")
     ELSE act' = [act EXCEPT ![r] = [@ EXCEPT
            !.pc = "create", !.resumed = TRUE, !.task = ref.task,
            !.charge = ref.charge, !.key = ref.key, !.failures = ref.failures]]
  /\ UNCHANGED <<click, money, table, redis, world, sched>>

ChargeOfRow(k) == IF k[1] = "charge" THEN k[2] ELSE upstream[k[2]].charge
KeyOfRow(k) == IF k[1] = "charge" THEN k[2] ELSE None

\* Mutant: charge without asking for an outstanding charge of the node.
CheckNothing(r) ==
  /\ At(r, "check")
  /\ Goto(r, "charge")
  /\ UNCHANGED <<click, money, table, redis, world, sched>>

\* activeChargeByNode: reuse an outstanding charge of this node, or charge.
Check(r) ==
  /\ At(r, "check")
  /\ \/ /\ ~SomeOutstanding
        /\ Goto(r, "charge")
     \/ \E i \in DOMAIN order :
          /\ IsLatestOutstanding(i)
          /\ act' = [act EXCEPT ![r] = [@ EXCEPT
               !.pc = "create", !.charge = ChargeOfRow(order[i]),
               !.key = KeyOfRow(order[i])]]
  /\ UNCHANGED <<click, money, table, redis, world, sched>>

\* ChargeVideoByDuration; an error (say, too few credits) ends the run.
Charge(r) ==
  /\ At(r, "charge")
  /\ \/ /\ charged' = [charged EXCEPT ![r] = TRUE]
        /\ act' = [act EXCEPT ![r] = [@ EXCEPT
             !.pc = "recordCharge", !.own = TRUE, !.charge = r, !.key = r]]
     \/ /\ "charge" \in Faults
        /\ End(r, "retry")
        /\ UNCHANGED charged
  /\ UNCHANGED <<click, bill, table, redis, world, sched>>

\* recordLocalCharge(submitted): from here on the charge can be seen.
RecordLocalCharge(r) ==
  /\ At(r, "recordCharge")
  /\ RecordCharge(r, "submitted", FALSE, None)
  /\ Goto(r, "create")
  /\ UNCHANGED <<click, money, redis, world, sched>>
-----------------------------------------------------------------------------
(* The upstream task *)

\* GenerateVideo submits a task, unless the holder already has one.  The
\* provider may reject it, or accept it; the answer may be lost either way.
Create(r) ==
  /\ At(r, "create")
  /\ \/ /\ act[r].task # None
        /\ Goto(r, "poll")
        /\ UNCHANGED upstream
     \/ /\ act[r].task = None
        /\ upstream' = [upstream EXCEPT ![r] =
                          [state |-> "running", charge |-> act[r].charge]]
        /\ \/ act' = [act EXCEPT ![r] = [@ EXCEPT !.pc = "saveRef", !.task = r]]
           \/ act' = [act EXCEPT ![r] = [@ EXCEPT !.pc = "recordFailure", !.why = "unknown"]]
     \/ /\ act[r].task = None
        /\ \E why \in {"rejected", "unknown"} :
             act' = [act EXCEPT ![r] = [@ EXCEPT !.pc = "recordFailure", !.why = why]]
        /\ UNCHANGED upstream
  /\ UNCHANGED <<click, money, table, redis, given, sched>>

\* RecordSubmittedTask: the reference in Redis, then the hook on the row.
SaveTaskRef(r) ==
  /\ At(r, "saveRef")
  /\ SaveRef(r)
  /\ Goto(r, "hook")
  /\ UNCHANGED <<click, money, table, marker, world, sched>>

SubmittedHook(r) ==
  /\ At(r, "hook")
  /\ RecordProviderTask(act[r].key, act[r].task, "submitted", FALSE)
  /\ Goto(r, "poll")
  /\ UNCHANGED <<click, money, redis, world, sched>>

\* The poll ends with the provider's verdict, which never changes, or without
\* one: budget used up, deadline of the execution, cancellation.
Poll(r) ==
  /\ At(r, "poll")
  /\ LET t == act[r].task IN
     \/ \E verdict \in {"done", "rejected"} :
          /\ upstream[t].state \in {"running", verdict}
          /\ upstream' = [upstream EXCEPT ![t].state = verdict]
          /\ IF verdict = "done"
             THEN Goto(r, "download")
             ELSE act' = [act EXCEPT ![r] = [@ EXCEPT !.pc = "recordFailure", !.why = "rejected"]]
     \/ /\ act' = [act EXCEPT ![r] = [@ EXCEPT !.pc = "recordFailure", !.why = "unknown"]]
        /\ UNCHANGED upstream
  /\ UNCHANGED <<click, money, table, redis, given, sched>>
-----------------------------------------------------------------------------
(* A failed generation *)

\* The row becomes pending_review first, whatever follows.  Only a rejection
\* is refunded here, and only of a charge this run took or resumed.
RecordFailure(r) ==
  /\ At(r, "recordFailure")
  /\ RecordProviderTask(act[r].key, act[r].task, "pending_review", FALSE)
  /\ IF act[r].resumed THEN Goto(r, "takeRef")
     ELSE IF ~act[r].own THEN End(r, "noretry")
     ELSE IF act[r].why = "rejected" THEN Goto(r, "askRefunded")
     ELSE Goto(r, "consume")
  /\ UNCHANGED <<click, money, redis, world, sched>>

\* A resumed run claims the reference: only the one that gets it refunds.
TakeRef(r) ==
  /\ At(r, "takeRef")
  /\ DeleteRef
  /\ IF ref = NoRef \/ act[r].why # "rejected"
     THEN End(r, "noretry")
     ELSE act' = [act EXCEPT ![r] = [@ EXCEPT
            !.pc = "mark", !.task = ref.task, !.charge = ref.charge,
            !.key = ref.key, !.failures = ref.failures]]
  /\ UNCHANGED <<click, money, table, marker, world, sched>>

\* Ledger.AlreadyRefunded by charge key.
AskRefunded(r) ==
  /\ At(r, "askRefunded")
  /\ IF AlreadyRefunded(rows[ChargeRow(act[r].key)])
     THEN End(r, "noretry")
     ELSE Goto(r, "mark")
  /\ UNCHANGED <<click, money, table, redis, world, sched>>

\* Mutant: SET in place of SETNX.
MarkAlways(r) ==
  /\ At(r, "mark")
  /\ Goto(r, "pay")
  /\ marker' = IF act[r].task = None THEN marker ELSE marker \cup {act[r].task}
  /\ UNCHANGED <<click, money, table, ref, world, sched>>

\* TryMarkRefunded (SETNX): the caller may refund task t unless somebody else
\* has marked it.  No task needs no marker, and if Redis fails nobody has one.
WinsMarker(t) ==
  \/ t \notin marker /\ marker' = IF t = None THEN marker ELSE marker \cup {t}
  \/ "mark" \in Faults /\ UNCHANGED marker

\* refundCharge: a task that is marked already counts as refunded.
Mark(r) ==
  /\ At(r, "mark")
  /\ \/ WinsMarker(act[r].task) /\ Goto(r, "pay")
     \/ act[r].task \in marker /\ Goto(r, "recordRefund") /\ UNCHANGED marker
  /\ UNCHANGED <<click, money, table, ref, world, sched>>

\* Mutant: the error of the payment is dropped.
PayRegardless(r) ==
  /\ At(r, "pay")
  /\ \/ bill' = [bill EXCEPT ![r] =
          [charge |-> act[r].charge, task |-> act[r].task,
           key |-> IF act[r].resumed THEN None ELSE act[r].key]]
     \/ "pay" \in Faults /\ UNCHANGED bill
  /\ Goto(r, "recordRefund")
  /\ UNCHANGED <<click, charged, table, redis, world, sched>>

\* RefundDetached: AddCredits and the bill entry.  The resume path passes a
\* ChargeExtra without the charge key.
Pay(r) ==
  /\ At(r, "pay")
  /\ \/ /\ bill' = [bill EXCEPT ![r] =
             [charge |-> act[r].charge, task |-> act[r].task,
              key |-> IF act[r].resumed THEN None ELSE act[r].key]]
        /\ Goto(r, "recordRefund")
     \/ /\ "pay" \in Faults
        /\ Goto(r, "unmark")
        /\ UNCHANGED bill
  /\ UNCHANGED <<click, charged, table, redis, world, sched>>

\* UnmarkRefunded after a failed payment, so that a later one can be made.
Unmark(r) ==
  /\ At(r, "unmark")
  /\ marker' = marker \ {act[r].task}
  /\ IF act[r].resumed THEN Goto(r, "restore") ELSE End(r, "noretry")
  /\ UNCHANGED <<click, money, table, ref, world, sched>>

\* A resumed run whose refund failed puts the reference back.
Restore(r) ==
  /\ At(r, "restore")
  /\ RecordProviderTask(act[r].key, act[r].task, "pending_review", FALSE)
  /\ SaveRef(r)
  /\ End(r, "noretry")
  /\ UNCHANGED <<click, money, marker, world, sched>>

RecordRefund(r) ==
  /\ At(r, "recordRefund")
  /\ RecordProviderTask(act[r].key, act[r].task, "refunded", TRUE)
  /\ IF act[r].resumed THEN End(r, "noretry") ELSE Goto(r, "consume")
  /\ UNCHANGED <<click, money, redis, world, sched>>

\* TakeAsyncTaskRef, so that no retry resumes a settled task.
Consume(r) ==
  /\ At(r, "consume")
  /\ DeleteRef
  /\ End(r, "noretry")
  /\ UNCHANGED <<click, money, table, marker, world, sched>>
-----------------------------------------------------------------------------
(* A generated video *)

\* downloadAndUpload, up to three attempts.
Download(r) ==
  /\ At(r, "download")
  /\ \E label \in {"history", "countFailure"} : Goto(r, label)
  /\ UNCHANGED <<click, money, table, redis, world, sched>>

\* handleDownloadFailure: count the failure in the reference; the first ones
\* leave the retry to the queue.
CountFailure(r) ==
  /\ At(r, "countFailure")
  /\ LET n == act[r].failures + 1 IN
     /\ ref' = [task |-> act[r].task, charge |-> act[r].charge,
                key |-> act[r].key, failures |-> n]
     /\ act' = IF n < DownloadFailureLimit
               THEN [act EXCEPT ![r] = [@ EXCEPT
                      !.failures = n, !.pc = "ended", !.outcome = "retry"]]
               ELSE [act EXCEPT ![r] = [@ EXCEPT !.failures = n, !.pc = "abandon"]]
  /\ UNCHANGED <<click, money, table, marker, world, sched>>

Abandon(r) ==
  /\ At(r, "abandon")
  /\ DeleteRef
  /\ Goto(r, "recordAbandon")
  /\ UNCHANGED <<click, money, table, marker, world, sched>>

\* Mutant: the row of a video given up on is left as it was.
RecordAbandonNot(r) ==
  /\ At(r, "recordAbandon")
  /\ End(r, "noretry")
  /\ UNCHANGED <<click, money, table, redis, world, sched>>

RecordAbandon(r) ==
  /\ At(r, "recordAbandon")
  /\ RecordProviderTask(act[r].key, act[r].task, "pending_review", FALSE)
  /\ End(r, "noretry")
  /\ UNCHANGED <<click, money, redis, world, sched>>

\* RecordGeneration: the proof that the user got the video.
RecordGeneration(r) ==
  /\ At(r, "history")
  /\ given' = given \cup {act[r].charge}
  /\ Goto(r, "recordDelivered")
  /\ UNCHANGED <<click, money, table, redis, upstream, sched>>

RecordDelivered(r) ==
  /\ At(r, "recordDelivered")
  /\ RecordProviderTask(act[r].key, act[r].task, "delivered", FALSE)
  /\ Goto(r, "clearRef")
  /\ UNCHANGED <<click, money, redis, world, sched>>

ClearRef(r) ==
  /\ At(r, "clearRef")
  /\ DeleteRef
  /\ End(r, "ok")
  /\ UNCHANGED <<click, money, table, marker, world, sched>>
-----------------------------------------------------------------------------
(* The queue's side of a run *)

\* runExecution writes the final status; the queue acknowledges, schedules a
\* retry, or gives the message to the dead-letter stream.
Finish(r) ==
  /\ At(r, "ended")
  /\ act' = [act EXCEPT ![r].pc = "over"]
  /\ \/ /\ act[r].outcome = "ok"
        /\ exec' = "done" /\ msg' = "gone" /\ DeleteRef
        /\ UNCHANGED retries
     \/ /\ act[r].outcome = "noretry"
        /\ exec' = "failed" /\ msg' = "gone"
        /\ UNCHANGED <<ref, retries>>
     \/ /\ act[r].outcome = "retry"
        /\ exec' = "failed"
        /\ IF retries < MaxRetry
           THEN msg' = "queued" /\ retries' = retries + 1
           ELSE msg' = "gone" /\ UNCHANGED retries
        /\ UNCHANGED ref
  /\ UNCHANGED <<click, money, table, marker, world, dog>>

\* The worker dies; the unacknowledged message is reclaimed.
Crash(r) ==
  /\ Alive(r) /\ act[r].pc \in CrashAt
  /\ Goto(r, "over")
  /\ msg' = IF msg = "taken" THEN "queued" ELSE msg
  /\ UNCHANGED <<click, money, table, redis, world, retries, exec, dog>>

\* The lock of a live run is lost and its message is reclaimed.
Overlapping == IF Overlap THEN Runs ELSE {}
Redeliver ==
  \E r \in Overlapping :
    /\ msg = "taken" /\ Alive(r)
    /\ msg' = "queued"
    /\ UNCHANGED <<act, click, money, table, redis, world, retries, exec, dog>>

\* HandleQueuedTask cannot rebuild the plan (the canvas is gone): no retry.
RefusePlan ==
  \E call \in {"plan"} \cap Faults :
    /\ msg = "queued" /\ exec # "done"
    /\ msg' = "gone"
    /\ exec' = "failed"
    /\ UNCHANGED <<act, click, money, table, redis, world, retries, dog>>

\* HandleQueuedTask skips an execution that is done.
SkipDone ==
  /\ msg = "queued" /\ exec = "done"
  /\ msg' = "gone"
  /\ UNCHANGED <<act, click, money, table, redis, world, retries, exec, dog>>
-----------------------------------------------------------------------------
(* RefundManually: one click of an administrator on one row *)

OnRow(a, label) == click[a].pc = label
Move(a, label) == click' = [click EXCEPT ![a].pc = label]

\* ClaimForRefund; a row that cannot be claimed answers ErrRefundNotAllowed.
\* The request keeps the columns the UPDATE returned.
Claim(a) ==
  /\ OnRow(a, "idle")
  /\ \E k \in RowKeys :
       /\ Claimable(rows[k])
       /\ rows' = [rows EXCEPT ![k] = ClaimForRefund(@)]
       /\ click' = [click EXCEPT ![a] =
                      [pc |-> "claimed", row |-> k, task |-> rows[k].task]]
  /\ UNCHANGED <<act, money, order, redis, world, sched>>

\* Mutant: an empty task id is marked like any other.
ClickMarkEmpty(a) ==
  /\ OnRow(a, "claimed")
  /\ IF click[a].task \in marker
     THEN Move(a, "reverting") /\ UNCHANGED marker
     ELSE /\ Move(a, "paying")
          /\ marker' = marker \cup {click[a].task}
  /\ UNCHANGED <<act, money, table, ref, world, sched>>

ClickMark(a) ==
  /\ OnRow(a, "claimed")
  /\ \/ WinsMarker(click[a].task) /\ Move(a, "paying")
     \/ click[a].task \in marker /\ Move(a, "reverting") /\ UNCHANGED marker
  /\ UNCHANGED <<act, money, table, ref, world, sched>>

\* RefundOnChannel.  ClaimForRefund does not return charge_key, so the bill
\* entry has none.
ClickPay(a) ==
  /\ OnRow(a, "paying")
  /\ \/ /\ bill' = [bill EXCEPT ![a] =
             [charge |-> ChargeOfRow(click[a].row), task |-> click[a].task,
              key |-> None]]
        /\ Move(a, "confirming")
     \/ /\ "pay" \in Faults
        /\ Move(a, "unmarking")
        /\ UNCHANGED bill
  /\ UNCHANGED <<act, charged, table, redis, world, sched>>

ClickUnmark(a) ==
  /\ OnRow(a, "unmarking")
  /\ marker' = marker \ {click[a].task}
  /\ Move(a, "reverting")
  /\ UNCHANGED <<act, money, table, ref, world, sched>>

Revert(a) ==
  /\ OnRow(a, "reverting")
  /\ rows' = [rows EXCEPT ![click[a].row] = RevertRefund(@)]
  /\ Move(a, "done")
  /\ UNCHANGED <<act, money, order, redis, world, sched>>

Confirm(a) ==
  /\ OnRow(a, "confirming")
  /\ \E ok \in Succeeds("confirm") :
       rows' = IF ok THEN [rows EXCEPT ![click[a].row] = MarkRefundedFromClaim(@)]
               ELSE rows
  /\ Move(a, "done")
  /\ UNCHANGED <<act, money, order, redis, world, sched>>

\* The process serving the request dies.
ClickCrash(a) ==
  /\ click[a].pc \notin {"idle", "done"} /\ click[a].pc \in CrashAt
  /\ Move(a, "done")
  /\ UNCHANGED <<act, money, table, redis, world, sched>>
-----------------------------------------------------------------------------
(* sweepStaleExecutions and failStaleExecution *)

\* The execution is over its budget, still active, and its lock is free: read
\* the evidence of delivery from the generation history.
Sweep ==
  /\ Watchdog /\ dog.pc = "idle"
  /\ exec \in {"pending", "running"}
  /\ Overlap \/ \A r \in Runs : ~Alive(r)
  /\ dog' = [dog EXCEPT !.pc = "judge", !.delivered = given # {}]
  /\ UNCHANGED <<act, click, money, table, redis, world, msg, retries, exec>>

\* Read the task reference.  A node that the canvas shows as a success and that
\* has no reference counts as delivered too.
Judge ==
  /\ dog.pc = "judge"
  /\ dog' = [pc |-> "close", ref |-> ref,
              delivered |-> dog.delivered \/ (OldSuccess /\ ref = NoRef)]
  /\ UNCHANGED <<act, click, money, table, redis, world, msg, retries, exec>>

\* Delivered: drop the reference, the execution is done.  Otherwise the charge
\* of the reference goes to review and the execution is failed.  The status is
\* written only if the execution is still active (UpdateStatusIfActive).
Close ==
  /\ dog.pc = "close"
  /\ IF dog.delivered
     THEN DeleteRef /\ UNCHANGED <<rows, order>>
     ELSE /\ IF dog.ref = NoRef
             THEN UNCHANGED <<rows, order>>
             ELSE RecordTask(dog.ref.task, "pending_review", FALSE)
          /\ UNCHANGED ref
  /\ exec' = IF exec \in {"pending", "running"}
             THEN IF dog.delivered THEN "done" ELSE "failed"
             ELSE exec
  /\ dog' = NoDog
  /\ UNCHANGED <<act, click, money, marker, world, msg, retries>>
-----------------------------------------------------------------------------
RunStep(r) ==
  \/ Load(r) \/ Check(r) \/ Charge(r) \/ RecordLocalCharge(r) \/ Create(r)
  \/ SaveTaskRef(r) \/ SubmittedHook(r) \/ Poll(r) \/ RecordFailure(r)
  \/ TakeRef(r) \/ AskRefunded(r) \/ Mark(r) \/ Pay(r) \/ Unmark(r)
  \/ Restore(r) \/ RecordRefund(r) \/ Consume(r) \/ Download(r)
  \/ CountFailure(r) \/ Abandon(r) \/ RecordAbandon(r) \/ RecordGeneration(r)
  \/ RecordDelivered(r) \/ ClearRef(r) \/ Finish(r)

ClickStep(a) ==
  ClickMark(a) \/ ClickPay(a) \/ ClickUnmark(a) \/ Revert(a) \/ Confirm(a)

Next ==
  \/ \E r \in Runs : Start(r) \/ RunStep(r) \/ Crash(r)
  \/ \E a \in Clicks : Claim(a) \/ ClickStep(a) \/ ClickCrash(a)
  \/ Redeliver \/ RefusePlan \/ SkipDone
  \/ Sweep \/ Judge \/ Close

Spec == Init /\ [][Next]_vars

\* A worker and a request that live make progress, the queue delivers, and
\* the watchdog ticks; nobody is forced to click or to crash.
Fairness ==
  /\ \A r \in Runs : WF_vars(RunStep(r)) /\ WF_vars(Start(r))
  /\ \A a \in Clicks : WF_vars(ClickStep(a))
  /\ WF_vars(SkipDone) /\ WF_vars(Sweep) /\ WF_vars(Judge \/ Close)

FairSpec == Spec /\ Fairness
-----------------------------------------------------------------------------
(* Properties *)

\* llm/asyncresume.go, TryMarkRefunded: the credits returned for one upstream
\* task are returned once, whoever asks: a run, a redelivered run or a click.
RefundOncePerTask ==
  \A p, q \in Payers :
    p # q /\ Paid(p) /\ Paid(q) /\ bill[p].task # None =>
      bill[p].task # bill[q].task

\* repository ClaimForRefund: two clicks never both pay for the same row, even
\* when the row has no task id to mark.
OneManualRefundPerRow ==
  \A a, b \in Clicks :
    a # b /\ Paid(a) /\ Paid(b) => click[a].row # click[b].row

\* billing/doc.go, first hard rule: one charge is returned at most once,
\* whatever task ids it was tried under.
RefundOncePerCharge ==
  \A p, q \in Payers :
    p # q /\ Paid(p) /\ Paid(q) => bill[p].charge # bill[q].charge

PaidBack(c) == \E p \in Payers : bill[p].charge = c

\* billing/doc.go, second hard rule: no charge whose video reached the user is
\* returned, before or after.
DeliveredNeverRefunded == \A c \in given : ~PaidBack(c)

\* The reuse branch of VideoExecutor.Execute: however often the queue delivers
\* the execution, it is not charged again until the earlier charge is returned.
OneOutstandingCharge ==
  \A c, d \in Runs :
    c # d /\ charged[c] /\ charged[d] => PaidBack(c) \/ PaidBack(d)

\* RefundManually and refundCharge: a row that says refunded stands for credits
\* that were returned.
RefundedMeansPaid ==
  \A k \in RowKeys : rows[k].status = "refunded" => PaidBack(ChargeOfRow(k))

\* Nothing is running and nothing is queued.
Quiet ==
  /\ msg = "gone" /\ dog.pc = "idle"
  /\ \A r \in Runs : ~Alive(r)
  /\ \A a \in Clicks : click[a].pc \in {"idle", "done"}

Settled(c) ==
  \/ c \in given
  \/ PaidBack(c)
  \/ \E k \in RowKeys : ChargeOfRow(k) = c /\ Claimable(rows[k])

\* billing/policy.go: once nothing runs, every charge was delivered, was
\* returned, or waits on a row that an administrator can refund.
SettledWhenQuiet == Quiet => \A c \in Runs : charged[c] => Settled(c)

\* The bound on Runs is used up while the message is still queued.
OutOfRuns == msg = "queued" /\ \A r \in Runs : ~At(r, "idle")

\* billing/policy.go: a charge does not stay open for ever while workers live.
EveryChargeSettles == \A c \in Runs : charged[c] ~> (Settled(c) \/ OutOfRuns)

\* repository Upsert, upsertByChargeKey: a refunded row never changes its
\* status again.
RefundedIsFinal ==
  [][\A k \in RowKeys :
       rows[k].status = "refunded" => rows'[k].status = "refunded"]_vars

\* audit.checkAmountMismatch: a row that says its charge was returned is matched
\* by a bill entry that carries the row's charge key.
RefundBillMatchesRow ==
  Quiet => \A c \in Runs :
    rows[ChargeRow(c)].status = "refunded" => \E p \in Payers : bill[p].key = c

-----------------------------------------------------------------------------
(* VideoCharge implements ChargeLifecycle: the credits of the user and the   *)
(* fate of every charge follow the promise, step by step.                    *)

StateOfCharge(c) ==
  CASE PaidBack(c)                        -> "returned"
    [] ~PaidBack(c) /\ c \in given         -> "delivered"
    [] ~PaidBack(c) /\ c \notin given /\ charged[c] -> "open"
    [] OTHER                              -> "none"

Balance ==
  Cardinality({p \in Payers : Paid(p)}) - Cardinality({c \in Runs : charged[c]})

Lifecycle == INSTANCE ChargeLifecycle WITH
  Charges <- Runs,
  state   <- [c \in Runs |-> StateOfCharge(c)],
  balance <- Balance

\* Every step of the runs is a step of the promised life of a charge or does
\* not touch the money: a second return would move the balance, a return after
\* the delivery or a second open charge has no step to map to.
ImplementsLifecycle == Lifecycle!Spec
=============================================================================
