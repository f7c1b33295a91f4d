----------------------------- MODULE SyncCharge -----------------------------
(***************************************************************************)
(* The money of a node whose model answers at once: a text, a script, a    *)
(* picture or a voice (engine/executor.go).  A run is one pass of a worker *)
(* through the node's executor.  It looks at what the user wrote, takes    *)
(* the charge or finds the one an earlier run of the execution took, asks  *)
(* the model, stores what came back and settles the charge.  There is no   *)
(* upstream task to come back to and no refund marker: what later runs and *)
(* the administrator's clicks know of a charge is its row.                 *)
(*                                                                         *)
(* A run takes at most one charge, so the charge key of run r is written   *)
(* r.  One run follows another, as the queue promises (GenQueue).          *)
(***************************************************************************)
EXTENDS ProviderTasks, Naturals, Sequences, FiniteSets, TLC

CONSTANTS
  Runs,       \* passes through Execute
  Clicks,     \* presses of the "refund" button
  MaxRetry,   \* queue.max_retry
  MaxAsked,   \* pictures a node may ask for
  Funds,      \* what the user may own at first
  Units,      \* what one call may cost; 0 when no price is set
  Troubles,   \* what may go wrong: a subset of AllTroubles
  MaxFaults   \* how often it does

Payers == Runs \cup Clicks

(***************************************************************************)
(* A process may die at any time and cost nothing but its run, except      *)
(* between the charge and its row (unrecorded), between a refund and its   *)
(* row (unsettled), after the last row and before the end of the execution *)
(* is written (unacked), and inside a click.  A refund or a write of the   *)
(* table fails; the canvas is edited or gone when a run follows; a picture *)
(* to be edited cannot be read; the execution is found stale; there is no  *)
(* queue.                                                                  *)
(***************************************************************************)
AllTroubles ==
  {"none", "unrecorded", "unsettled", "unacked", "click", "pay", "record", "edit",
   "gone", "unread", "stale", "direct"}

ASSUME SyncChargeAssumption ==
  /\ None \notin Payers
  /\ Runs \cap Clicks = {}
  /\ MaxRetry \in Nat /\ MaxAsked \in Nat \ {0} /\ MaxFaults \in Nat
  /\ Funds \subseteq Nat /\ Units \subseteq Nat
  /\ Troubles \subseteq AllTroubles

VARIABLES
  kind,     \* the type of the node
  input,    \* what its executor makes of the canvas
  unit,     \* the price of one call
  trouble,  \* what goes wrong in this behaviour
  faults,   \* how often it did
  credits,  \* what the user owns
  act,      \* act[r]: where run r is and its local variables
  click,    \* click[a]: where refund request a is and the row it holds
  charged,  \* charged[c]: the credits deducted under charge key c
  bill,     \* bill[p]: what payer p returned
  rows,     \* rows[c]: the row of charge c in provider_tasks
  order,    \* the keys of the existing rows, oldest first
  given,    \* charges whose result reached the user
  msg,      \* the queue's message of the execution
  retries,  \* Task.Retry
  exec,     \* status of the execution
  closed    \* the watchdog declared it failed

Symmetry == Permutations(Runs) \cup Permutations(Clicks)

vars == <<kind, input, unit, trouble, faults, credits, act, click, charged, bill, rows,
          order, given, msg, retries, exec, closed>>

MaybeRun == Runs \cup {None}

-----------------------------------------------------------------------------
(* What the user wrote *)

Kinds == {"text", "script", "image", "audio"}

\* A text node draws on its own words only.
TextNodes == [words : BOOLEAN]
TextVerdict(node) == IF node.words THEN "ready" ELSE "bad"

\* A script node draws on the text nodes it mentions, whose content may be
\* empty; a linked one that is not mentioned is an error.
ScriptNodes ==
  [mention : {"none", "empty", "full"}, linked : {"none", "text", "other"},
   words : BOOLEAN, script : BOOLEAN, client : BOOLEAN]
ScriptRefused(node) ==
  \/ node.mention = "empty"
  \/ node.linked = "text" /\ node.mention = "none"
  \/ node.linked = "none" /\ ~node.words
  \/ node.mention # "full" /\ ~node.words /\ ~node.script
ScriptVerdict(node) ==
  IF ScriptRefused(node) THEN "bad"
  ELSE IF ~node.client \/ (node.mention # "full" /\ ~node.words) THEN "passes"
  ELSE "ready"

\* A voice reads its own words or those of a linked text node.
AudioNodes == [words : BOOLEAN, linked : BOOLEAN]
AudioVerdict(node) == IF node.words \/ node.linked THEN "ready" ELSE "bad"

\* A picture is drawn from words of its own, of text nodes or of the edit of
\* one element; moving an element needs none.
ImageNodes ==
  [words : BOOLEAN, texts : BOOLEAN, element : {"none", "paint", "move"},
   mentioned : SUBSET {"reference", "still", "style"},
   linked : SUBSET {"reference", "still", "style", "blank"},
   client : BOOLEAN, count : 0..MaxAsked]
ImageVerdict(node) ==
  IF ~(node.words \/ (node.texts /\ node.element = "none") \/ node.element = "move")
  THEN "bad"
  ELSE IF node.client THEN "ready" ELSE "passes"

\* The pictures it is drawn from: the original alone for an edit, else the ones
\* mentioned and every linked style, and all linked ones if none is mentioned,
\* even a node that has no picture yet.
Pictures(node) ==
  IF node.element # "none" THEN {"original"}
  ELSE IF node.mentioned # {} THEN node.mentioned \cup (node.linked \cap {"style"})
  ELSE node.linked

\* How many are asked for.  Their size and model change nothing here.
Asked(node) == IF node.count = 0 THEN 1 ELSE node.count

NodesOf(k) ==
  CASE k = "text" -> TextNodes [] k = "script" -> ScriptNodes
    [] k = "audio" -> AudioNodes [] k = "image" -> ImageNodes

\* What is left of the node once the executor has read it.
Read(k, node) ==
  [verdict |-> CASE k = "text" -> TextVerdict(node) [] k = "script" -> ScriptVerdict(node)
                 [] k = "audio" -> AudioVerdict(node) [] k = "image" -> ImageVerdict(node),
   asked |-> IF k = "image" THEN Asked(node) ELSE 1,
   edits |-> k = "image" /\ node.element # "none",
   blank |-> k = "image" /\ "blank" \in Pictures(node)]
Inputs(k) == {Read(k, node) : node \in NodesOf(k)}
InputStates ==
  [verdict : {"ready", "passes", "bad"}, asked : 1..MaxAsked, edits : BOOLEAN, blank : BOOLEAN]

-----------------------------------------------------------------------------
RunLabels ==
  {"idle", "read", "check", "charge", "submit", "call", "store", "settle", "pay",
   "recordRefund", "review", "deliver", "history", "handed", "ended", "over"}
RunStates ==
  [pc : RunLabels,
   key : MaybeRun,     \* ChargeKey
   amount : Nat,       \* chargedAmount
   got : 0..MaxAsked,  \* pictures that came back
   rejected : BOOLEAN, \* the model refused the call: ShouldAutoRefund
   final : BOOLEAN]    \* NonRetryable
NoRun == [pc |-> "idle", key |-> None, amount |-> 0, got |-> 0, rejected |-> FALSE,
          final |-> FALSE]

ClickStates ==
  [pc : {"idle", "paying", "reverting", "confirming", "done"}, row : MaybeRun]
NoBill == [charge |-> None, amount |-> 0]

Paid(p) == bill[p].charge # None
Alive(r) == act[r].pc \notin {"idle", "over"}

TypeOK ==
  /\ kind \in Kinds /\ input \in InputStates /\ unit \in Units
  /\ trouble \in Troubles /\ faults \in 0..MaxFaults
  /\ credits \in Nat
  /\ act \in [Runs -> RunStates] /\ click \in [Clicks -> ClickStates]
  /\ charged \in [Runs -> Nat] /\ bill \in [Payers -> [charge : MaybeRun, amount : Nat]]
  /\ rows \in [Runs -> Row({})] /\ order \in Seq(Runs)
  /\ given \subseteq Runs
  /\ msg \in {"queued", "direct", "taken", "gone"} /\ retries \in 0..MaxRetry
  /\ exec \in {"pending", "running", "done", "failed"} /\ closed \in BOOLEAN

Init ==
  /\ kind \in Kinds /\ input \in Inputs(kind) /\ unit \in Units
  /\ trouble \in Troubles /\ faults = 0
  /\ credits \in Funds
  /\ act = [r \in Runs |-> NoRun]
  /\ click = [a \in Clicks |-> [pc |-> "idle", row |-> None]]
  /\ charged = [c \in Runs |-> 0] /\ bill = [p \in Payers |-> NoBill]
  /\ rows = [c \in Runs |-> NoRow] /\ order = <<>>
  /\ given = {}
  /\ msg = IF trouble = "direct" THEN "direct" ELSE "queued"
  /\ retries = 0 /\ exec = "pending" /\ closed = FALSE

\* The trouble strikes once more.
Strikes(which) == trouble = which /\ faults < MaxFaults /\ faults' = faults + 1

At(r, label) == act[r].pc = label
Goto(r, label) == act' = [act EXCEPT ![r].pc = label]
Leave(r) == act' = [act EXCEPT ![r] = [NoRun EXCEPT !.pc = "over"]]

node == <<kind, input, unit>>
money == <<credits, charged, bill>>
table == <<rows, order>>
sched == <<msg, retries, exec, closed>>

-----------------------------------------------------------------------------
(* The row of a charge *)

\* syncTask.write: a row is keyed by its charge and has no task id.  Its error
\* is dropped.
Row1(status, refunded) == [status |-> status, refunded |-> refunded, task |-> None]
Write(c, status, refunded) ==
  \/ /\ rows' = [rows EXCEPT ![c] = Upserted(@, Row1(status, refunded))]
     /\ order' = IF Exists(rows[c]) THEN order ELSE Append(order, c)
     /\ UNCHANGED faults
  \/ Strikes("record") /\ UNCHANGED table

\* ActiveChargeByNode: the newest outstanding row, if it cost anything.
IsNewestOutstanding(i) ==
  /\ Outstanding(rows[order[i]])
  /\ \A j \in DOMAIN order : j > i => ~Outstanding(rows[order[j]])
Reusable(c) == \E i \in DOMAIN order : order[i] = c /\ IsNewestOutstanding(i) /\ charged[c] > 0

-----------------------------------------------------------------------------
(* A run *)

\* Execute reads the node.  What it cannot use fails before any charge, a script
\* that is only handed on costs nothing, and an edit needs its original.
ReadNode(r) ==
  /\ At(r, "read")
  /\ \/ /\ UNCHANGED faults
        /\ Goto(r, CASE input.verdict = "ready" -> "check" [] input.verdict = "bad" -> "ended"
                     [] input.verdict = "passes" -> "handed")
     \/ input.verdict = "ready" /\ input.edits /\ Strikes("unread") /\ Goto(r, "ended")
  /\ UNCHANGED <<node, trouble, money, click, table, given, sched>>

CheckNothing(r) ==   \* mutant: charge without asking what was charged
  /\ At(r, "check") /\ Goto(r, "charge")
  /\ UNCHANGED <<node, trouble, faults, money, click, table, given, sched>>

\* chargeAlreadyDone: take over amount and key of the charge, or charge.
Check(r) ==
  /\ At(r, "check")
  /\ \/ (\A c \in Runs : ~Reusable(c)) /\ Goto(r, "charge")
     \/ \E c \in Runs :
          /\ Reusable(c)
          /\ act' = [act EXCEPT ![r] = [@ EXCEPT !.pc = "submit", !.key = c,
                                                 !.amount = charged[c]]]
  /\ UNCHANGED <<node, trouble, faults, money, click, table, given, sched>>

\* ChargeByModel, ChargeByModelWithResolution, ChargeByChars: a price that is not
\* set costs nothing; too few credits is an error that the queue retries.
Cost == unit * input.asked
Charge(r) ==
  /\ At(r, "charge")
  /\ \/ /\ Cost <= credits
        /\ credits' = credits - Cost
        /\ charged' = [charged EXCEPT ![r] = Cost]
        /\ act' = [act EXCEPT ![r] = [@ EXCEPT !.pc = "submit", !.key = r, !.amount = Cost]]
     \/ Cost > credits /\ Goto(r, "ended") /\ UNCHANGED <<credits, charged>>
  /\ UNCHANGED <<node, trouble, faults, bill, click, table, given, sched>>

Submit(r) ==
  /\ At(r, "submit")
  /\ Write(act[r].key, "submitted", FALSE) /\ Goto(r, "call")
  /\ UNCHANGED <<node, trouble, money, click, given, sched>>

\* The model refuses, fails or answers; fewer pictures may come than asked for,
\* an empty story is a failure that it did not declare, and a picture that is not
\* there fails before the model is asked.
Call(r) ==
  /\ At(r, "call")
  /\ \/ \E rejected \in BOOLEAN :
          /\ rejected => ~input.blank
          /\ act' = [act EXCEPT ![r] = [@ EXCEPT !.pc = "settle", !.rejected = rejected]]
     \/ kind \in {"text", "script"} /\ Goto(r, "deliver")
     \/ kind = "audio" /\ Goto(r, "store")
     \/ kind = "image" /\ ~input.blank /\ \E n \in 0..input.asked :
          act' = [act EXCEPT ![r] = [@ EXCEPT !.pc = "store", !.got = n]]
  /\ UNCHANGED <<node, trouble, faults, money, click, table, given, sched>>

\* Storing.  A picture that cannot be stored keeps the address the model gave,
\* so only missing ones count; a voice that cannot be stored is lost.
Store(r) ==
  /\ At(r, "store")
  /\ \/ (kind = "image" => act[r].got = input.asked) /\ Goto(r, "deliver")
     \/ /\ kind = "image" => act[r].got < input.asked
        /\ act' = [act EXCEPT ![r] = [@ EXCEPT !.pc = "review", !.final = TRUE]]
  /\ UNCHANGED <<node, trouble, faults, money, click, table, given, sched>>

\* settleFailure: what the model refused goes back, unless it went back already;
\* anything else, and a charge of nothing, is left to a person.
SettleUnasked(r) ==   \* mutant: without asking whether it was returned
  /\ At(r, "settle")
  /\ \/ ~act[r].rejected
        /\ act' = [act EXCEPT ![r] = [@ EXCEPT !.pc = "review", !.final = TRUE]]
     \/ act[r].rejected /\ act[r].amount = 0 /\ Goto(r, "review")
     \/ act[r].rejected /\ act[r].amount > 0 /\ Goto(r, "pay")
  /\ UNCHANGED <<node, trouble, faults, money, click, table, given, sched>>
Settle(r) ==
  /\ At(r, "settle")
  /\ \/ ~act[r].rejected
        /\ act' = [act EXCEPT ![r] = [@ EXCEPT !.pc = "review", !.final = TRUE]]
     \/ act[r].rejected /\ act[r].amount = 0 /\ Goto(r, "review")
     \/ /\ act[r].rejected /\ act[r].amount > 0
        /\ Goto(r, IF AlreadyRefunded(rows[act[r].key]) THEN "recordRefund" ELSE "pay")
  /\ UNCHANGED <<node, trouble, faults, money, click, table, given, sched>>

\* RefundDetached, on the credits of the user.
Returned(p, c, amount) ==
  /\ credits' = credits + amount
  /\ bill' = [bill EXCEPT ![p] = [charge |-> c, amount |-> amount]]
Pay(r) ==
  /\ At(r, "pay")
  /\ \/ /\ Returned(r, act[r].key, act[r].amount) /\ UNCHANGED faults
        /\ Goto(r, "recordRefund")
     \/ /\ Strikes("pay") /\ UNCHANGED <<credits, bill>>
        /\ act' = [act EXCEPT ![r] = [@ EXCEPT !.pc = "review", !.final = TRUE]]
  /\ UNCHANGED <<node, trouble, charged, click, table, given, sched>>

RecordRefundRetried(r) ==   \* mutant: the queue may run the node again
  /\ At(r, "recordRefund")
  /\ Write(act[r].key, "refunded", TRUE) /\ Goto(r, "ended")
  /\ UNCHANGED <<node, trouble, money, click, given, sched>>
RecordRefund(r) ==
  /\ At(r, "recordRefund")
  /\ Write(act[r].key, "refunded", TRUE)
  /\ act' = [act EXCEPT ![r] = [@ EXCEPT !.pc = "ended", !.final = TRUE]]
  /\ UNCHANGED <<node, trouble, money, click, given, sched>>

ReviewHanded(r) ==   \* mutant: what was left for review is handed on all the same
  /\ At(r, "review")
  /\ Write(act[r].key, "pending_review", FALSE) /\ Goto(r, "handed")
  /\ UNCHANGED <<node, trouble, money, click, given, sched>>
ReviewNot(r) ==   \* mutant: nobody is told
  /\ At(r, "review") /\ Goto(r, "ended")
  /\ UNCHANGED <<node, trouble, faults, money, click, table, given, sched>>
Review(r) ==
  /\ At(r, "review")
  /\ Write(act[r].key, "pending_review", FALSE) /\ Goto(r, "ended")
  /\ UNCHANGED <<node, trouble, money, click, given, sched>>

\* Delivered; a picture also enters the generation history.
Deliver(r) ==
  /\ At(r, "deliver")
  /\ Write(act[r].key, "delivered", FALSE)
  /\ Goto(r, IF kind = "image" THEN "history" ELSE "handed")
  /\ UNCHANGED <<node, trouble, money, click, given, sched>>
RecordGeneration(r) ==
  /\ At(r, "history")
  /\ given' = given \cup {act[r].key} /\ Goto(r, "handed")
  /\ UNCHANGED <<node, trouble, faults, money, click, table, sched>>

-----------------------------------------------------------------------------
(* The execution around the runs *)

\* HandleQueuedTask, or the goroutine that replaces a queue that refused.
Start(r) ==
  /\ msg \in {"queued", "direct"} /\ exec # "done"
  /\ At(r, "idle") /\ \A q \in Runs : ~Alive(q)
  /\ msg' = IF msg = "queued" THEN "taken" ELSE "gone"
  /\ exec' = IF msg = "queued" THEN "running" ELSE exec
  /\ Goto(r, "read")
  /\ UNCHANGED <<node, trouble, faults, money, click, table, given, retries, closed>>

\* The result is on the canvas, an edit is taken off it, the execution done.
Hand(r) ==
  /\ At(r, "handed")
  /\ given' = IF act[r].key = None THEN given ELSE given \cup {act[r].key}
  /\ input' = [input EXCEPT !.edits = @ /\ act[r].key = None]
  /\ exec' = "done" /\ msg' = "gone" /\ Leave(r)
  /\ UNCHANGED <<kind, unit, trouble, faults, money, click, table, retries, closed>>

FailForever(r) ==   \* mutant: retries are not counted against max_retry
  /\ At(r, "ended") /\ exec' = "failed" /\ Leave(r)
  /\ IF msg = "taken" /\ ~act[r].final
     THEN msg' = "queued" /\ retries' = retries + 1
     ELSE msg' = "gone" /\ UNCHANGED retries
  /\ UNCHANGED <<node, trouble, faults, money, click, table, given, closed>>

\* A failure: the queue retries it unless the run forbade that.
Fail(r) ==
  /\ At(r, "ended")
  /\ exec' = "failed" /\ Leave(r)
  /\ IF msg = "taken" /\ ~act[r].final /\ retries < MaxRetry
     THEN msg' = "queued" /\ retries' = retries + 1
     ELSE msg' = "gone" /\ UNCHANGED retries
  /\ UNCHANGED <<node, trouble, faults, money, click, table, given, closed>>

\* The worker dies; the queue, if there is one, delivers the message again.
Crash(r) ==
  /\ Alive(r) /\ Leave(r)
  /\ CASE At(r, "submit") /\ act[r].key = r -> Strikes("unrecorded")
       [] At(r, "recordRefund")             -> Strikes("unsettled")
       [] act[r].pc \in {"history", "handed", "ended"} -> Strikes("unacked")
       [] OTHER                             -> UNCHANGED faults
  /\ msg' = IF msg = "taken" THEN "queued" ELSE msg
  /\ UNCHANGED <<node, trouble, money, click, table, given, retries, exec, closed>>

\* HandleQueuedTask: nothing to do, or nothing to do it with.
SkipDone ==
  /\ msg = "queued" /\ exec = "done" /\ msg' = "gone"
  /\ UNCHANGED <<node, trouble, faults, money, act, click, table, given, retries, exec, closed>>
RefusePlan ==
  /\ msg = "queued" /\ exec # "done" /\ Strikes("gone")
  /\ msg' = "gone" /\ exec' = "failed"
  /\ UNCHANGED <<node, trouble, money, act, click, table, given, retries, closed>>

\* The user changes the node while the execution waits to be run again.
Edit ==
  /\ msg = "queued" /\ Strikes("edit")
  /\ input' \in Inputs(kind)
  /\ UNCHANGED <<kind, unit, trouble, money, act, click, table, given, sched>>

\* failStaleExecution, on a node that has no task reference: done if there is a
\* picture in the history or the canvas shows a success, be it an earlier one.
\* No row is touched.
Sweep ==
  /\ trouble \in {"stale", "direct", "unacked"} /\ exec \in {"pending", "running"}
  /\ \A r \in Runs : ~Alive(r)
  /\ \/ given # {} /\ exec' = "done" /\ UNCHANGED <<faults, closed>>
     \/ given = {} /\ Strikes("stale") /\ exec' = "done" /\ UNCHANGED closed
     \/ given = {} /\ exec' = "failed" /\ closed' = TRUE /\ UNCHANGED faults
  /\ UNCHANGED <<node, trouble, money, act, click, table, given, msg, retries>>

-----------------------------------------------------------------------------
(* Ledger.RefundManually: one click of an administrator on one row *)

OnRow(a, label) == click[a].pc = label
Move(a, label) == click' = [click EXCEPT ![a].pc = label]

\* ClaimForRefund; a charge of nothing cannot be returned.
Claim(a) ==
  /\ OnRow(a, "idle")
  /\ \E c \in Runs :
       /\ Claimable(rows[c])
       /\ rows' = [rows EXCEPT ![c] = ClaimForRefund(@)]
       /\ click' = [click EXCEPT ![a] =
                      [pc |-> IF charged[c] = 0 THEN "reverting" ELSE "paying", row |-> c]]
  /\ UNCHANGED <<node, trouble, faults, money, act, order, given, sched>>

\* RefundOnChannel; only a video has a marker to ask first.
ClickPay(a) ==
  /\ OnRow(a, "paying")
  /\ \/ /\ Returned(a, click[a].row, charged[click[a].row]) /\ UNCHANGED faults
        /\ Move(a, "confirming")
     \/ Strikes("pay") /\ Move(a, "reverting") /\ UNCHANGED <<credits, bill>>
  /\ UNCHANGED <<node, trouble, charged, act, table, given, sched>>

Revert(a) ==
  /\ OnRow(a, "reverting") /\ Move(a, "done")
  /\ rows' = [rows EXCEPT ![click[a].row] = RevertRefund(@)]
  /\ UNCHANGED <<node, trouble, faults, money, act, order, given, sched>>

Confirm(a) ==
  /\ OnRow(a, "confirming") /\ Move(a, "done")
  /\ \/ /\ UNCHANGED faults
        /\ rows' = [rows EXCEPT ![click[a].row] = MarkRefundedFromClaim(@)]
     \/ Strikes("record") /\ UNCHANGED rows
  /\ UNCHANGED <<node, trouble, money, act, order, given, sched>>

ClickCrash(a) ==
  /\ click[a].pc \notin {"idle", "done"} /\ Strikes("click") /\ Move(a, "done")
  /\ UNCHANGED <<node, trouble, money, act, table, given, sched>>

-----------------------------------------------------------------------------
RunStep(r) ==
  \/ ReadNode(r) \/ Check(r) \/ Charge(r) \/ Submit(r) \/ Call(r) \/ Store(r)
  \/ Settle(r) \/ Pay(r) \/ RecordRefund(r) \/ Review(r) \/ Deliver(r)
  \/ RecordGeneration(r) \/ Hand(r) \/ Fail(r)
ClickStep(a) == Claim(a) \/ ClickPay(a) \/ Revert(a) \/ Confirm(a) \/ ClickCrash(a)

Next ==
  \/ \E r \in Runs : Start(r) \/ RunStep(r) \/ Crash(r)
  \/ \E a \in Clicks : ClickStep(a)
  \/ SkipDone \/ RefusePlan \/ Edit \/ Sweep
Spec == Init /\ [][Next]_vars

-----------------------------------------------------------------------------
(* Properties *)

\* A charge is returned once, whole, and only if it was taken (billing/doc.go,
\* first hard rule; settleFailure asks AlreadyRefunded).
ReturnedOnce ==
  /\ \A p \in Payers : Paid(p) => bill[p].amount = charged[bill[p].charge]
  /\ trouble \notin {"unsettled", "record"} =>
       \A p, q \in Payers :
         p # q /\ Paid(p) /\ Paid(q) => bill[p].charge # bill[q].charge

PaidBack(c) == \E p \in Payers : bill[p].charge = c

\* What reached the user stays paid (billing/doc.go, second hard rule).
DeliveredStaysPaid ==
  trouble \notin {"unsettled", "unacked", "record"} => \A c \in given : ~PaidBack(c)

\* The charge was returned, or a click that occupies its row is about to.
GoesBack(c) == PaidBack(c) \/ \E a \in Clicks : click[a] = [pc |-> "paying", row |-> c]

\* chargeAlreadyDone, MarkNonRetryable: however often the execution is run, the
\* user pays once for one click; and if a run is repeated after its settlement,
\* only while the first charge goes back.
ChargedOnce ==
  trouble \notin {"unrecorded", "record"} =>
    \A c, d \in Runs : c # d /\ charged[c] > 0 /\ charged[d] > 0 =>
      trouble = "unacked" /\ (GoesBack(c) \/ GoesBack(d))

Quiet ==
  /\ msg = "gone" /\ \A r \in Runs : ~Alive(r)
  /\ \A a \in Clicks : click[a].pc \in {"idle", "done"}
Settled(c) == c \in given \/ PaidBack(c) \/ Claimable(rows[c])

\* Once nothing runs every charge was delivered, was returned, or waits on a row
\* that an administrator can refund (billing/policy.go).
SettledWhenQuiet ==
  trouble \in {"none", "unsettled", "pay"} /\ Quiet =>
    \A c \in Runs : charged[c] > 0 => Settled(c)

\* ClaimForRefund on why a row in progress cannot be claimed: the watchdog, when it
\* declares the execution failed, turns it into one that can
\* (provider_task_repo.go:427).
WatchdogOpensTheWay ==
  [][closed' /\ ~closed => \A c \in Runs : rows'[c].status # "submitted"]_vars

-----------------------------------------------------------------------------
(* SyncCharge implements ChargeLifecycle where the promise can be kept *)

Orderly == trouble \notin {"unrecorded", "unsettled", "unacked", "record"}
StateOfCharge(c) ==
  CASE ~Orderly \/ charged[c] = 0 -> "none"
    [] Orderly /\ charged[c] > 0 /\ PaidBack(c) -> "returned"
    [] Orderly /\ charged[c] > 0 /\ ~PaidBack(c) /\ c \in given -> "delivered"
    [] OTHER -> "open"
Balance ==
  IF ~Orderly THEN 0
  ELSE Cardinality({p \in Payers : Paid(p)}) - Cardinality({c \in Runs : charged[c] > 0})

Lifecycle == INSTANCE ChargeLifecycle WITH
  Charges <- Runs, state <- [c \in Runs |-> StateOfCharge(c)], balance <- Balance

\* Every step is a step of the promised life of a charge or does not touch the
\* money (billing/doc.go).
ImplementsLifecycle == Lifecycle!Spec
=============================================================================
