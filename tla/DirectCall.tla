----------------------------- MODULE DirectCall -----------------------------
(***************************************************************************)
(* The calls a page makes straight to a model: the prompt of a shot and    *)
(* the scene of a reference picture (prompt_handler.go, previz_handler.go).*)
(* The same click may come several times, from several tabs.  A request    *)
(* claims the idempotency key in Redis (idem/idem.go), charges the user,   *)
(* asks the model and settles the charge in its own row of provider_tasks  *)
(* (billing/sync_call.go); every call but the settlement uses the context  *)
(* of the request, which ends when the page is closed.                     *)
(***************************************************************************)
EXTENDS ProviderTasks, Naturals

CONSTANTS
  Requests,   \* the same click, again and again
  Troubles,   \* what may go wrong: a subset of AllTroubles
  MaxFaults   \* how often it does

\* The charge is refused, the page is closed while the model works or at any
\* time, the key expires under a request, Redis, a refund or the table fails,
\* the server stops.
AllTroubles ==
  {"none", "refuse", "close", "early", "slow", "redis", "pay", "table", "crash"}

\* A prompt, a scene from a picture, and one from a picture that cannot be read.
Kinds == {"prompt", "scene", "unreadable"}

VARIABLES
  kind,      \* what is asked for
  trouble,   \* what goes wrong in this behaviour
  faults,    \* how often it did
  key,       \* the record under the idempotency key
  missed,    \* a request ran although its claim had failed
  req        \* req[r]: where request r is, its money and its row

directVars == <<kind, trouble, faults, key, missed, req>>

Labels == {"idle", "get", "charge", "submit", "picture", "upstream", "release", "settle",
           "record", "review", "deliver", "finish", "over"}
Answers == {"none", "result", "replay", "busy", "error"}

CallStates ==
  [pc : Labels, why : {"none", "rejected", "unknown", "incomplete"}, refund : BOOLEAN,
   open : BOOLEAN, charged : BOOLEAN, paid : 0..2, row : Row({}), answer : Answers]

TypeOK ==
  /\ kind \in Kinds /\ trouble \in Troubles /\ faults \in 0..MaxFaults
  /\ key \in {"none", "inflight", "done"} /\ missed \in BOOLEAN
  /\ req \in [Requests -> CallStates]

Init ==
  /\ kind \in Kinds /\ trouble \in Troubles /\ faults = 0
  /\ key = "none" /\ missed = FALSE
  /\ req = [r \in Requests |-> [pc |-> "idle", why |-> "none", refund |-> FALSE,
       open |-> TRUE, charged |-> FALSE, paid |-> 0, row |-> NoRow, answer |-> "none"]]

Running(r) == req[r].pc \notin {"idle", "get", "over"}

\* The trouble strikes once more.
Strikes(which) == trouble = which /\ faults < MaxFaults /\ faults' = faults + 1

\* A call with the context of the request fails once the page is closed.
Lives(r) == req[r].open /\ UNCHANGED faults
Dies(r, which) == IF req[r].open THEN Strikes(which) ELSE UNCHANGED faults

Goes(r, pc) == req' = [req EXCEPT ![r].pc = pc]
Answered(r, answer) == req' = [req EXCEPT ![r].pc = "over", ![r].answer = answer]
NewRow(status, refunded) == [status |-> status, refunded |-> refunded, task |-> None]
Written(r, status, refunded, pc) ==
  req' = [req EXCEPT ![r].pc = pc, ![r].row = Upserted(@, NewRow(status, refunded))]

(***************************************************************************)
(* Begin: SETNX claims the key, and who does not get it reads what is      *)
(* there.  A failing Redis counts as free.                                 *)
(***************************************************************************)
Begin(r) ==
  /\ req[r].pc = "idle" /\ Lives(r)
  /\ IF key = "none" THEN key' = "inflight" /\ Goes(r, "charge")
     ELSE UNCHANGED key /\ Goes(r, "get")
  /\ UNCHANGED missed
BeginReads(r) ==
  /\ req[r].pc = "get" /\ Lives(r)
  /\ \/ key = "done" /\ Answered(r, "replay") /\ UNCHANGED missed
     \/ key = "inflight" /\ Answered(r, "busy") /\ UNCHANGED missed
     \/ key = "none" /\ Goes(r, "charge") /\ missed' = TRUE
  /\ UNCHANGED key
BeginFails(r) ==
  /\ req[r].pc \in {"idle", "get"} /\ Dies(r, "redis")
  /\ Goes(r, "charge") /\ missed' = TRUE /\ UNCHANGED key

\* ChargeByModel, and the row of the call.
Charge(r) ==
  /\ req[r].pc = "charge" /\ Lives(r)
  /\ req' = [req EXCEPT ![r].pc = "submit", ![r].charged = TRUE]
  /\ UNCHANGED <<key, missed>>
ChargeRefused(r) ==
  /\ req[r].pc = "charge" /\ Dies(r, "refuse")
  /\ Answered(r, "error") /\ UNCHANGED <<key, missed>>
Submitted(r) ==
  /\ req[r].pc = "submit" /\ Lives(r)
  /\ Written(r, "submitted", FALSE, IF kind = "prompt" THEN "upstream" ELSE "picture")
  /\ UNCHANGED <<key, missed>>
SubmittedLost(r) ==
  /\ req[r].pc = "submit" /\ Dies(r, "table")
  /\ Goes(r, IF kind = "prompt" THEN "upstream" ELSE "picture")
  /\ UNCHANGED <<key, missed>>

(***************************************************************************)
(* The reference picture of a scene.  When it cannot be read nothing was   *)
(* asked of the model: the charge goes back, and the row is written with   *)
(* the context of the request.  The key is not released.  A public picture *)
(* is not read here, so a closed page may get past it.                     *)
(***************************************************************************)
PictureRead(r) ==
  /\ req[r].pc = "picture" /\ kind = "scene" /\ Goes(r, "upstream")
  /\ UNCHANGED <<faults, key, missed>>
PictureWritten(r, refunded, written) ==
  req' = [req EXCEPT ![r].pc = "over", ![r].answer = "error",
    ![r].paid = IF refunded THEN @ + 1 ELSE @,
    ![r].row = IF ~written THEN @
               ELSE Upserted(@, NewRow(IF refunded THEN "refunded" ELSE "pending_review",
                                       refunded))]
PictureFails(r) ==
  /\ req[r].pc = "picture" /\ (kind = "unreadable" \/ ~req[r].open)
  /\ UNCHANGED <<key, missed>>
  /\ \/ UNCHANGED faults /\ PictureWritten(r, TRUE, req[r].open)
     \/ Strikes("pay") /\ PictureWritten(r, FALSE, req[r].open)
     \/ Strikes("table") /\ PictureWritten(r, TRUE, FALSE)

\* The model answers; a closed page takes the call down with it.
Upstream(r) ==
  /\ req[r].pc = "upstream"
  /\ \/ req[r].open /\ Goes(r, "deliver")
     \/ req[r].open /\ kind = "prompt" /\ Goes(r, "review")
     \/ \E why \in IF req[r].open THEN {"rejected", "unknown"} ELSE {"unknown"} :
          req' = [req EXCEPT ![r].pc = "release", ![r].why = why]
  /\ UNCHANGED <<faults, key, missed>>

(***************************************************************************)
(* A failure: the claim is released, and Settle returns the charge when    *)
(* the model refused the call or leaves it to a person.  Settle's calls do *)
(* not end with the request.                                               *)
(***************************************************************************)
AfterRelease(r) ==
  IF req[r].why = "incomplete" THEN Answered(r, "error") ELSE Goes(r, "settle")
Release(r) ==
  /\ req[r].pc = "release" /\ Lives(r)
  /\ key' = "none" /\ AfterRelease(r) /\ UNCHANGED missed
ReleaseFails(r) ==
  /\ req[r].pc = "release" /\ Dies(r, "redis")
  /\ AfterRelease(r) /\ UNCHANGED <<key, missed>>

Settle(r) ==
  /\ req[r].pc = "settle"
  /\ \/ /\ req[r].why = "rejected" /\ UNCHANGED faults
        /\ req' = [req EXCEPT ![r].pc = "record", ![r].paid = @ + 1, ![r].refund = TRUE]
     \/ req[r].why = "rejected" /\ Strikes("pay") /\ Goes(r, "record")
     \/ req[r].why = "unknown" /\ UNCHANGED faults /\ Goes(r, "record")
  /\ UNCHANGED <<key, missed>>
Recorded(r) ==
  /\ req[r].pc = "record" /\ UNCHANGED <<key, missed>>
  /\ \/ /\ UNCHANGED faults
        /\ req' = [req EXCEPT ![r].pc = "over", ![r].answer = "error",
             ![r].row = Upserted(@, IF req[r].refund THEN NewRow("refunded", TRUE)
                                    ELSE NewRow("pending_review", FALSE))]
     \/ Strikes("table") /\ Answered(r, "error")

\* An answer with holes is left to a person, with the context of the request.
Review(r) ==
  /\ req[r].pc = "review" /\ UNCHANGED <<key, missed>>
  /\ \/ /\ Lives(r)
        /\ req' = [req EXCEPT ![r].pc = "release", ![r].why = "incomplete",
             ![r].row = Upserted(@, NewRow("pending_review", FALSE))]
     \/ /\ Dies(r, "table")
        /\ req' = [req EXCEPT ![r].pc = "release", ![r].why = "incomplete"]

\* A full answer: the row is delivered and the result kept under the key.
Deliver(r) ==
  /\ req[r].pc = "deliver" /\ UNCHANGED <<key, missed>>
  /\ \/ Lives(r) /\ Written(r, "delivered", FALSE, "finish")
     \/ Dies(r, "table") /\ Goes(r, "finish")
Finish(r) ==
  /\ req[r].pc = "finish" /\ UNCHANGED missed
  /\ \/ Lives(r) /\ key' = "done"
     \/ Dies(r, "redis") /\ UNCHANGED key
  /\ Answered(r, "result")

-----------------------------------------------------------------------------
\* A record outlives its time to live: a result at any time, a claim when no
\* request runs, or under one that runs for more than five minutes.
Expire ==
  /\ key # "none" /\ key' = "none" /\ UNCHANGED <<missed, req>>
  /\ IF key = "inflight" /\ \E r \in Requests : Running(r) THEN Strikes("slow")
     ELSE UNCHANGED faults

\* The page is closed, or gives up after five minutes.
Close(r) ==
  /\ req[r].open /\ req[r].pc # "over"
  /\ Strikes("early") \/ (req[r].pc = "upstream" /\ Strikes("close"))
  /\ req' = [req EXCEPT ![r].open = FALSE] /\ UNCHANGED <<key, missed>>

Crash(r) ==
  /\ Running(r) /\ Strikes("crash")
  /\ Answered(r, "none") /\ UNCHANGED <<key, missed>>

\* Ledger.RefundManually; its steps are the subject of VideoCharge.
RefundManually(r) ==
  /\ Claimable(req[r].row)
  /\ req' = [req EXCEPT ![r].paid = @ + 1,
       ![r].row = MarkRefundedFromClaim(ClaimForRefund(@))]
  /\ UNCHANGED <<faults, key, missed>>

Handle(r) ==
  \/ Begin(r) \/ BeginReads(r) \/ BeginFails(r)
  \/ Charge(r) \/ ChargeRefused(r) \/ Submitted(r) \/ SubmittedLost(r)
  \/ PictureRead(r) \/ PictureFails(r) \/ Upstream(r)
  \/ Release(r) \/ ReleaseFails(r) \/ Settle(r) \/ Recorded(r) \/ Review(r)
  \/ Deliver(r) \/ Finish(r)
Next ==
  /\ UNCHANGED <<kind, trouble>>
  /\ Expire \/ \E r \in Requests : Handle(r) \/ Close(r) \/ Crash(r) \/ RefundManually(r)
Spec == Init /\ [][Next]_directVars

-----------------------------------------------------------------------------
\* While Redis answers and keeps its claims, the same click is not paid for by
\* two requests at once (idem.go:111, prompt_handler.go:171-172).
Asking(r) == Running(r) /\ req[r].pc \notin {"settle", "record"}
OneAtATime ==
  trouble # "slow" /\ ~missed => \A r, s \in Requests : Asking(r) /\ Asking(s) => r = s

\* A charge that brought no result is refunded and its row says so, or the row
\* is open to a person, unless the table failed, the server stopped or the page
\* was closed outside the call of the model (sync_call.go:87, :118).
FailedIsSettled ==
  trouble \notin {"table", "early", "crash"} =>
    \A r \in Requests : req[r].pc = "over" /\ req[r].charged /\ req[r].answer # "result" =>
      IF req[r].paid = 0 THEN Claimable(req[r].row)
      ELSE req[r].row.status = "refunded" /\ req[r].row.refunded

\* Whatever fails, a charge is returned once and only if it was taken, and a
\* delivered call keeps its price (ledger.go:93-100).
ReturnedOnce ==
  \A r \in Requests :
    /\ req[r].paid <= IF req[r].charged /\ req[r].answer # "result" THEN 1 ELSE 0
    /\ req[r].row.refunded => req[r].paid = 1

\* A request that failed leaves no claim that would call its retry a double
\* click, unless its charge was refused, its picture unreadable, its page closed,
\* Redis failed or the server stopped (idem.go:148).
FailureFreesKey ==
  trouble \in {"none", "slow", "pay", "table"} /\ kind # "unreadable" /\ key = "inflight" =>
    \E r \in Requests : Running(r)
=============================================================================
