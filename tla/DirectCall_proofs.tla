-------------------------- MODULE DirectCall_proofs --------------------------
(* Whatever goes wrong, however often and for however many requests, the       *)
(* charge of a direct call is returned at most once.                           *)
EXTENDS DirectCall, TLAPS

\* The row is not open to the administrator's button, and says nothing came back.
Shut(row) == ~row.refunded /\ row.status \in {"absent", "submitted", "delivered"}
Unsettled(row) == Shut(row) /\ row.status # "delivered"

(* What a request's place in its handler says of its money.  Only an answer    *)
(* with holes opens its row before the request is over, so only its claim may  *)
(* be released after the administrator returned the charge.                    *)
Before(q) == q.paid = 0 /\ ~q.refund /\ q.row = NoRow
During(q) == q.paid = 0 /\ ~q.refund /\ q.charged /\ Unsettled(q.row)
Money(q) ==
  /\ q.paid \in {0, 1}
  /\ q.row.refunded => q.paid = 1
  /\ q.paid = 1 => q.charged /\ q.answer # "result"
  /\ Claimable(q.row) => q.paid = 0 /\ q.charged /\ q.answer # "result"
  /\ q.pc # "over" => q.answer = "none"
  /\ q.pc \in {"idle", "get", "charge"} => Before(q)
  /\ q.pc \in {"submit", "picture", "upstream", "review", "deliver", "settle"} => During(q)
  /\ q.pc = "release" => q.charged /\ (q.why = "incomplete" \/ During(q))
  /\ q.pc = "finish" => q.paid = 0 /\ q.charged /\ Shut(q.row)
  /\ q.pc = "record" =>
       q.charged /\ Unsettled(q.row) /\ q.paid = IF q.refund THEN 1 ELSE 0

Inv ==
  /\ req \in [Requests -> CallStates]
  /\ \A r \in Requests : Money(req[r])

-----------------------------------------------------------------------------
(* What the helpers do to the requests *)

\* A step replaces the state of one request.
Becomes(r, q) == req' = [req EXCEPT ![r] = q]

LEMMA Replaced ==
  ASSUME Inv, NEW r \in Requests, NEW q \in CallStates, Money(q), Becomes(r, q)
  PROVE  Inv'
BY DEF Inv, Becomes

LEMMA GoesReplaces ==
  ASSUME Inv, NEW r \in Requests, NEW pc \in Labels, Goes(r, pc)
  PROVE  /\ [req[r] EXCEPT !.pc = pc] \in CallStates
         /\ Becomes(r, [req[r] EXCEPT !.pc = pc])
BY DEF Inv, CallStates, Goes, Becomes

LEMMA AnsweredReplaces ==
  ASSUME Inv, NEW r \in Requests, NEW answer \in Answers, Answered(r, answer)
  PROVE  /\ [req[r] EXCEPT !.pc = "over", !.answer = answer] \in CallStates
         /\ Becomes(r, [req[r] EXCEPT !.pc = "over", !.answer = answer])
BY DEF Inv, CallStates, Answered, Becomes, Labels

\* A row that is written is a row.
LEMMA UpsertedRow ==
  ASSUME NEW row \in Row({}), NEW status \in Statuses, NEW refunded \in BOOLEAN
  PROVE  Upserted(row, NewRow(status, refunded)) \in Row({})
BY DEF Upserted, NewRow, Row, Merged, Exists, Writable, Statuses

LEMMA ClaimedRow ==
  ASSUME NEW row \in Row({})
  PROVE  MarkRefundedFromClaim(ClaimForRefund(row)) \in Row({})
BY DEF MarkRefundedFromClaim, ClaimForRefund, Row, Statuses

\* A row that says nothing came back takes what the request writes to it.
LEMMA UpsertedUnsettled ==
  ASSUME NEW row \in Row({}), Unsettled(row),
         NEW status \in {"submitted", "delivered", "pending_review", "refunded"},
         NEW refunded \in BOOLEAN
  PROVE  /\ Upserted(row, NewRow(status, refunded)) \in Row({})
         /\ Upserted(row, NewRow(status, refunded)).status = status
         /\ Upserted(row, NewRow(status, refunded)).refunded = refunded
BY DEF Unsettled, Shut, Upserted, NewRow, Row, Merged, Exists, Writable, Statuses

-----------------------------------------------------------------------------
(* The steps of one request *)

LEMMA BeginStep ==
  ASSUME Inv, NEW r \in Requests, Begin(r) \/ BeginReads(r) \/ BeginFails(r)
  PROVE  Inv'
<1>1. req[r] \in CallStates /\ Money(req[r]) /\ req[r].pc \in {"idle", "get"}
  BY DEF Inv, Begin, BeginReads, BeginFails
<1>2. CASE \E pc \in {"charge", "get"} : Goes(r, pc)
  <2>1. PICK pc \in {"charge", "get"} : Goes(r, pc)
    BY <1>2
  <2>2. Money([req[r] EXCEPT !.pc = pc])
    BY <1>1 DEF Money, Before, CallStates
  <2> QED BY <2>1, <2>2, GoesReplaces, Replaced DEF Labels
<1>3. CASE \E answer \in {"replay", "busy"} : Answered(r, answer)
  <2>1. PICK answer \in {"replay", "busy"} : Answered(r, answer)
    BY <1>3
  <2>2. Money([req[r] EXCEPT !.pc = "over", !.answer = answer])
    BY <1>1 DEF Money, Before, CallStates, NoRow, Claimable
  <2> QED BY <2>1, <2>2, AnsweredReplaces, Replaced DEF Answers
<1> QED BY <1>2, <1>3 DEF Begin, BeginReads, BeginFails

LEMMA ChargeStep ==
  ASSUME Inv, NEW r \in Requests, Charge(r) \/ ChargeRefused(r)
  PROVE  Inv'
<1>1. req[r] \in CallStates /\ Money(req[r]) /\ req[r].pc = "charge"
  BY DEF Inv, Charge, ChargeRefused
<1>2. CASE Charge(r)
  <2> DEFINE q == [req[r] EXCEPT !.pc = "submit", !.charged = TRUE]
  <2>1. q \in CallStates /\ Becomes(r, q)
    BY <1>1, <1>2 DEF Charge, Becomes, CallStates, Labels, Inv
  <2>2. Money(q)
    BY <1>1 DEF Money, Before, During, Unsettled, Shut, CallStates, NoRow, Claimable
  <2> QED BY <2>1, <2>2, Replaced
<1>3. CASE ChargeRefused(r)
  <2>1. Money([req[r] EXCEPT !.pc = "over", !.answer = "error"])
    BY <1>1 DEF Money, Before, CallStates, NoRow, Claimable
  <2> QED BY <1>3, <2>1, AnsweredReplaces, Replaced DEF ChargeRefused, Answers
<1> QED BY <1>2, <1>3

\* The row of a call is written, or the write is lost.
LEMMA WrittenReplaces ==
  ASSUME Inv, NEW r \in Requests, NEW pc \in Labels,
         NEW status \in Statuses, NEW refunded \in BOOLEAN,
         Written(r, status, refunded, pc)
  PROVE  LET q == [req[r] EXCEPT !.pc = pc,
                                 !.row = Upserted(req[r].row, NewRow(status, refunded))]
         IN  q \in CallStates /\ Becomes(r, q)
<1>1. req[r] \in CallStates
  BY DEF Inv
<1>2. Upserted(req[r].row, NewRow(status, refunded)) \in Row({})
  BY <1>1, UpsertedRow DEF CallStates
<1> QED BY <1>1, <1>2 DEF Written, Becomes, CallStates, Inv

LEMMA SubmittedStep ==
  ASSUME Inv, NEW r \in Requests, Submitted(r) \/ SubmittedLost(r)
  PROVE  Inv'
<1> DEFINE pc == IF kind = "prompt" THEN "upstream" ELSE "picture"
           row == Upserted(req[r].row, NewRow("submitted", FALSE))
<1>1. req[r] \in CallStates /\ Money(req[r]) /\ req[r].pc = "submit"
  BY DEF Inv, Submitted, SubmittedLost
<1>2. During(req[r]) /\ req[r].answer = "none" /\ pc \in {"upstream", "picture"}
  BY <1>1 DEF Money
<1>3. CASE Submitted(r)
  <2>1. /\ [req[r] EXCEPT !.pc = pc, !.row = row] \in CallStates
        /\ Becomes(r, [req[r] EXCEPT !.pc = pc, !.row = row])
    BY <1>2, <1>3, WrittenReplaces DEF Submitted, Labels, Statuses
  <2>2. row \in Row({}) /\ row.status = "submitted" /\ row.refunded = FALSE
    BY <1>1, <1>2, UpsertedUnsettled DEF During, CallStates
  <2>3. Money([req[r] EXCEPT !.pc = pc, !.row = row])
    BY <1>1, <1>2, <2>2 DEF Money, During, Unsettled, Shut, CallStates, Claimable
  <2> QED BY <2>1, <2>3, Replaced
<1>4. CASE SubmittedLost(r)
  <2>1. Money([req[r] EXCEPT !.pc = pc])
    BY <1>1, <1>2 DEF Money, During, CallStates
  <2> QED BY <1>2, <1>4, <2>1, GoesReplaces, Replaced DEF SubmittedLost, Labels
<1> QED BY <1>3, <1>4

LEMMA PictureStep ==
  ASSUME Inv, NEW r \in Requests, PictureRead(r) \/ PictureFails(r)
  PROVE  Inv'
<1>1. req[r] \in CallStates /\ Money(req[r]) /\ req[r].pc = "picture"
  BY DEF Inv, PictureRead, PictureFails
<1>2. During(req[r]) /\ req[r].answer = "none"
  BY <1>1 DEF Money
<1>3. CASE PictureRead(r)
  <2>1. Money([req[r] EXCEPT !.pc = "upstream"])
    BY <1>1, <1>2 DEF Money, During, CallStates
  <2> QED BY <1>3, <2>1, GoesReplaces, Replaced DEF PictureRead, Labels
<1>4. CASE PictureFails(r)
  <2>1. PICK refunded \in BOOLEAN, written \in BOOLEAN : PictureWritten(r, refunded, written)
    BY <1>1, <1>4 DEF PictureFails, CallStates
  <2> DEFINE new == Upserted(req[r].row,
                             NewRow(IF refunded THEN "refunded" ELSE "pending_review", refunded))
             row == IF written THEN new ELSE req[r].row
             paid == IF refunded THEN req[r].paid + 1 ELSE req[r].paid
             q == [req[r] EXCEPT !.pc = "over", !.answer = "error", !.row = row, !.paid = paid]
  <2>2. /\ new \in Row({})
        /\ new.status = IF refunded THEN "refunded" ELSE "pending_review"
        /\ new.refunded = refunded
    BY <1>1, <1>2, UpsertedUnsettled DEF During, CallStates
  <2>3. row \in Row({}) /\ (row = new \/ row = req[r].row)
    BY <1>1, <2>2 DEF CallStates
  <2>4. Becomes(r, q)
    BY <1>1, <2>1 DEF PictureWritten, Becomes, Inv, CallStates
  <2>5. q \in CallStates
    <3>1. paid \in 0..2
      BY <1>2 DEF During
    <3> HIDE DEF row, paid
    <3> QED BY <1>1, <2>3, <3>1 DEF CallStates, Labels, Answers
  <2>6. Money(q)
    BY <1>1, <1>2, <2>2, <2>3 DEF Money, During, Unsettled, Shut, CallStates, Claimable
  <2> QED BY <2>4, <2>5, <2>6, Replaced
<1> QED BY <1>3, <1>4

LEMMA UpstreamStep ==
  ASSUME Inv, NEW r \in Requests, Upstream(r)
  PROVE  Inv'
<1>1. req[r] \in CallStates /\ Money(req[r]) /\ req[r].pc = "upstream"
  BY DEF Inv, Upstream
<1>2. During(req[r]) /\ req[r].answer = "none"
  BY <1>1 DEF Money
<1>3. CASE \E pc \in {"deliver", "review"} : Goes(r, pc)
  <2>1. PICK pc \in {"deliver", "review"} : Goes(r, pc)
    BY <1>3
  <2>2. Money([req[r] EXCEPT !.pc = pc])
    BY <1>1, <1>2, <2>1 DEF Money, During, CallStates
  <2> QED BY <2>1, <2>2, GoesReplaces, Replaced DEF Labels
<1>4. CASE \E why \in {"rejected", "unknown"} :
             req' = [req EXCEPT ![r].pc = "release", ![r].why = why]
  <2>1. PICK why \in {"rejected", "unknown"} :
               req' = [req EXCEPT ![r].pc = "release", ![r].why = why]
    BY <1>4
  <2> DEFINE q == [req[r] EXCEPT !.pc = "release", !.why = why]
  <2>2. q \in CallStates /\ Becomes(r, q)
    BY <1>1, <2>1 DEF Becomes, Inv, CallStates, Labels
  <2>3. Money(q)
    BY <1>1, <1>2, <2>1 DEF Money, During, CallStates
  <2> QED BY <2>2, <2>3, Replaced
<1> QED BY <1>3, <1>4 DEF Upstream

\* An answer with holes is over once its claim is released: its row is already
\* open to the administrator.
LEMMA ReleaseStep ==
  ASSUME Inv, NEW r \in Requests, Release(r) \/ ReleaseFails(r)
  PROVE  Inv'
<1>1. req[r] \in CallStates /\ Money(req[r]) /\ req[r].pc = "release" /\ AfterRelease(r)
  BY DEF Inv, Release, ReleaseFails
<1>2. CASE req[r].why = "incomplete"
  <2>1. Money([req[r] EXCEPT !.pc = "over", !.answer = "error"])
    BY <1>1, <1>2 DEF Money, CallStates, Claimable
  <2> QED BY <1>1, <1>2, <2>1, AnsweredReplaces, Replaced DEF AfterRelease, Answers
<1>3. CASE req[r].why # "incomplete"
  <2>1. During(req[r]) /\ req[r].answer = "none"
    BY <1>1, <1>3 DEF Money
  <2>2. Money([req[r] EXCEPT !.pc = "settle"])
    BY <1>1, <2>1 DEF Money, During, CallStates
  <2> QED BY <1>1, <1>3, <2>2, GoesReplaces, Replaced DEF AfterRelease, Labels
<1> QED BY <1>2, <1>3

LEMMA SettleStep ==
  ASSUME Inv, NEW r \in Requests, Settle(r)
  PROVE  Inv'
<1>1. req[r] \in CallStates /\ Money(req[r]) /\ req[r].pc = "settle"
  BY DEF Inv, Settle
<1>2. During(req[r]) /\ req[r].answer = "none"
  BY <1>1 DEF Money
<1>3. CASE Goes(r, "record")
  <2>1. Money([req[r] EXCEPT !.pc = "record"])
    BY <1>1, <1>2 DEF Money, During, CallStates
  <2> QED BY <1>3, <2>1, GoesReplaces, Replaced DEF Labels
<1>4. CASE req' = [req EXCEPT ![r].pc = "record", ![r].paid = @ + 1, ![r].refund = TRUE]
  <2> DEFINE q == [req[r] EXCEPT !.pc = "record", !.paid = 1, !.refund = TRUE]
  <2>1. Becomes(r, q)
    BY <1>1, <1>2, <1>4 DEF Becomes, Inv, CallStates, During
  <2>2. q \in CallStates
    <3>1. 1 \in 0..2
      OBVIOUS
    <3> QED BY <1>1, <3>1 DEF CallStates, Labels
  <2>3. Money(q)
    BY <1>1, <1>2 DEF Money, During, Unsettled, Shut, CallStates, Claimable
  <2> QED BY <2>1, <2>2, <2>3, Replaced
<1> QED BY <1>3, <1>4 DEF Settle

LEMMA RecordedStep ==
  ASSUME Inv, NEW r \in Requests, Recorded(r)
  PROVE  Inv'
<1>1. req[r] \in CallStates /\ Money(req[r]) /\ req[r].pc = "record"
  BY DEF Inv, Recorded
<1>2. /\ req[r].charged /\ req[r].answer = "none" /\ Unsettled(req[r].row)
      /\ req[r].paid = IF req[r].refund THEN 1 ELSE 0
  BY <1>1 DEF Money
<1>3. CASE Answered(r, "error")
  <2>1. Money([req[r] EXCEPT !.pc = "over", !.answer = "error"])
    BY <1>1, <1>2 DEF Money, Unsettled, Shut, CallStates, Claimable
  <2> QED BY <1>3, <2>1, AnsweredReplaces, Replaced DEF Answers
<1>4. CASE req' = [req EXCEPT ![r].pc = "over", ![r].answer = "error",
             ![r].row = Upserted(@, IF req[r].refund THEN NewRow("refunded", TRUE)
                                    ELSE NewRow("pending_review", FALSE))]
  <2> DEFINE new == IF req[r].refund THEN NewRow("refunded", TRUE)
                    ELSE NewRow("pending_review", FALSE)
             row == Upserted(req[r].row, new)
             q == [req[r] EXCEPT !.pc = "over", !.answer = "error", !.row = row]
  <2>1. /\ row \in Row({})
        /\ row.status = IF req[r].refund THEN "refunded" ELSE "pending_review"
        /\ row.refunded = req[r].refund
    <3>1. req[r].row \in Row({}) /\ req[r].refund \in BOOLEAN
      BY <1>1 DEF CallStates
    <3>2. CASE req[r].refund
      <4>1. new = NewRow("refunded", TRUE)
        BY <3>2
      <4> QED BY <1>2, <3>1, <3>2, <4>1, UpsertedUnsettled
    <3>3. CASE ~req[r].refund
      <4>1. new = NewRow("pending_review", FALSE)
        BY <3>3
      <4>2. /\ Upserted(req[r].row, NewRow("pending_review", FALSE)) \in Row({})
            /\ Upserted(req[r].row, NewRow("pending_review", FALSE)).status = "pending_review"
            /\ Upserted(req[r].row, NewRow("pending_review", FALSE)).refunded = FALSE
        BY <1>2, <3>1, UpsertedUnsettled
      <4>3. req[r].refund = FALSE
        BY <3>1, <3>3
      <4> QED BY <4>1, <4>2, <4>3
    <3> QED BY <3>2, <3>3
  <2>2. Becomes(r, q)
    BY <1>1, <1>4 DEF Becomes, Inv, CallStates
  <2> HIDE DEF row
  <2>3. q \in CallStates
    BY <1>1, <2>1 DEF CallStates, Labels, Answers
  <2>4. Money(q)
    BY <1>1, <1>2, <2>1 DEF Money, CallStates, Claimable
  <2> QED BY <2>2, <2>3, <2>4, Replaced
<1> QED BY <1>3, <1>4 DEF Recorded

LEMMA ReviewStep ==
  ASSUME Inv, NEW r \in Requests, Review(r)
  PROVE  Inv'
<1>1. req[r] \in CallStates /\ Money(req[r]) /\ req[r].pc = "review"
  BY DEF Inv, Review
<1>2. During(req[r]) /\ req[r].answer = "none"
  BY <1>1 DEF Money
<1> DEFINE new == Upserted(req[r].row, NewRow("pending_review", FALSE))
<1>3. new \in Row({}) /\ new.status = "pending_review" /\ new.refunded = FALSE
  BY <1>1, <1>2, UpsertedUnsettled DEF During, CallStates
<1>4. PICK row \in {new, req[r].row} :
             Becomes(r, [req[r] EXCEPT !.pc = "release", !.why = "incomplete", !.row = row])
  BY <1>1 DEF Review, Becomes, Inv, CallStates
<1> DEFINE q == [req[r] EXCEPT !.pc = "release", !.why = "incomplete", !.row = row]
<1> HIDE DEF new
<1>5. q \in CallStates
  BY <1>1, <1>3, <1>4 DEF CallStates, Labels
<1>6. Money(q)
  BY <1>1, <1>2, <1>3, <1>4 DEF Money, During, Unsettled, Shut, CallStates, Claimable
<1> QED BY <1>4, <1>5, <1>6, Replaced

LEMMA DeliverStep ==
  ASSUME Inv, NEW r \in Requests, Deliver(r)
  PROVE  Inv'
<1>1. req[r] \in CallStates /\ Money(req[r]) /\ req[r].pc = "deliver"
  BY DEF Inv, Deliver
<1>2. During(req[r]) /\ req[r].answer = "none"
  BY <1>1 DEF Money
<1>3. CASE Written(r, "delivered", FALSE, "finish")
  <2> DEFINE row == Upserted(req[r].row, NewRow("delivered", FALSE))
  <2>1. /\ [req[r] EXCEPT !.pc = "finish", !.row = row] \in CallStates
        /\ Becomes(r, [req[r] EXCEPT !.pc = "finish", !.row = row])
    BY <1>3, WrittenReplaces DEF Labels, Statuses
  <2>2. row \in Row({}) /\ row.status = "delivered" /\ row.refunded = FALSE
    BY <1>1, <1>2, UpsertedUnsettled DEF During, CallStates
  <2> HIDE DEF row
  <2>3. Money([req[r] EXCEPT !.pc = "finish", !.row = row])
    BY <1>1, <1>2, <2>2 DEF Money, During, Shut, CallStates, Claimable
  <2> QED BY <2>1, <2>3, Replaced
<1>4. CASE Goes(r, "finish")
  <2>1. Money([req[r] EXCEPT !.pc = "finish"])
    BY <1>1, <1>2 DEF Money, During, Unsettled, CallStates
  <2> QED BY <1>4, <2>1, GoesReplaces, Replaced DEF Labels
<1> QED BY <1>3, <1>4 DEF Deliver

LEMMA FinishStep ==
  ASSUME Inv, NEW r \in Requests, Finish(r)
  PROVE  Inv'
<1>1. req[r] \in CallStates /\ Money(req[r]) /\ req[r].pc = "finish" /\ Answered(r, "result")
  BY DEF Inv, Finish
<1>2. Money([req[r] EXCEPT !.pc = "over", !.answer = "result"])
  BY <1>1 DEF Money, Shut, CallStates, Claimable
<1> QED BY <1>1, <1>2, AnsweredReplaces, Replaced DEF Answers

-----------------------------------------------------------------------------
(* What happens to a request from outside *)

LEMMA CloseStep ==
  ASSUME Inv, NEW r \in Requests, Close(r)
  PROVE  Inv'
<1> DEFINE q == [req[r] EXCEPT !.open = FALSE]
<1>1. req[r] \in CallStates /\ Money(req[r])
  BY DEF Inv
<1>2. q \in CallStates /\ Becomes(r, q)
  BY <1>1 DEF Close, Becomes, Inv, CallStates
<1>3. Money(q)
  BY <1>1 DEF Money, Before, During, CallStates
<1> QED BY <1>2, <1>3, Replaced

LEMMA CrashStep ==
  ASSUME Inv, NEW r \in Requests, Crash(r)
  PROVE  Inv'
<1>1. /\ req[r] \in CallStates /\ Money(req[r]) /\ Answered(r, "none")
      /\ req[r].pc \notin {"idle", "get", "over"}
  BY DEF Inv, Crash, Running
<1>2. Money([req[r] EXCEPT !.pc = "over", !.answer = "none"])
  BY <1>1 DEF Money, Before, During, Unsettled, Shut, CallStates, Claimable
<1> QED BY <1>1, <1>2, AnsweredReplaces, Replaced DEF Answers

\* The administrator finds no row open whose charge came back, and none of a
\* request that is still to settle.
LEMMA RefundStep ==
  ASSUME Inv, NEW r \in Requests, RefundManually(r)
  PROVE  Inv'
<1>1. req[r] \in CallStates /\ Money(req[r]) /\ Claimable(req[r].row)
  BY DEF Inv, RefundManually
<1>2. /\ req[r].paid = 0 /\ req[r].charged /\ req[r].answer # "result"
      /\ req[r].row.status \in {"pending_review", "failed"}
  BY <1>1 DEF Money, Claimable
<1> DEFINE row == MarkRefundedFromClaim(ClaimForRefund(req[r].row))
           q == [req[r] EXCEPT !.paid = 1, !.row = row]
<1>3. row \in Row({}) /\ row.status = "refunded" /\ row.refunded
  BY <1>1, ClaimedRow DEF CallStates, MarkRefundedFromClaim, ClaimForRefund, Row
<1> HIDE DEF row
<1>4. Becomes(r, q)
  <2>1. req' = [req EXCEPT ![r].paid = @ + 1, ![r].row = row]
    BY DEF RefundManually, row
  <2>2. req' = [req EXCEPT ![r] = [req[r] EXCEPT !.paid = req[r].paid + 1, !.row = row]]
    BY <1>1, <2>1 DEF Inv, CallStates
  <2> QED BY <1>2, <2>2 DEF Becomes
<1>5. q \in CallStates
  <2>1. 1 \in 0..2
    OBVIOUS
  <2> QED BY <1>1, <1>3, <2>1 DEF CallStates
<1>6. Money(q)
  BY <1>1, <1>2, <1>3
     DEF Money, Before, During, Unsettled, Shut, NoRow, CallStates, Claimable
<1> QED BY <1>4, <1>5, <1>6, Replaced

-----------------------------------------------------------------------------
LEMMA HandleStep ==
  ASSUME Inv, NEW r \in Requests, Handle(r)
  PROVE  Inv'
BY BeginStep, ChargeStep, SubmittedStep, PictureStep, UpstreamStep, ReleaseStep, SettleStep,
   RecordedStep, ReviewStep, DeliverStep, FinishStep DEF Handle

LEMMA StepKeepsInv == Inv /\ [Next]_directVars => Inv'
<1> SUFFICES ASSUME Inv, [Next]_directVars
             PROVE  Inv'
  OBVIOUS
<1>1. CASE Expire \/ UNCHANGED directVars
  BY <1>1 DEF Expire, directVars, Inv
<1>2. CASE \E r \in Requests : Handle(r) \/ Close(r) \/ Crash(r) \/ RefundManually(r)
  BY <1>2, HandleStep, CloseStep, CrashStep, RefundStep
<1> QED BY <1>1, <1>2 DEF Next

LEMMA InitInv == Init => Inv
<1> SUFFICES ASSUME Init
             PROVE  Inv
  OBVIOUS
<1> DEFINE q == [pc |-> "idle", why |-> "none", refund |-> FALSE, open |-> TRUE,
                 charged |-> FALSE, paid |-> 0, row |-> NoRow, answer |-> "none"]
<1>1. NoRow \in Row({}) /\ 0 \in 0..2
  BY DEF NoRow, Row
<1>2. q \in CallStates
  BY <1>1 DEF CallStates, Labels, Answers
<1>3. Money(q)
  BY DEF Money, Before, NoRow, Claimable
<1> QED BY <1>2, <1>3 DEF Init, Inv

LEMMA InvReturnsOnce == Inv => ReturnedOnce
BY DEF Inv, Money, ReturnedOnce, CallStates

(* The charge of a call straight to a model is returned at most once, and only *)
(* if the call brought nothing, whoever returns it and whatever fails          *)
(* (billing/sync_call.go:89-115, billing/ledger.go:93-100).                    *)
THEOREM ChargeReturnedOnce == Spec => []ReturnedOnce
BY InitInv, StepKeepsInv, InvReturnsOnce, PTL DEF Spec

-----------------------------------------------------------------------------
(* The claim on the key *)

Others(r) == \A s \in Requests : s # r => req'[s] = req[s]

\* A request starts to ask with the claim it takes, and gives up the claim when
\* it stops, or the worlds differ.
Claiming(r) ==
  /\ missed => missed'
  /\ \/ Asking(r) \/ ~Asking(r)' \/ missed'
     \/ key = "none" /\ key' = "inflight"
  /\ \/ key' = key
     \/ key = "none" /\ key' = "inflight" /\ Asking(r)'
     \/ Asking(r) /\ ~Asking(r)' /\ key' \in {"none", "done"}

Sound == trouble \in {"none", "slow", "pay", "table"} /\ kind # "unreadable"
Freeing(r) == Sound /\ req[r].open /\ Asking(r) /\ ~Asking(r)' => key' # "inflight"

\* Where a step takes a request.
Moves(r, pc) == Others(r) /\ req'[r].pc = pc /\ req'[r].open = req[r].open

LEMMA MovesClaims ==
  ASSUME NEW r \in Requests, NEW pc, Moves(r, pc), UNCHANGED kind, UNCHANGED trouble,
         UNCHANGED key, missed => missed',
         \/ ~(pc \notin {"idle", "get", "over", "settle", "record"})
         \/ Asking(r) \/ missed',
         Sound /\ req[r].open /\ Asking(r) =>
           (key # "inflight" \/ pc \notin {"idle", "get", "over", "settle", "record"})
  PROVE  /\ Others(r) /\ Claiming(r) /\ Freeing(r)
         /\ req'[r].open = req[r].open
<1>1. Asking(r)' <=> pc \notin {"idle", "get", "over", "settle", "record"}
  BY DEF Moves, Asking, Running
<1> QED
  BY <1>1 DEF Moves, Claiming, Freeing

LEMMA HandleClaims ==
  ASSUME Inv, NEW r \in Requests, Handle(r), UNCHANGED <<kind, trouble>>
  PROVE  /\ Others(r) /\ Claiming(r) /\ Freeing(r)
         /\ req'[r].open = req[r].open
<1>0. req \in [Requests -> CallStates] /\ req[r] \in CallStates
  BY DEF Inv, TypeOK
<1>g. \A p : Goes(r, p) => Moves(r, p)
  BY <1>0 DEF Goes, Moves, Others, CallStates
<1>a. \A x : Answered(r, x) => Moves(r, "over")
  BY <1>0 DEF Answered, Moves, Others, CallStates
<1>w. \A x, y, p : Written(r, x, y, p) => Moves(r, p)
  BY <1>0 DEF Written, Moves, Others, CallStates
<1>p. \A x, y : PictureWritten(r, x, y) => Moves(r, "over")
  BY <1>0 DEF PictureWritten, Moves, Others, CallStates
<1>l. Lives(r) => req[r].open
  BY DEF Lives
<1>d. \A x : Dies(r, x) /\ req[r].open => trouble = x
  BY DEF Dies, Strikes
<1>t. Asking(r) <=> req[r].pc \notin {"idle", "get", "over", "settle", "record"}
  BY DEF Asking, Running
<1>1. CASE Begin(r)
  <2>1. \/ Moves(r, "charge") /\ key = "none" /\ key' = "inflight" /\ UNCHANGED missed
        \/ Moves(r, "get") /\ UNCHANGED <<key, missed>> /\ ~Asking(r)
    BY <1>1, <1>g, <1>t DEF Begin
  <2>2. CASE Moves(r, "charge") /\ key = "none" /\ key' = "inflight" /\ UNCHANGED missed
    BY <2>2 DEF Moves, Claiming, Freeing, Asking, Running
  <2>3. CASE Moves(r, "get") /\ UNCHANGED <<key, missed>> /\ ~Asking(r)
    BY <2>3, MovesClaims
  <2> QED
    BY <2>1, <2>2, <2>3
<1>2. CASE BeginReads(r)
  <2>1. ~Asking(r) /\ UNCHANGED key
    BY <1>2, <1>t DEF BeginReads
  <2>2. \/ Moves(r, "over") /\ UNCHANGED missed
        \/ Moves(r, "charge") /\ missed'
    BY <1>2, <1>a, <1>g DEF BeginReads
  <2> QED
    BY <2>1, <2>2, MovesClaims
<1>3. CASE BeginFails(r)
  <2>1. ~Asking(r) /\ UNCHANGED key /\ Moves(r, "charge") /\ missed'
    BY <1>3, <1>t, <1>g DEF BeginFails
  <2> QED
    BY <2>1, MovesClaims
<1>4. CASE Charge(r) \/ ChargeRefused(r)
  <2>1. Asking(r) /\ UNCHANGED <<key, missed>>
    BY <1>4, <1>t DEF Charge, ChargeRefused
  <2>2. CASE Charge(r)
    <3>1. Moves(r, "submit")
      BY <2>2, <1>0 DEF Charge, Moves, Others, CallStates
    <3> QED
      BY <3>1, <2>1, MovesClaims
  <2>3. CASE ChargeRefused(r)
    <3>1. Moves(r, "over") /\ (req[r].open => trouble = "refuse")
      BY <2>3, <1>a, <1>d DEF ChargeRefused
    <3> QED
      BY <3>1, <2>1, MovesClaims DEF Sound
  <2> QED
    BY <1>4, <2>2, <2>3
<1>5. CASE Submitted(r) \/ SubmittedLost(r)
  <2>1. Asking(r) /\ UNCHANGED <<key, missed>>
    BY <1>5, <1>t DEF Submitted, SubmittedLost
  <2>2. Moves(r, IF kind = "prompt" THEN "upstream" ELSE "picture")
    BY <1>5, <1>g, <1>w DEF Submitted, SubmittedLost
  <2>3. Moves(r, "upstream") \/ Moves(r, "picture")
    BY <2>2
  <2> QED
    BY <2>1, <2>3, MovesClaims
<1>6. CASE PictureRead(r)
  <2>1. Asking(r) /\ UNCHANGED <<key, missed>> /\ Moves(r, "upstream")
    BY <1>6, <1>t, <1>g DEF PictureRead
  <2> QED
    BY <2>1, MovesClaims
<1>7. CASE PictureFails(r)
  <2>1. Asking(r) /\ UNCHANGED <<key, missed>> /\ Moves(r, "over")
    BY <1>7, <1>t, <1>p DEF PictureFails
  <2>2. kind = "unreadable" \/ ~req[r].open
    BY <1>7 DEF PictureFails
  <2> QED
    BY <2>1, <2>2, MovesClaims DEF Sound
<1>8. CASE Upstream(r)
  <2>1. Asking(r) /\ UNCHANGED <<key, missed>>
    BY <1>8, <1>t DEF Upstream
  <2>2. \A w : req' = [req EXCEPT ![r].pc = "release", ![r].why = w] => Moves(r, "release")
    BY <1>0 DEF Moves, Others, CallStates
  <2>3. Moves(r, "deliver") \/ Moves(r, "review") \/ Moves(r, "release")
    BY <1>8, <1>g, <2>2 DEF Upstream
  <2> QED
    BY <2>1, <2>3, MovesClaims
<1>9. CASE Release(r)
  <2>1. Asking(r) /\ UNCHANGED missed /\ key' = "none"
    BY <1>9, <1>t DEF Release
  <2>2. Moves(r, "over") \/ Moves(r, "settle")
    BY <1>9, <1>a, <1>g DEF Release, AfterRelease
  <2> QED
    BY <2>1, <2>2 DEF Moves, Claiming, Freeing, Asking, Running
<1>10. CASE ReleaseFails(r)
  <2>1. Asking(r) /\ UNCHANGED <<key, missed>> /\ (req[r].open => trouble = "redis")
    BY <1>10, <1>t, <1>d DEF ReleaseFails
  <2>2. Moves(r, "over") \/ Moves(r, "settle")
    BY <1>10, <1>a, <1>g DEF ReleaseFails, AfterRelease
  <2> QED
    BY <2>1, <2>2, MovesClaims DEF Sound
<1>11. CASE Settle(r)
  <2>1. ~Asking(r) /\ UNCHANGED <<key, missed>>
    BY <1>11, <1>t DEF Settle
  <2>2. req' = [req EXCEPT ![r].pc = "record", ![r].paid = @ + 1, ![r].refund = TRUE]
          => Moves(r, "record")
    BY <1>0 DEF Moves, Others, CallStates
  <2>3. Moves(r, "record")
    BY <1>11, <1>g, <2>2 DEF Settle
  <2> QED
    BY <2>1, <2>3, MovesClaims
<1>12. CASE Recorded(r)
  <2>1. ~Asking(r) /\ UNCHANGED <<key, missed>>
    BY <1>12, <1>t DEF Recorded
  <2>2. \A x : req' = [req EXCEPT ![r].pc = "over", ![r].answer = "error", ![r].row = x]
          => Moves(r, "over")
    BY <1>0 DEF Moves, Others, CallStates
  <2>3. Moves(r, "over")
    <3>1. CASE Strikes("table") /\ Answered(r, "error")
      BY <3>1, <1>a
    <3>2. CASE ~(Strikes("table") /\ Answered(r, "error"))
      BY <3>2, <1>12, <2>2 DEF Recorded
    <3> QED
      BY <3>1, <3>2
  <2> QED
    BY <2>1, <2>3, MovesClaims
<1>13. CASE Review(r)
  <2>1. Asking(r) /\ UNCHANGED <<key, missed>>
    BY <1>13, <1>t DEF Review
  <2>2. req' = [req EXCEPT ![r].pc = "release", ![r].why = "incomplete"]
          => Moves(r, "release")
    BY <1>0 DEF Moves, Others, CallStates
  <2>3. req' = [req EXCEPT ![r].pc = "release", ![r].why = "incomplete",
             ![r].row = Upserted(@, NewRow("pending_review", FALSE))]
          => Moves(r, "release")
    BY <1>0 DEF Moves, Others, CallStates
  <2>4. Moves(r, "release")
    BY <1>13, <2>2, <2>3 DEF Review
  <2> QED
    BY <2>1, <2>4, MovesClaims
<1>14. CASE Deliver(r)
  <2>1. Asking(r) /\ UNCHANGED <<key, missed>>
    BY <1>14, <1>t DEF Deliver
  <2>2. Moves(r, "finish")
    BY <1>14, <1>g, <1>w DEF Deliver
  <2> QED
    BY <2>1, <2>2, MovesClaims
<1>15. CASE Finish(r)
  <2>1. Asking(r) /\ UNCHANGED missed /\ Moves(r, "over")
    BY <1>15, <1>t, <1>a DEF Finish
  <2>2. \/ key' = "done"
        \/ UNCHANGED key /\ (req[r].open => trouble = "redis")
    BY <1>15, <1>d DEF Finish
  <2>3. CASE key' = "done"
    BY <2>1, <2>3 DEF Moves, Claiming, Freeing, Asking, Running
  <2>4. CASE UNCHANGED key /\ (req[r].open => trouble = "redis")
    BY <2>1, <2>4, MovesClaims DEF Sound
  <2> QED
    BY <2>2, <2>3, <2>4
<1> QED
  BY <1>1, <1>2, <1>3, <1>4, <1>5, <1>6, <1>7, <1>8, <1>9, <1>10, <1>11, <1>12, <1>13, <1>14,
     <1>15 DEF Handle

\* From outside, a request only loses its page, its process or its charge.
LEMMA OutsideClaims ==
  ASSUME Inv, NEW r \in Requests, Close(r) \/ Crash(r) \/ RefundManually(r)
  PROVE  /\ Others(r) /\ UNCHANGED <<key, missed>>
         /\ Asking(r)' => Asking(r)
         /\ Sound => req'[r].open = req[r].open /\ (Asking(r) => Asking(r)')
<1> USE DEF Inv, Others, Sound, Asking, Running, Strikes, CallStates
<1>1. CASE Close(r)
  BY <1>1 DEF Close
<1>2. CASE Crash(r)
  BY <1>2 DEF Crash, Answered
<1>3. CASE RefundManually(r)
  BY <1>3 DEF RefundManually
<1> QED
  BY <1>1, <1>2, <1>3

\* Who asks has the claim, and in the sound worlds who has the claim asks.
Alone ==
  trouble # "slow" /\ ~missed =>
    OneAtATime /\ \A r \in Requests : Asking(r) => key = "inflight"
Freed ==
  Sound => /\ \A r \in Requests : req[r].open
           /\ key = "inflight" => \E r \in Requests : Asking(r)

LEMMA ClaimsStep ==
  ASSUME Inv, Alone, Freed, [Next]_directVars
  PROVE  Alone' /\ Freed'
<1>1. CASE UNCHANGED directVars
  BY <1>1 DEF directVars, Alone, Freed, OneAtATime, Asking, Running, Sound
<1>2. CASE Expire /\ UNCHANGED <<kind, trouble>>
  BY <1>2 DEF Expire, Strikes, Alone, Freed, OneAtATime, Asking, Running, Sound
<1>3. ASSUME NEW r \in Requests, Others(r), Claiming(r), Freeing(r), UNCHANGED <<kind, trouble>>,
             req'[r].open = req[r].open
      PROVE  Alone' /\ Freed'
  <2>1. \A s \in Requests : s # r => (Asking(s)' <=> Asking(s)) /\ req'[s].open = req[s].open
    BY <1>3 DEF Others, Asking, Running
  <2>2. Alone'
    BY <1>3, <2>1 DEF Alone, OneAtATime, Claiming
  <2>3. Freed'
    BY <1>3, <2>1 DEF Freed, Claiming, Freeing, Sound
  <2> QED
    BY <2>2, <2>3
<1>4. ASSUME NEW r \in Requests, Close(r) \/ Crash(r) \/ RefundManually(r),
             UNCHANGED <<kind, trouble>>
      PROVE  Alone' /\ Freed'
  <2>1. /\ Others(r) /\ UNCHANGED <<key, missed>>
        /\ Asking(r)' => Asking(r)
        /\ Sound => req'[r].open = req[r].open /\ (Asking(r) => Asking(r)')
    BY <1>4, OutsideClaims
  <2>2. \A s \in Requests : s # r => (Asking(s)' <=> Asking(s)) /\ req'[s].open = req[s].open
    BY <2>1 DEF Others, Asking, Running
  <2>3. Alone'
    BY <1>4, <2>1, <2>2 DEF Alone, OneAtATime
  <2>4. Freed'
    BY <1>4, <2>1, <2>2 DEF Freed, Sound
  <2> QED
    BY <2>3, <2>4
<1> QED
  BY <1>1, <1>2, <1>3, <1>4, HandleClaims DEF Next

LEMMA ClaimsInit == Init => Alone /\ Freed
BY DEF Init, Alone, Freed, OneAtATime, Asking, Running

(* While Redis answers and keeps its claims, a double click is not paid for    *)
(* twice at once, for any number of requests (idem.go:111).                    *)
THEOREM OneAsksAtATime == Spec => []OneAtATime
<1>1. Alone => OneAtATime
  BY DEF Alone, OneAtATime
<1> QED
  BY <1>1, InitInv, StepKeepsInv, ClaimsInit, ClaimsStep, PTL DEF Spec

(* A request that failed does not leave its claim behind, in the worlds in     *)
(* which nothing takes the release away from it (idem.go:148).                 *)
THEOREM FailuresFreeTheKey == Spec => []FailureFreesKey
<1>1. Freed => FailureFreesKey
  BY DEF Freed, Sound, FailureFreesKey, Asking
<1> QED
  BY <1>1, InitInv, StepKeepsInv, ClaimsInit, ClaimsStep, PTL DEF Spec

-----------------------------------------------------------------------------
(* What failed is settled *)

Mild == trouble \notin {"table", "early", "crash"}

\* The charge came back, or an administrator can return it.
Closed(q) ==
  IF q.paid = 0 THEN Claimable(q.row) ELSE q.row.status = "refunded" /\ q.row.refunded

\* A page is closed while the model works or later, a row of an answer with
\* holes is open before its claim is released, and the end settles the rest.
Ordered(q) ==
  /\ q.pc \in {"idle", "get", "charge"} => ~q.charged
  /\ ~q.open => q.pc \in {"upstream", "release", "settle", "record", "over"}
  /\ q.pc = "release" /\ q.why = "incomplete" => Closed(q)
  /\ q.pc = "over" /\ q.charged /\ q.answer # "result" => Closed(q)

LEMMA HandleOrders ==
  ASSUME Inv, Mild, NEW r \in Requests, Handle(r), Ordered(req[r])
  PROVE  Ordered(req'[r])
<1>0. req \in [Requests -> CallStates] /\ req[r] \in CallStates /\ Money(req[r])
  BY DEF Inv
<1>t. ~Strikes("table") /\ \A x \in {"table"} : ~(Dies(r, x) /\ req[r].open)
  BY DEF Mild, Strikes, Dies
<1>g. \A p : Goes(r, p) => req'[r] = [req[r] EXCEPT !.pc = p]
  BY <1>0 DEF Goes
<1>a. \A x : Answered(r, x) => req'[r] = [req[r] EXCEPT !.pc = "over", !.answer = x]
  BY <1>0 DEF Answered, CallStates
<1>w. \A x, y, p : Written(r, x, y, p) \/ Goes(r, p) =>
        req'[r].pc = p /\ req'[r].open = req[r].open
  BY <1>0 DEF Written, Goes, CallStates
<1>1. CASE Begin(r)
  <2>1. /\ req[r].pc = "idle" /\ req[r].open
        /\ req'[r] = [req[r] EXCEPT !.pc = "charge"] \/ req'[r] = [req[r] EXCEPT !.pc = "get"]
    BY <1>1, <1>g DEF Begin, Lives
  <2> QED
    BY <1>0, <2>1 DEF Ordered, CallStates
<1>2. CASE BeginReads(r)
  <2>1. req[r].pc = "get" /\ req[r].open /\ ~req[r].charged
    BY <1>2 DEF BeginReads, Lives, Ordered
  <2>2. CASE Goes(r, "charge")
    <3>1. /\ req'[r].pc = "charge" /\ req'[r].open = req[r].open
          /\ req'[r].charged = req[r].charged
      BY <1>0, <2>2 DEF Goes, CallStates
    <3> QED
      BY <2>1, <3>1 DEF Ordered
  <2>3. CASE \E x \in {"replay", "busy"} : Answered(r, x)
    <3>1. PICK x \in {"replay", "busy"} : Answered(r, x)
      BY <2>3
    <3>2. /\ req'[r].pc = "over" /\ req'[r].open = req[r].open
          /\ req'[r].charged = req[r].charged
      BY <1>0, <1>a, <3>1 DEF CallStates
    <3> QED
      BY <2>1, <3>2 DEF Ordered
  <2> QED
    BY <1>2, <2>2, <2>3 DEF BeginReads
<1>3. CASE BeginFails(r)
  <2>1. /\ req[r].pc \in {"idle", "get"}
        /\ req'[r] = [req[r] EXCEPT !.pc = "charge"]
    BY <1>3, <1>g DEF BeginFails
  <2>2. req[r].open
    BY <2>1 DEF Ordered
  <2> QED
    BY <1>0, <2>1, <2>2 DEF Ordered, CallStates
<1>4. CASE Charge(r)
  <2>1. /\ req[r].pc = "charge" /\ req[r].open
        /\ req'[r] = [req[r] EXCEPT !.pc = "submit", !.charged = TRUE]
    BY <1>4, <1>0 DEF Charge, Lives, CallStates
  <2> QED
    BY <1>0, <2>1 DEF Ordered, CallStates
<1>5. CASE ChargeRefused(r)
  <2>1. /\ req[r].pc = "charge"
        /\ req'[r] = [req[r] EXCEPT !.pc = "over", !.answer = "error"]
    BY <1>5, <1>a DEF ChargeRefused
  <2> QED
    BY <1>0, <2>1 DEF Ordered, CallStates
<1>6. CASE Submitted(r) \/ SubmittedLost(r)
  <2>1. req[r].pc = "submit"
    BY <1>6 DEF Submitted, SubmittedLost
  <2>2. req[r].open
    BY <2>1 DEF Ordered
  <2> DEFINE p == IF kind = "prompt" THEN "upstream" ELSE "picture"
  <2>3. Written(r, "submitted", FALSE, p) \/ Goes(r, p)
    BY <1>6 DEF Submitted, SubmittedLost
  <2>4. p \in {"upstream", "picture"}
    OBVIOUS
  <2> HIDE DEF p
  <2>5. req'[r].pc = p /\ req'[r].open = req[r].open
    BY <1>w, <2>3
  <2> QED
    BY <2>2, <2>4, <2>5 DEF Ordered
<1>7. CASE PictureRead(r)
  <2>1. req[r].pc = "picture" /\ req'[r] = [req[r] EXCEPT !.pc = "upstream"]
    BY <1>7, <1>g DEF PictureRead
  <2> QED
    BY <1>0, <2>1 DEF Ordered, CallStates
<1>8. CASE PictureFails(r)
  <2>1. req[r].pc = "picture" /\ req[r].open /\ During(req[r])
    BY <1>0, <1>8 DEF PictureFails, Ordered, Money
  <2>2. PICK x \in BOOLEAN : PictureWritten(r, x, TRUE)
    BY <1>0, <1>8, <1>t, <2>1 DEF PictureFails, CallStates
  <2> DEFINE row == Upserted(req[r].row,
                             NewRow(IF x THEN "refunded" ELSE "pending_review", x))
             paid == IF x THEN req[r].paid + 1 ELSE req[r].paid
             q == [req[r] EXCEPT !.pc = "over", !.answer = "error", !.paid = paid, !.row = row]
  <2>3. /\ row.status = IF x THEN "refunded" ELSE "pending_review"
        /\ row.refunded = x
    BY <1>0, <2>1, UpsertedUnsettled DEF During, CallStates
  <2>4. req'[r] = q
    BY <1>0, <2>2 DEF PictureWritten, CallStates
  <2>5. paid = IF x THEN 1 ELSE 0
    BY <2>1 DEF During
  <2> HIDE DEF row, paid
  <2>6. q.pc = "over" /\ q.paid = paid /\ q.row = row /\ q.open = req[r].open
    BY <1>0 DEF CallStates
  <2> HIDE DEF q
  <2>7. Closed(q)
    BY <2>3, <2>5, <2>6 DEF Closed, Claimable
  <2> QED
    BY <2>4, <2>6, <2>7 DEF Ordered
<1>9. CASE Upstream(r)
  <2>1. req[r].pc = "upstream"
    BY <1>9 DEF Upstream
  <2>2. CASE req[r].open /\ (Goes(r, "deliver") \/ Goes(r, "review"))
    <3>1. \/ req'[r] = [req[r] EXCEPT !.pc = "deliver"]
          \/ req'[r] = [req[r] EXCEPT !.pc = "review"]
      BY <2>2, <1>g
    <3> QED
      BY <1>0, <2>2, <3>1 DEF Ordered, CallStates
  <2>3. CASE \E why \in {"rejected", "unknown"} :
               req' = [req EXCEPT ![r].pc = "release", ![r].why = why]
    <3>1. PICK why \in {"rejected", "unknown"} :
               req' = [req EXCEPT ![r].pc = "release", ![r].why = why]
      BY <2>3
    <3>2. req'[r].pc = "release" /\ req'[r].why # "incomplete"
      BY <1>0, <3>1 DEF CallStates
    <3> QED
      BY <3>2 DEF Ordered
  <2> QED
    BY <1>9, <2>2, <2>3 DEF Upstream
<1>10. CASE Release(r) \/ ReleaseFails(r)
  <2>1. req[r].pc = "release" /\ AfterRelease(r)
    BY <1>10 DEF Release, ReleaseFails
  <2>2. CASE req[r].why = "incomplete"
    <3>1. req'[r] = [req[r] EXCEPT !.pc = "over", !.answer = "error"]
      BY <2>1, <2>2, <1>a DEF AfterRelease
    <3>2. Closed(req[r])
      BY <2>1, <2>2 DEF Ordered
    <3>3. req'[r].pc = "over" /\ req'[r].paid = req[r].paid /\ req'[r].row = req[r].row
      BY <1>0, <3>1 DEF CallStates
    <3> QED
      BY <3>2, <3>3 DEF Ordered, Closed
  <2>3. CASE req[r].why # "incomplete"
    <3>1. req'[r] = [req[r] EXCEPT !.pc = "settle"]
      BY <2>1, <2>3, <1>g DEF AfterRelease
    <3> QED
      BY <1>0, <3>1 DEF Ordered, CallStates
  <2> QED
    BY <2>2, <2>3
<1>11. CASE Settle(r)
  <2>1. \/ Goes(r, "record")
        \/ req' = [req EXCEPT ![r].pc = "record", ![r].paid = @ + 1, ![r].refund = TRUE]
    BY <1>11 DEF Settle
  <2>2. req'[r].pc = "record"
    BY <1>0, <2>1, <1>g DEF CallStates
  <2> QED
    BY <2>2 DEF Ordered
<1>12. CASE Recorded(r)
  <2>1. /\ req[r].pc = "record"
        /\ req' = [req EXCEPT ![r].pc = "over", ![r].answer = "error",
             ![r].row = Upserted(@, IF req[r].refund THEN NewRow("refunded", TRUE)
                                    ELSE NewRow("pending_review", FALSE))]
    BY <1>12, <1>t DEF Recorded
  <2>2. Unsettled(req[r].row) /\ req[r].paid = IF req[r].refund THEN 1 ELSE 0
    BY <1>0, <2>1 DEF Money
  <2> DEFINE row == Upserted(req[r].row, IF req[r].refund THEN NewRow("refunded", TRUE)
                                         ELSE NewRow("pending_review", FALSE))
  <2>3. /\ row.status = IF req[r].refund THEN "refunded" ELSE "pending_review"
        /\ row.refunded = req[r].refund
    <3>1. req[r].row \in Row({}) /\ req[r].refund \in BOOLEAN
      BY <1>0 DEF CallStates
    <3>2. CASE req[r].refund
      <4>1. row = Upserted(req[r].row, NewRow("refunded", TRUE))
        BY <3>2
      <4> QED BY <2>2, <3>1, <3>2, <4>1, UpsertedUnsettled
    <3>3. CASE ~req[r].refund
      <4>1. row = Upserted(req[r].row, NewRow("pending_review", FALSE))
        BY <3>3
      <4>2. row.status = "pending_review" /\ row.refunded = FALSE
        BY <2>2, <3>1, <4>1, UpsertedUnsettled
      <4> QED BY <3>1, <3>3, <4>2
    <3> QED BY <3>2, <3>3
  <2>4. req'[r].pc = "over" /\ req'[r].paid = req[r].paid /\ req'[r].row = row
    BY <1>0, <2>1 DEF CallStates
  <2> HIDE DEF row
  <2>5. Closed(req'[r])
    BY <2>2, <2>3, <2>4 DEF Closed, Claimable
  <2> QED
    BY <2>4, <2>5 DEF Ordered
<1>13. CASE Review(r)
  <2>1. req[r].pc = "review" /\ req[r].open /\ During(req[r])
    BY <1>0, <1>13 DEF Review, Ordered, Money
  <2>2. req' = [req EXCEPT ![r].pc = "release", ![r].why = "incomplete",
             ![r].row = Upserted(@, NewRow("pending_review", FALSE))]
    BY <1>13, <1>t, <2>1 DEF Review
  <2> DEFINE row == Upserted(req[r].row, NewRow("pending_review", FALSE))
  <2>3. row.status = "pending_review" /\ row.refunded = FALSE
    BY <1>0, <2>1, UpsertedUnsettled DEF During, CallStates
  <2>4. /\ req'[r].pc = "release" /\ req'[r].paid = req[r].paid /\ req'[r].row = row
        /\ req'[r].open = req[r].open
    BY <1>0, <2>2 DEF CallStates
  <2> HIDE DEF row
  <2>5. Closed(req'[r])
    BY <2>1, <2>3, <2>4 DEF Closed, Claimable, During
  <2> QED
    BY <2>4, <2>5 DEF Ordered
<1>14. CASE Deliver(r)
  <2>1. req[r].pc = "deliver"
    BY <1>14 DEF Deliver
  <2>2. req[r].open
    BY <2>1 DEF Ordered
  <2>3. Written(r, "delivered", FALSE, "finish") \/ Goes(r, "finish")
    BY <1>14 DEF Deliver
  <2>4. req'[r].pc = "finish" /\ req'[r].open = req[r].open
    BY <1>w, <2>3
  <2> QED
    BY <2>2, <2>4 DEF Ordered
<1>15. CASE Finish(r)
  <2>1. req'[r] = [req[r] EXCEPT !.pc = "over", !.answer = "result"]
    BY <1>15, <1>a DEF Finish
  <2> QED
    BY <1>0, <2>1 DEF Ordered, CallStates
<1> QED
  BY <1>1, <1>2, <1>3, <1>4, <1>5, <1>6, <1>7, <1>8, <1>9, <1>10, <1>11, <1>12, <1>13, <1>14,
     <1>15 DEF Handle

LEMMA OutsideOrders ==
  ASSUME Inv, Mild, NEW r \in Requests, Close(r) \/ Crash(r) \/ RefundManually(r),
         Ordered(req[r])
  PROVE  Ordered(req'[r])
<1>0. req \in [Requests -> CallStates] /\ req[r] \in CallStates /\ Money(req[r])
  BY DEF Inv
<1>1. CASE Close(r)
  <2>1. req[r].pc = "upstream"
    BY <1>1 DEF Close, Strikes, Mild
  <2>2. req'[r].pc = "upstream"
    BY <1>0, <1>1, <2>1 DEF Close, CallStates
  <2> QED
    BY <2>2 DEF Ordered
<1>2. CASE Crash(r)
  BY <1>2 DEF Crash, Strikes, Mild
<1>3. CASE RefundManually(r)
  <2>1. req[r].paid = 0 /\ Claimable(req[r].row)
    BY <1>0, <1>3 DEF RefundManually, Money
  <2> DEFINE row == MarkRefundedFromClaim(ClaimForRefund(req[r].row))
  <2>2. req' = [req EXCEPT ![r].paid = @ + 1, ![r].row = row]
    BY <1>3 DEF RefundManually
  <2>3. row.status = "refunded" /\ row.refunded
    BY <1>0 DEF CallStates, Row, MarkRefundedFromClaim, ClaimForRefund
  <2> HIDE DEF row
  <2>4. /\ req'[r].paid = 1 /\ req'[r].row = row /\ req'[r].pc = req[r].pc
        /\ req'[r].open = req[r].open /\ req'[r].charged = req[r].charged
    BY <1>0, <2>1, <2>2 DEF CallStates
  <2>5. Closed(req'[r])
    BY <2>3, <2>4 DEF Closed
  <2> QED
    BY <2>4, <2>5 DEF Ordered
<1> QED
  BY <1>1, <1>2, <1>3

AllOrdered == Mild => \A r \in Requests : Ordered(req[r])

LEMMA OrderStep ==
  ASSUME Inv, AllOrdered, [Next]_directVars
  PROVE  AllOrdered'
<1>1. CASE UNCHANGED directVars
  BY <1>1 DEF directVars, AllOrdered, Mild, Ordered, Closed
<1>2. CASE Expire /\ UNCHANGED <<kind, trouble>>
  BY <1>2 DEF Expire, AllOrdered, Mild, Ordered, Closed
<1>3. ASSUME NEW r \in Requests, Handle(r) \/ Close(r) \/ Crash(r) \/ RefundManually(r),
             UNCHANGED <<kind, trouble>>
      PROVE  AllOrdered'
  <2>1. Others(r)
    BY <1>3, HandleClaims, OutsideClaims
  <2>2. SUFFICES ASSUME Mild, Mild', NEW s \in Requests
                 PROVE  Ordered(req'[s])
    BY <1>3 DEF AllOrdered, Mild, Ordered, Closed
  <2>3. CASE s = r
    BY <1>3, <2>2, <2>3, HandleOrders, OutsideOrders DEF AllOrdered
  <2>4. CASE s # r
    BY <2>1, <2>2, <2>4 DEF Others, AllOrdered
  <2> QED
    BY <2>3, <2>4
<1> QED
  BY <1>1, <1>2, <1>3 DEF Next

LEMMA OrderInit == Init => AllOrdered
BY DEF Init, AllOrdered, Ordered

(* Unless the table fails, the server stops or the page is closed too early,   *)
(* a charge that brought no result is returned or left to an administrator,    *)
(* whichever of them happens first (billing/sync_call.go:87, :118).            *)
THEOREM FailuresAreSettled == Spec => []FailedIsSettled
<1>1. AllOrdered => FailedIsSettled
  BY DEF AllOrdered, Mild, Ordered, Closed, FailedIsSettled
<1> QED
  BY <1>1, InitInv, StepKeepsInv, OrderInit, OrderStep, PTL DEF Spec

==============================================================================
