------------------------- MODULE SyncCharge_proofs -------------------------
(***************************************************************************)
(* The money of a node whose model answers at once, for any number of      *)
(* runs, retries, clicks and strikes of a trouble: no charge is returned   *)
(* twice, what was delivered stays paid, the user pays once for a click,   *)
(* nothing that was charged is forgotten, and every step is a step of      *)
(* ChargeLifecycle.  What a trouble breaks is said where it is excluded.   *)
(***************************************************************************)
EXTENDS SyncCharge, TLAPS, FiniteSetTheorems

-----------------------------------------------------------------------------
(* The inductive invariant *)

Early == {"idle", "read", "check", "charge"}
Working == {"call", "store", "settle", "pay", "recordRefund", "review", "deliver"}
Billed == Working \cup {"submit", "history"}

\* One run at a time; while one is alive no message waits.
Serial ==
  /\ msg = "direct" => trouble = "direct"
  /\ \A q \in Runs : Alive(q) =>
       /\ msg \in {"taken", "gone"} /\ (trouble # "direct" => msg = "taken")
       /\ \A r \in Runs : Alive(r) => r = q

\* A run that has not charged yet left no trace.
Fresh ==
  \A r \in Runs : act[r].pc \in Early =>
    /\ act[r] = [NoRun EXCEPT !.pc = act[r].pc]
    /\ charged[r] = 0 /\ rows[r] = NoRow

HoldsCharge(r) ==
  /\ act[r].key \in Runs /\ act[r].amount = charged[act[r].key]
  /\ act[act[r].key].pc \notin Early /\ (unit > 0 => act[r].amount > 0)
Holding ==
  \A r \in Runs :
    /\ act[r].pc \in Billed => HoldsCharge(r)
    /\ act[r].pc \in {"handed", "ended"} => act[r].key = None \/ HoldsCharge(r)
    /\ act[r].pc = "submit" =>
         \/ act[r].key = r /\ rows[r] = NoRow
         \/ Exists(rows[act[r].key]) /\ act[r].amount > 0
    /\ act[r].pc \in {"pay", "recordRefund"} => act[r].amount > 0
    /\ act[r].pc = "review" => act[r].final \/ act[r].amount = 0

\* The rows are those in the order, each once; prices are all 0 or none is.
Listed ==
  /\ \A i \in DOMAIN order : Exists(rows[order[i]])
  /\ \A i, j \in DOMAIN order : order[i] = order[j] => i = j
  /\ \A c \in Runs : Exists(rows[c]) => \E i \in DOMAIN order : order[i] = c
RowsAreTrue ==
  \A c \in Runs :
    /\ ~Exists(rows[c]) => rows[c] = NoRow
    /\ rows[c].status = "refunded" => rows[c].refunded
    /\ rows[c].status # "failed"
    /\ charged[c] > 0 => unit > 0
    /\ Exists(rows[c]) /\ unit > 0 => charged[c] > 0

Bills ==
  \A p \in Payers : Paid(p) =>
    /\ bill[p].amount = charged[bill[p].charge] /\ bill[p].amount > 0
    /\ p \in Runs => act[p].pc \in {"recordRefund", "ended", "over"}
    /\ p \in Clicks => click[p].pc \in {"confirming", "done"}

Occupied(a) == click[a].pc \in {"paying", "reverting", "confirming"}
ClicksHold ==
  \A a \in Clicks : Occupied(a) =>
    /\ click[a].row \in Runs /\ Exists(rows[click[a].row]) /\ rows[click[a].row].refunded
    /\ \A b \in Clicks : Occupied(b) /\ click[b].row = click[a].row => b = a
    /\ click[a].pc # "reverting" => charged[click[a].row] > 0
    /\ click[a].pc = "reverting" /\ trouble # "pay" => charged[click[a].row] = 0
    /\ click[a].pc = "confirming" => bill[a].charge = click[a].row

Base ==
  /\ Serial /\ Fresh /\ Holding /\ Listed /\ RowsAreTrue /\ Bills /\ ClicksHold

\* While every write lands and a refund is always followed by its row.
Recorded == trouble \notin {"unsettled", "record"}
RowsTellRefunds ==
  Recorded =>
    /\ \A c \in Runs : PaidBack(c) =>
         rows[c].refunded \/ \E r \in Runs : At(r, "recordRefund") /\ act[r].key = c
    /\ \A a \in Clicks : click[a].pc \in {"paying", "reverting"} => ~PaidBack(click[a].row)
    /\ \A a \in Clicks, r \in Runs :
         click[a].pc = "reverting" /\ act[r].pc \in Working \cup {"submit"} =>
           act[r].key # click[a].row
    /\ \A r \in Runs :
         /\ act[r].pc \in Working => ~Claimable(rows[act[r].key])
         /\ At(r, "pay") => ~rows[act[r].key].refunded

\* No run follows, and the one that is left has nothing to do with the money.
Finishing ==
  /\ msg \in {"taken", "gone"}
  /\ \A r \in Runs : Alive(r) =>
       act[r].pc \in {"history", "handed"} \/ (At(r, "ended") /\ act[r].final)

\* While a run is not repeated after its settlement.
NotRepeated == trouble \notin {"unacked", "record"}
Fixed(row) == row = Row1("submitted", FALSE)
AllFixed == \A c \in Runs : Exists(rows[c]) /\ charged[c] > 0 => Fixed(rows[c])
RunFollowed(r) ==
  /\ At(r, "submit") => (act[r].key = r /\ rows[r] = NoRow) \/ Fixed(rows[act[r].key])
  /\ act[r].pc \in Working => Fixed(rows[act[r].key])
  /\ At(r, "recordRefund") => PaidBack(act[r].key)
  /\ At(r, "history") \/ (At(r, "handed") /\ act[r].key # None) =>
       rows[act[r].key] = Row1("delivered", FALSE)
RowsFollowRuns ==
  NotRepeated =>
    /\ \A a \in Clicks : Occupied(a) => rows[click[a].row].status = "pending_review"
    /\ AllFixed \/ Finishing
    /\ \A r \in Runs : RunFollowed(r)

GivenStays ==
  NotRepeated =>
    /\ \A c \in given : rows[c] = Row1("delivered", FALSE)
    /\ given # {} =>
         /\ msg \in {"taken", "gone"}
         /\ \A r \in Runs : Alive(r) => At(r, "handed")

\* While every charge has its row.
EveryChargeHasRow == trouble \notin {"unrecorded", "record"}
ChargesKnown ==
  EveryChargeHasRow =>
    \A c \in Runs : charged[c] > 0 => Exists(rows[c]) \/ (At(c, "submit") /\ act[c].key = c)

Standing(c) == charged[c] > 0 /\ (trouble = "unacked" => ~rows[c].refunded)
OneStands ==
  EveryChargeHasRow =>
    /\ \A c, d \in Runs : Standing(c) /\ Standing(d) => c = d
    /\ (\E r \in Runs : At(r, "charge")) => \A c \in Runs : ~Standing(c)
RefundsArrive ==
  trouble = "unacked" =>
    /\ \A c \in Runs : charged[c] > 0 /\ rows[c].refunded => GoesBack(c)
    /\ \A r \in Runs : At(r, "recordRefund") => GoesBack(act[r].key)

Undisturbed == trouble \in {"none", "unsettled", "pay"}
HeldByRun(c) == \E r \in Runs : act[r].pc \in Billed \cup {"handed"} /\ act[r].key = c
WaitsForRun(c) ==
  /\ Fixed(rows[c])
  /\ msg = "queued" \/ \E r \in Runs : act[r].pc \in {"read", "check"}
HeldByClick(c) ==
  \E a \in Clicks : click[a].pc \in {"paying", "reverting"} /\ click[a].row = c
Pending(c) == HeldByRun(c) \/ WaitsForRun(c) \/ HeldByClick(c)
NothingForgotten ==
  Undisturbed =>
    /\ \A c \in Runs : charged[c] > 0 => input.verdict = "ready" /\ (Settled(c) \/ Pending(c))
    /\ exec = "done" => msg = "gone"
    /\ (\E r \in Runs : act[r].pc \in {"check", "charge"}) => input.verdict = "ready"

IInv ==
  /\ TypeOK /\ Base /\ ReturnedOnce /\ RowsTellRefunds /\ RowsFollowRuns /\ GivenStays
  /\ ChargesKnown /\ OneStands /\ RefundsArrive /\ NothingForgotten

-----------------------------------------------------------------------------
(* The helpers keep the types *)

LEMMA ActType ==
  ASSUME act \in [Runs -> RunStates], NEW r \in Runs, NEW s \in RunStates,
         act' = [act EXCEPT ![r] = s]
  PROVE  /\ act' \in [Runs -> RunStates] /\ act'[r] = s
         /\ \A q \in Runs \ {r} : act'[q] = act[q]
OBVIOUS

LEMMA GotoType ==
  ASSUME act \in [Runs -> RunStates], NEW r \in Runs, NEW l \in RunLabels,
         Goto(r, l)
  PROVE  /\ act' \in [Runs -> RunStates]
         /\ \A q \in Runs \ {r} : act'[q] = act[q]
         /\ act'[r].pc = l /\ act'[r].key = act[r].key /\ act'[r].amount = act[r].amount
         /\ act'[r].rejected = act[r].rejected /\ act'[r].final = act[r].final
<1> DEFINE s == [act[r] EXCEPT !.pc = l]
<1>1. l \in RunLabels
  OBVIOUS
<1>2. s \in RunStates
  BY <1>1 DEF RunStates, MaybeRun, NoRun
<1>3. act'[r] = s /\ act' \in [Runs -> RunStates] /\ \A q \in Runs \ {r} : act'[q] = act[q]
  BY <1>2, ActType DEF Goto
<1> QED
  BY <1>3 DEF RunStates, NoRun

LEMMA FinalType ==
  ASSUME act \in [Runs -> RunStates], NEW r \in Runs,
         act' = [act EXCEPT ![r] = [@ EXCEPT !.pc = "review", !.final = TRUE]]
  PROVE  /\ act' \in [Runs -> RunStates]
         /\ \A q \in Runs \ {r} : act'[q] = act[q]
         /\ act'[r].pc = "review" /\ act'[r].key = act[r].key /\ act'[r].amount = act[r].amount
         /\ act'[r].rejected = act[r].rejected /\ act'[r].final = TRUE
<1> DEFINE s == [act[r] EXCEPT !.pc = "review", !.final = TRUE]
<1>1. "review" \in RunLabels
  BY DEF RunLabels
<1>2. s \in RunStates
  BY <1>1 DEF RunStates, MaybeRun, NoRun
<1>3. act'[r] = s /\ act' \in [Runs -> RunStates] /\ \A q \in Runs \ {r} : act'[q] = act[q]
  BY <1>2, ActType
<1> QED
  BY <1>3 DEF RunStates, NoRun

LEMMA EndFinalType ==
  ASSUME act \in [Runs -> RunStates], NEW r \in Runs,
         act' = [act EXCEPT ![r] = [@ EXCEPT !.pc = "ended", !.final = TRUE]]
  PROVE  /\ act' \in [Runs -> RunStates]
         /\ \A q \in Runs \ {r} : act'[q] = act[q]
         /\ act'[r].pc = "ended" /\ act'[r].key = act[r].key /\ act'[r].amount = act[r].amount
         /\ act'[r].rejected = act[r].rejected /\ act'[r].final = TRUE
<1> DEFINE s == [act[r] EXCEPT !.pc = "ended", !.final = TRUE]
<1>1. "ended" \in RunLabels
  BY DEF RunLabels
<1>2. s \in RunStates
  BY <1>1 DEF RunStates, MaybeRun, NoRun
<1>3. act'[r] = s /\ act' \in [Runs -> RunStates] /\ \A q \in Runs \ {r} : act'[q] = act[q]
  BY <1>2, ActType
<1> QED
  BY <1>3 DEF RunStates, NoRun

LEMMA RejectedType ==
  ASSUME act \in [Runs -> RunStates], NEW r \in Runs, NEW b \in BOOLEAN,
         act' = [act EXCEPT ![r] = [@ EXCEPT !.pc = "settle", !.rejected = b]]
  PROVE  /\ act' \in [Runs -> RunStates]
         /\ \A q \in Runs \ {r} : act'[q] = act[q]
         /\ act'[r].pc = "settle" /\ act'[r].key = act[r].key /\ act'[r].amount = act[r].amount
         /\ act'[r].rejected = b /\ act'[r].final = act[r].final
<1> DEFINE s == [act[r] EXCEPT !.pc = "settle", !.rejected = b]
<1>1. "settle" \in RunLabels
  BY DEF RunLabels
<1>2. s \in RunStates
  BY <1>1 DEF RunStates, MaybeRun, NoRun
<1>3. act'[r] = s /\ act' \in [Runs -> RunStates] /\ \A q \in Runs \ {r} : act'[q] = act[q]
  BY <1>2, ActType
<1> QED
  BY <1>3 DEF RunStates, NoRun

LEMMA GotType ==
  ASSUME act \in [Runs -> RunStates], NEW r \in Runs, NEW n \in 0..MaxAsked,
         act' = [act EXCEPT ![r] = [@ EXCEPT !.pc = "store", !.got = n]]
  PROVE  /\ act' \in [Runs -> RunStates]
         /\ \A q \in Runs \ {r} : act'[q] = act[q]
         /\ act'[r].pc = "store" /\ act'[r].key = act[r].key /\ act'[r].amount = act[r].amount
         /\ act'[r].rejected = act[r].rejected /\ act'[r].final = act[r].final
<1> DEFINE s == [act[r] EXCEPT !.pc = "store", !.got = n]
<1>1. "store" \in RunLabels
  BY DEF RunLabels
<1>2. s \in RunStates
  BY <1>1 DEF RunStates, MaybeRun, NoRun
<1>3. act'[r] = s /\ act' \in [Runs -> RunStates] /\ \A q \in Runs \ {r} : act'[q] = act[q]
  BY <1>2, ActType
<1> QED
  BY <1>3 DEF RunStates, NoRun

LEMMA ChargeType ==
  ASSUME act \in [Runs -> RunStates], NEW r \in Runs, NEW c \in Runs, NEW n \in Nat,
         act' = [act EXCEPT ![r] = [@ EXCEPT !.pc = "submit", !.key = c, !.amount = n]]
  PROVE  /\ act' \in [Runs -> RunStates]
         /\ \A q \in Runs \ {r} : act'[q] = act[q]
         /\ act'[r].pc = "submit" /\ act'[r].key = c /\ act'[r].amount = n
         /\ act'[r].rejected = act[r].rejected /\ act'[r].final = act[r].final
<1> DEFINE s == [act[r] EXCEPT !.pc = "submit", !.key = c, !.amount = n]
<1>1. "submit" \in RunLabels
  BY DEF RunLabels
<1>2. s \in RunStates
  BY <1>1 DEF RunStates, MaybeRun, NoRun
<1>3. act'[r] = s /\ act' \in [Runs -> RunStates] /\ \A q \in Runs \ {r} : act'[q] = act[q]
  BY <1>2, ActType
<1> QED
  BY <1>3 DEF RunStates, NoRun

LEMMA LeaveType ==
  ASSUME act \in [Runs -> RunStates], NEW r \in Runs,
         Leave(r)
  PROVE  /\ act' \in [Runs -> RunStates]
         /\ \A q \in Runs \ {r} : act'[q] = act[q]
         /\ act'[r].pc = "over" /\ act'[r].key = None /\ act'[r].amount = 0
         /\ act'[r].rejected = FALSE /\ act'[r].final = FALSE
<1> DEFINE s == [NoRun EXCEPT !.pc = "over"]
<1>1. 0 \in 0..MaxAsked /\ "over" \in RunLabels
  BY SyncChargeAssumption DEF RunLabels
<1>2. s \in RunStates
  BY <1>1 DEF RunStates, MaybeRun, NoRun
<1>3. act'[r] = s /\ act' \in [Runs -> RunStates] /\ \A q \in Runs \ {r} : act'[q] = act[q]
  BY <1>2, ActType DEF Leave
<1> QED
  BY <1>3 DEF RunStates, NoRun

LEMMA ProductNat ==
  ASSUME NEW a \in Nat, NEW b \in Nat
  PROVE  a * b \in Nat /\ (a > 0 /\ b > 0 => a * b > 0) /\ (a = 0 => a * b = 0)
OBVIOUS

LEMMA CostNat ==
  ASSUME unit \in Units, input \in InputStates
  PROVE  Cost \in Nat /\ (unit > 0 <=> Cost > 0) /\ unit \in Nat
<1>1. unit \in Nat /\ input.asked \in Nat /\ input.asked > 0
  BY SyncChargeAssumption DEF InputStates
<1> QED
  BY <1>1, ProductNat DEF Cost

LEMMA ReadType ==
  ASSUME NEW k \in Kinds, NEW x \in Inputs(k)
  PROVE  x \in InputStates
<1>1. PICK n \in NodesOf(k) : x = Read(k, n)
  BY DEF Inputs
<1>2. k = "image" => Asked(n) \in 1..MaxAsked
  BY <1>1, SyncChargeAssumption DEF NodesOf, ImageNodes, Asked, Kinds
<1>3. 1 \in 1..MaxAsked
  BY SyncChargeAssumption
<1>4. x.asked \in 1..MaxAsked
  BY <1>1, <1>2, <1>3 DEF Read
<1>5. x.verdict \in {"ready", "passes", "bad"}
  BY <1>1 DEF Read, Kinds, TextVerdict, ScriptVerdict, AudioVerdict, ImageVerdict
<1>6. x.edits \in BOOLEAN /\ x.blank \in BOOLEAN
  BY <1>1 DEF Read
<1>7. x = [verdict |-> x.verdict, asked |-> x.asked, edits |-> x.edits, blank |-> x.blank]
  BY <1>1 DEF Read
<1> QED
  BY <1>4, <1>5, <1>6, <1>7 DEF InputStates

LEMMA UpsertType ==
  ASSUME NEW row \in Row({}), NEW s \in Statuses, NEW b \in BOOLEAN
  PROVE  /\ Upserted(row, Row1(s, b)) \in Row({})
         /\ Row1(s, b) \in Row({})
BY DEF Upserted, Row1, Row, Merged, Statuses

\* What a write leaves: the row as the table's guard decides, or the old one.
LEMMA WriteEffect ==
  ASSUME TypeOK, NEW c \in Runs, NEW s \in Statuses, NEW b \in BOOLEAN, Write(c, s, b)
  PROVE  /\ rows' \in [Runs -> Row({})] /\ order' \in Seq(Runs)
         /\ faults' \in 0..MaxFaults
         /\ \A d \in Runs \ {c} : rows'[d] = rows[d]
         /\ \/ rows'[c] = Upserted(rows[c], Row1(s, b))
            \/ trouble = "record" /\ rows' = rows
         /\ \/ order' = order /\ (rows' = rows \/ Exists(rows[c]))
            \/ order' = Append(order, c) /\ ~Exists(rows[c]) /\ rows' # rows
<1>1. Upserted(rows[c], Row1(s, b)) \in Row({})
  BY UpsertType DEF TypeOK
<1>2. ~Exists(rows[c]) => Upserted(rows[c], Row1(s, b)).status # rows[c].status
  BY DEF Upserted, Row1, Exists, Statuses
<1>t. /\ rows \in [Runs -> Row({})] /\ order \in Seq(Runs) /\ faults \in 0..MaxFaults
       /\ MaxFaults \in Nat
  BY SyncChargeAssumption DEF TypeOK
<1>3. CASE Strikes("record") /\ UNCHANGED table
  BY <1>3, <1>t DEF Strikes, table
<1>4. CASE /\ rows' = [rows EXCEPT ![c] = Upserted(@, Row1(s, b))]
           /\ order' = IF Exists(rows[c]) THEN order ELSE Append(order, c)
           /\ UNCHANGED faults
  <2>1. rows'[c] = Upserted(rows[c], Row1(s, b)) /\ \A d \in Runs \ {c} : rows'[d] = rows[d]
    BY <1>4, <1>t
  <2>2. rows' \in [Runs -> Row({})] /\ order' \in Seq(Runs) /\ faults' \in 0..MaxFaults
    BY <1>1, <1>4, <1>t
  <2>3. ~Exists(rows[c]) => rows' # rows
    BY <1>2, <2>1
  <2> QED
    BY <1>4, <2>1, <2>2, <2>3
<1> QED
  BY <1>3, <1>4 DEF Write

LEMMA RowFields ==
  ASSUME NEW row \in Row({})
  PROVE  /\ row = [status |-> row.status, refunded |-> row.refunded, task |-> None]
         /\ row.refunded \in BOOLEAN
<1>1. row = [status |-> row.status, refunded |-> row.refunded, task |-> row.task]
  BY DEF Row
<1>2. row.task = None /\ row.refunded \in BOOLEAN
  BY DEF Row
<1> QED
  BY <1>1, <1>2

\* The row a click leaves.
LEMMA ClickRow ==
  ASSUME NEW row \in Row({})
  PROVE  /\ ClaimForRefund(row) = [status |-> row.status, refunded |-> TRUE, task |-> None]
         /\ RevertRefund(row) = Row1("pending_review", FALSE)
         /\ MarkRefundedFromClaim(row) = Row1("refunded", TRUE)
<1> DEFINE x == ClaimForRefund(row)
           y == RevertRefund(row)
           z == MarkRefundedFromClaim(row)
<1>1. x \in Row({}) /\ x.status = row.status /\ x.refunded = TRUE
  BY DEF Row, ClaimForRefund
<1>2. y \in Row({}) /\ y.status = "pending_review" /\ y.refunded = FALSE
  BY DEF Row, RevertRefund, Statuses
<1>3. z \in Row({}) /\ z.status = "refunded" /\ z.refunded = TRUE
  BY DEF Row, MarkRefundedFromClaim, Statuses
<1> HIDE DEF x, y, z
<1>4. x = [status |-> row.status, refunded |-> TRUE, task |-> None]
  BY <1>1, RowFields
<1>5. y = Row1("pending_review", FALSE)
  BY <1>2, RowFields DEF Row1
<1>6. z = Row1("refunded", TRUE)
  BY <1>3, RowFields DEF Row1
<1> QED
  BY <1>4, <1>5, <1>6 DEF x, y, z

LEMMA ClickRows ==
  ASSUME TypeOK
  PROVE  \A c \in Runs :
         /\ ClaimForRefund(rows[c]) =
              [status |-> rows[c].status, refunded |-> TRUE, task |-> None]
         /\ RevertRefund(rows[c]) = Row1("pending_review", FALSE)
         /\ MarkRefundedFromClaim(rows[c]) = Row1("refunded", TRUE)
         /\ rows[c] = [status |-> rows[c].status, refunded |-> rows[c].refunded, task |-> None]
         /\ rows[c].refunded \in BOOLEAN
         /\ Exists(RevertRefund(rows[c])) /\ Exists(MarkRefundedFromClaim(rows[c]))
<1> TAKE c \in Runs
<1>1. rows[c] \in Row({})
  BY DEF TypeOK
<1>2. Exists(Row1("pending_review", FALSE)) /\ Exists(Row1("refunded", TRUE))
  BY DEF Exists, Row1
<1> QED
  BY <1>1, <1>2, ClickRow, RowFields

-----------------------------------------------------------------------------
(* The types *)

LEMMA RunKey ==
  ASSUME Holding, NEW r \in Runs, act[r].pc \in Billed
  PROVE  act[r].key \in Runs /\ act[r].amount = charged[act[r].key]
BY DEF Holding, HoldsCharge

LEMMA TypeStep ==
  ASSUME TypeOK, Holding, ClicksHold, [Next]_vars
  PROVE  TypeOK'
<1>1. CASE \E r \in Runs : Start(r) \/ RunStep(r) \/ Crash(r)
  <2> PICK r \in Runs : Start(r) \/ RunStep(r) \/ Crash(r)
    BY <1>1
  <2>1. CASE Start(r)
    BY <2>1, GotoType DEF TypeOK, Start, RunLabels, node, money, table
  <2>2. CASE ReadNode(r)
    <3>1. /\ act' \in [Runs -> RunStates] /\ faults' \in 0..MaxFaults
      <4>1. CASE input.verdict = "ready" /\ (Goto(r, "check") \/ Goto(r, "ended"))
        <5>1. act' \in [Runs -> RunStates]
          BY <4>1, GotoType DEF TypeOK, RunLabels
        <5> QED
          BY <5>1, <2>2, SyncChargeAssumption DEF TypeOK, ReadNode, Strikes
      <4>2. CASE input.verdict = "bad" /\ Goto(r, "ended") /\ UNCHANGED faults
        BY <4>2, GotoType DEF TypeOK, RunLabels
      <4>3. CASE input.verdict = "passes" /\ Goto(r, "handed") /\ UNCHANGED faults
        BY <4>3, GotoType DEF TypeOK, RunLabels
      <4> QED
        BY <4>1, <4>2, <4>3, <2>2 DEF ReadNode, TypeOK, InputStates
    <3> QED
      BY <3>1, <2>2 DEF TypeOK, ReadNode, node, money, table, sched
  <2>3. CASE Check(r)
    <3>1. act' \in [Runs -> RunStates]
      <4>1. CASE Goto(r, "charge")
        BY <4>1, GotoType DEF TypeOK, RunLabels
      <4>2. ASSUME NEW c \in Runs,
                   act' = [act EXCEPT ![r] = [@ EXCEPT !.pc = "submit", !.key = c,
                                                       !.amount = charged[c]]]
            PROVE  act' \in [Runs -> RunStates]
        BY <4>2, ChargeType DEF TypeOK
      <4> QED
        BY <4>1, <4>2, <2>3 DEF Check
    <3> QED
      BY <3>1, <2>3 DEF TypeOK, Check, node, money, table, sched
  <2>4. CASE Charge(r)
    <3>1. Cost \in Nat
      BY CostNat DEF TypeOK
    <3>2. CASE Cost > credits /\ Goto(r, "ended") /\ UNCHANGED <<credits, charged>>
      BY <3>2, GotoType, <2>4 DEF TypeOK, Charge, RunLabels, node, table, sched
    <3>3. CASE /\ Cost <= credits /\ credits' = credits - Cost
               /\ charged' = [charged EXCEPT ![r] = Cost]
               /\ act' = [act EXCEPT ![r] = [@ EXCEPT !.pc = "submit", !.key = r, !.amount = Cost]]
      <4>1. act' \in [Runs -> RunStates]
        BY <3>1, <3>3, ChargeType DEF TypeOK
      <4>2. credits' \in Nat /\ charged' \in [Runs -> Nat]
        BY <3>1, <3>3 DEF TypeOK
      <4> QED
        BY <4>1, <4>2, <2>4 DEF TypeOK, Charge, node, table, sched
    <3> QED
      BY <3>2, <3>3, <2>4 DEF Charge
  <2>5. CASE Submit(r)
    <3>1. /\ rows' \in [Runs -> Row({})] /\ order' \in Seq(Runs) /\ faults' \in 0..MaxFaults
      BY WriteEffect, RunKey, <2>5 DEF Submit, Statuses, Billed, Working, At
    <3>2. act' \in [Runs -> RunStates]
      BY <2>5, GotoType DEF TypeOK, Submit, RunLabels
    <3> QED
      BY <3>1, <3>2, <2>5 DEF TypeOK, Submit, node, money, sched
  <2>6. CASE Call(r)
    <3>1. act' \in [Runs -> RunStates]
      <4>1. CASE Goto(r, "deliver") \/ Goto(r, "store")
        BY <4>1, GotoType DEF TypeOK, RunLabels
      <4>2. ASSUME NEW b \in BOOLEAN,
                   act' = [act EXCEPT ![r] = [@ EXCEPT !.pc = "settle", !.rejected = b]]
            PROVE  act' \in [Runs -> RunStates]
        BY <4>2, RejectedType DEF TypeOK
      <4>3. ASSUME NEW n \in 0..input.asked,
                   act' = [act EXCEPT ![r] = [@ EXCEPT !.pc = "store", !.got = n]]
            PROVE  act' \in [Runs -> RunStates]
        <5>1. n \in 0..MaxAsked
          BY SyncChargeAssumption DEF TypeOK, InputStates
        <5> QED
          BY <4>3, <5>1, GotType DEF TypeOK
      <4> QED
        BY <4>1, <4>2, <4>3, <2>6 DEF Call
    <3> QED
      BY <3>1, <2>6 DEF TypeOK, Call, node, money, table, sched
  <2>7. CASE Store(r)
    <3>1. act' \in [Runs -> RunStates]
      <4>1. CASE Goto(r, "deliver")
        BY <4>1, GotoType DEF TypeOK, RunLabels
      <4>2. CASE act' = [act EXCEPT ![r] = [@ EXCEPT !.pc = "review", !.final = TRUE]]
        BY <4>2, FinalType DEF TypeOK
      <4> QED
        BY <4>1, <4>2, <2>7 DEF Store
    <3> QED
      BY <3>1, <2>7 DEF TypeOK, Store, node, money, table, sched
  <2>8. CASE Settle(r)
    <3>1. act' \in [Runs -> RunStates]
      <4>1. CASE Goto(r, "review") \/ Goto(r, "recordRefund") \/ Goto(r, "pay")
        BY <4>1, GotoType DEF TypeOK, RunLabels
      <4>2. CASE act' = [act EXCEPT ![r] = [@ EXCEPT !.pc = "review", !.final = TRUE]]
        BY <4>2, FinalType DEF TypeOK
      <4> QED
        BY <4>1, <4>2, <2>8 DEF Settle
    <3> QED
      BY <3>1, <2>8 DEF TypeOK, Settle, node, money, table, sched
  <2>9. CASE Pay(r)
    <3>0. act[r].key \in Runs /\ act[r].amount \in Nat
      BY RunKey, <2>9 DEF Pay, At, Billed, Working, TypeOK, RunStates
    <3>1. act' \in [Runs -> RunStates]
      <4>1. CASE Goto(r, "recordRefund")
        BY <4>1, GotoType DEF TypeOK, RunLabels
      <4>2. CASE act' = [act EXCEPT ![r] = [@ EXCEPT !.pc = "review", !.final = TRUE]]
        BY <4>2, FinalType DEF TypeOK
      <4> QED
        BY <4>1, <4>2, <2>9 DEF Pay
    <3>2. credits' \in Nat /\ bill' \in [Payers -> [charge : MaybeRun, amount : Nat]]
      <4> DEFINE b == [charge |-> act[r].key, amount |-> act[r].amount]
      <4>1. b \in [charge : MaybeRun, amount : Nat]
        BY <3>0 DEF MaybeRun
      <4>2. \/ credits' = credits + act[r].amount /\ bill' = [bill EXCEPT ![r] = b]
            \/ UNCHANGED <<credits, bill>>
        BY <2>9 DEF Pay, Returned
      <4>3. r \in Payers
        BY DEF Payers
      <4> QED
        <5>1. credits \in Nat /\ bill \in [Payers -> [charge : MaybeRun, amount : Nat]]
          BY DEF TypeOK
        <5> HIDE DEF b
        <5>2. bill' \in [Payers -> [charge : MaybeRun, amount : Nat]]
          BY <4>1, <4>2, <4>3, <5>1
        <5>3. credits' \in Nat
          BY <3>0, <4>1, <4>2, <5>1
        <5> QED
          BY <5>2, <5>3
    <3>3. faults' \in 0..MaxFaults
      BY <2>9, SyncChargeAssumption DEF Pay, Strikes, TypeOK
    <3> QED
      BY <3>1, <3>2, <3>3, <2>9 DEF TypeOK, Pay, node, table, sched
  <2>10. CASE RecordRefund(r)
    <3>1. /\ rows' \in [Runs -> Row({})] /\ order' \in Seq(Runs) /\ faults' \in 0..MaxFaults
      BY WriteEffect, RunKey, <2>10 DEF RecordRefund, Statuses, Billed, Working, At
    <3>2. act' \in [Runs -> RunStates]
      BY <2>10, EndFinalType DEF TypeOK, RecordRefund
    <3> QED
      BY <3>1, <3>2, <2>10 DEF TypeOK, RecordRefund, node, money, sched
  <2>11. CASE Review(r)
    <3>1. /\ rows' \in [Runs -> Row({})] /\ order' \in Seq(Runs) /\ faults' \in 0..MaxFaults
      BY WriteEffect, RunKey, <2>11 DEF Review, Statuses, Billed, Working, At
    <3>2. act' \in [Runs -> RunStates]
      BY <2>11, GotoType DEF TypeOK, Review, RunLabels
    <3> QED
      BY <3>1, <3>2, <2>11 DEF TypeOK, Review, node, money, sched
  <2>12. CASE Deliver(r)
    <3>1. /\ rows' \in [Runs -> Row({})] /\ order' \in Seq(Runs) /\ faults' \in 0..MaxFaults
      BY WriteEffect, RunKey, <2>12 DEF Deliver, Statuses, Billed, Working, At
    <3>2. act' \in [Runs -> RunStates]
      BY <2>12, GotoType DEF TypeOK, Deliver, RunLabels
    <3> QED
      BY <3>1, <3>2, <2>12 DEF TypeOK, Deliver, node, money, sched
  <2>13. CASE RecordGeneration(r)
    BY <2>13, GotoType, RunKey DEF TypeOK, RecordGeneration, RunLabels, At, Billed, node,
       money, table, sched
  <2>14. CASE Hand(r)
    <3>1. input' \in InputStates
      BY <2>14 DEF Hand, TypeOK, InputStates
    <3>2. given' \subseteq Runs
      BY <2>14 DEF Hand, TypeOK, RunStates, MaybeRun
    <3> QED
      BY <3>1, <3>2, <2>14, LeaveType DEF TypeOK, Hand, money, table
  <2>15. CASE Fail(r)
    <3>1. act' \in [Runs -> RunStates]
      BY <2>15, LeaveType DEF TypeOK, Fail
    <3>2. retries' \in 0..MaxRetry /\ msg' \in {"queued", "gone"}
      BY <2>15, SyncChargeAssumption DEF TypeOK, Fail
    <3> QED
      BY <3>1, <3>2, <2>15 DEF TypeOK, Fail, node, money, table
  <2>16. CASE Crash(r)
    <3>1. faults' \in 0..MaxFaults
      BY <2>16, SyncChargeAssumption DEF TypeOK, Crash, Strikes
    <3> QED
      BY <3>1, <2>16, LeaveType DEF TypeOK, Crash, node, money, table
  <2> QED
    BY <2>1, <2>2, <2>3, <2>4, <2>5, <2>6, <2>7, <2>8, <2>9, <2>10, <2>11, <2>12, <2>13,
       <2>14, <2>15, <2>16 DEF RunStep
<1>2. CASE \E a \in Clicks : ClickStep(a)
  <2> PICK a \in Clicks : ClickStep(a)
    BY <1>2
  <2>1. CASE Claim(a)
    <3>1. PICK c \in Runs :
            /\ rows' = [rows EXCEPT ![c] = ClaimForRefund(@)]
            /\ click' = [click EXCEPT ![a] =
                          [pc |-> IF charged[c] = 0 THEN "reverting" ELSE "paying", row |-> c]]
      BY <2>1 DEF Claim
    <3>2. rows' \in [Runs -> Row({})]
      BY <3>1 DEF TypeOK, ClaimForRefund, Row
    <3>3. click' \in [Clicks -> ClickStates]
      BY <3>1 DEF TypeOK, ClickStates, MaybeRun
    <3> QED
      BY <3>2, <3>3, <2>1 DEF TypeOK, Claim, node, money, sched
  <2>2. CASE ClickPay(a)
    <3>0. click[a].row \in Runs
      BY <2>2 DEF ClickPay, OnRow, ClicksHold, Occupied
    <3>1. click' \in [Clicks -> ClickStates]
      BY <2>2 DEF ClickPay, Move, TypeOK, ClickStates
    <3>2. credits' \in Nat /\ bill' \in [Payers -> [charge : MaybeRun, amount : Nat]]
      <4> DEFINE b == [charge |-> click[a].row, amount |-> charged[click[a].row]]
      <4>1. b \in [charge : MaybeRun, amount : Nat] /\ charged[click[a].row] \in Nat
        BY <3>0 DEF MaybeRun, TypeOK
      <4>2. \/ credits' = credits + charged[click[a].row] /\ bill' = [bill EXCEPT ![a] = b]
            \/ UNCHANGED <<credits, bill>>
        BY <2>2 DEF ClickPay, Returned
      <4>3. a \in Payers
        BY DEF Payers
      <4> QED
        <5>1. credits \in Nat /\ bill \in [Payers -> [charge : MaybeRun, amount : Nat]]
          BY DEF TypeOK
        <5> HIDE DEF b
        <5>2. bill' \in [Payers -> [charge : MaybeRun, amount : Nat]]
          BY <4>1, <4>2, <4>3, <5>1
        <5>3. credits' \in Nat
          BY <3>0, <4>1, <4>2, <5>1
        <5> QED
          BY <5>2, <5>3
    <3>3. faults' \in 0..MaxFaults
      BY <2>2, SyncChargeAssumption DEF ClickPay, Strikes, TypeOK
    <3> QED
      BY <3>1, <3>2, <3>3, <2>2 DEF TypeOK, ClickPay, node, table, sched
  <2>3. CASE Revert(a)
    <3>0. click[a].row \in Runs
      BY <2>3 DEF Revert, OnRow, ClicksHold, Occupied
    <3>1. rows' \in [Runs -> Row({})]
      BY <3>0, <2>3 DEF Revert, RevertRefund, TypeOK, Row, Statuses
    <3>2. click' \in [Clicks -> ClickStates]
      BY <2>3 DEF Revert, Move, TypeOK, ClickStates
    <3> QED
      BY <3>1, <3>2, <2>3 DEF TypeOK, Revert, node, money, sched
  <2>4. CASE Confirm(a)
    <3>0. click[a].row \in Runs
      BY <2>4 DEF Confirm, OnRow, ClicksHold, Occupied
    <3>1. rows' \in [Runs -> Row({})]
      <4>1. \A row \in Row({}) : MarkRefundedFromClaim(row) \in Row({})
        BY DEF MarkRefundedFromClaim, Row, Statuses
      <4> QED
        BY <3>0, <4>1, <2>4 DEF Confirm, TypeOK
    <3>2. click' \in [Clicks -> ClickStates]
      BY <2>4 DEF Confirm, Move, TypeOK, ClickStates
    <3>3. faults' \in 0..MaxFaults
      BY <2>4, SyncChargeAssumption DEF Confirm, Strikes, TypeOK
    <3> QED
      BY <3>1, <3>2, <3>3, <2>4 DEF TypeOK, Confirm, node, money, sched
  <2>5. CASE ClickCrash(a)
    <3>1. click' \in [Clicks -> ClickStates]
      BY <2>5 DEF ClickCrash, Move, TypeOK, ClickStates
    <3>3. faults' \in 0..MaxFaults
      BY <2>5, SyncChargeAssumption DEF ClickCrash, Strikes, TypeOK
    <3> QED
      BY <3>1, <3>3, <2>5 DEF TypeOK, ClickCrash, node, money, table, sched
  <2> QED
    BY <2>1, <2>2, <2>3, <2>4, <2>5 DEF ClickStep
<1>3. CASE SkipDone
  BY <1>3 DEF TypeOK, SkipDone, node, money, table
<1>4. CASE RefusePlan
  BY <1>4, SyncChargeAssumption DEF TypeOK, RefusePlan, Strikes, node, money, table
<1>5. CASE Edit
  BY <1>5, ReadType, SyncChargeAssumption DEF TypeOK, Edit, Strikes, money, table, sched
<1>6. CASE Sweep
  <2>1. faults' \in 0..MaxFaults
    BY <1>6, SyncChargeAssumption DEF TypeOK, Sweep, Strikes
  <2> QED
    BY <2>1, <1>6 DEF TypeOK, Sweep, node, money, table
<1>7. CASE UNCHANGED vars
  BY <1>7 DEF TypeOK, vars
<1> QED
  BY <1>1, <1>2, <1>3, <1>4, <1>5, <1>6, <1>7 DEF Next

-----------------------------------------------------------------------------
(* One run at a time *)

\* A step of run r moves no other run and leaves the node's price alone.
LEMMA RunFrame ==
  ASSUME TypeOK, NEW r \in Runs, Start(r) \/ RunStep(r) \/ Crash(r)
  PROVE  /\ \A q \in Runs \ {r} : act'[q] = act[q]
         /\ UNCHANGED <<kind, unit, trouble, click, closed>>
<1>1. CASE Start(r)
  BY <1>1 DEF Start, Goto, Leave, TypeOK, node, sched
<1>2. CASE ReadNode(r)
  BY <1>2 DEF ReadNode, Goto, Leave, TypeOK, node, sched
<1>3. CASE Check(r)
  BY <1>3 DEF Check, Goto, Leave, TypeOK, node, sched
<1>4. CASE Charge(r)
  BY <1>4 DEF Charge, Goto, Leave, TypeOK, node, sched
<1>5. CASE Submit(r)
  BY <1>5 DEF Submit, Goto, Leave, TypeOK, node, sched
<1>6. CASE Call(r)
  BY <1>6 DEF Call, Goto, Leave, TypeOK, node, sched
<1>7. CASE Store(r)
  BY <1>7 DEF Store, Goto, Leave, TypeOK, node, sched
<1>8. CASE Settle(r)
  BY <1>8 DEF Settle, Goto, Leave, TypeOK, node, sched
<1>9. CASE Pay(r)
  BY <1>9 DEF Pay, Goto, Leave, TypeOK, node, sched
<1>10. CASE RecordRefund(r)
  BY <1>10 DEF RecordRefund, Goto, Leave, TypeOK, node, sched
<1>11. CASE Review(r)
  BY <1>11 DEF Review, Goto, Leave, TypeOK, node, sched
<1>12. CASE Deliver(r)
  BY <1>12 DEF Deliver, Goto, Leave, TypeOK, node, sched
<1>13. CASE RecordGeneration(r)
  BY <1>13 DEF RecordGeneration, Goto, Leave, TypeOK, node, sched
<1>14. CASE Hand(r)
  BY <1>14 DEF Hand, Goto, Leave, TypeOK, node, sched
<1>15. CASE Fail(r)
  BY <1>15 DEF Fail, Goto, Leave, TypeOK, node, sched
<1>16. CASE Crash(r)
  BY <1>16 DEF Crash, Goto, Leave, TypeOK, node, sched
<1> QED
  BY <1>1, <1>2, <1>3, <1>4, <1>5, <1>6, <1>7, <1>8, <1>9, <1>10, <1>11, <1>12, <1>13,
     <1>14, <1>15, <1>16 DEF RunStep

\* Where a step of a run leads, and what it says of the message.
LEMMA RunMoves ==
  ASSUME TypeOK, NEW r \in Runs, RunStep(r)
  PROVE  /\ Alive(r) /\ act'[r] \in RunStates
         /\ act[r].pc = "read" => act'[r].pc \in {"check", "ended", "handed"}
         /\ act[r].pc = "check" => act'[r].pc \in {"charge", "submit"}
         /\ act[r].pc = "charge" => act'[r].pc \in {"submit", "ended"}
         /\ act[r].pc = "submit" => act'[r].pc = "call"
         /\ act[r].pc = "call" => act'[r].pc \in {"settle", "store", "deliver"}
         /\ act[r].pc = "store" => act'[r].pc \in {"review", "deliver"}
         /\ act[r].pc = "settle" => act'[r].pc \in {"review", "pay", "recordRefund"}
         /\ act[r].pc = "pay" => act'[r].pc \in {"review", "recordRefund"}
         /\ act[r].pc \in {"recordRefund", "review"} => act'[r].pc = "ended"
         /\ act[r].pc = "deliver" => act'[r].pc \in {"history", "handed"}
         /\ act[r].pc = "history" => act'[r].pc = "handed"
         /\ act[r].pc \in Billed \/ act'[r].pc \in {"check", "charge", "handed", "ended"} =>
              act'[r].key = act[r].key /\ act'[r].amount = act[r].amount
         /\ At(r, "read") \/ act[r].pc = "check" => act'[r].pc \notin {"idle", "read"}
         /\ act[r].pc \notin {"read", "check"} => act'[r].pc \notin Early
         /\ act[r].pc \notin {"handed", "ended"} => Alive(r)' /\ msg' = msg
         /\ act[r].pc \in {"handed", "ended"} => ~Alive(r)'
<1>1. CASE ReadNode(r)
  <2>1. Goto(r, "check") \/ Goto(r, "ended") \/ Goto(r, "handed")
    BY <1>1 DEF ReadNode, TypeOK, InputStates
  <2> QED
    BY <2>1, <1>1, GotoType DEF ReadNode, TypeOK, RunLabels, At, Alive, Early, Billed,
       Working, sched
<1>2. CASE Check(r)
  <2>1. CASE Goto(r, "charge")
    BY <2>1, <1>2, GotoType DEF Check, TypeOK, RunLabels, At, Alive, Early, Billed,
       Working, sched
  <2>2. ASSUME NEW c \in Runs,
               act' = [act EXCEPT ![r] = [@ EXCEPT !.pc = "submit", !.key = c,
                                                   !.amount = charged[c]]]
        PROVE  act'[r].pc = "submit" /\ act'[r] \in RunStates
    BY <2>2, ChargeType, CostNat DEF TypeOK
  <2> QED
    BY <2>1, <2>2, <1>2 DEF Check, At, Alive, Early, Billed, Working, sched
<1>3. CASE Charge(r)
  <2>1. CASE Goto(r, "ended")
    BY <2>1, <1>3, GotoType DEF Charge, TypeOK, RunLabels, At, Alive, Early, Billed,
       Working, sched
  <2>2. ASSUME NEW c \in Runs,
               act' = [act EXCEPT ![r] = [@ EXCEPT !.pc = "submit", !.key = r,
                                                   !.amount = Cost]]
        PROVE  act'[r].pc = "submit" /\ act'[r] \in RunStates
    BY <2>2, ChargeType, CostNat DEF TypeOK
  <2> QED
    BY <2>1, <2>2, <1>3 DEF Charge, At, Alive, Early, Billed, Working, sched
<1>4. CASE Submit(r)
  BY <1>4, GotoType DEF Submit, TypeOK, RunLabels, At, Alive, Early, Billed, Working, sched
<1>5. CASE Call(r)
  <2>1. CASE Goto(r, "deliver") \/ Goto(r, "store")
    BY <2>1, <1>5, GotoType DEF Call, TypeOK, RunLabels, At, Alive, Early, Billed, Working,
       sched
  <2>2. ASSUME NEW b \in BOOLEAN,
               act' = [act EXCEPT ![r] = [@ EXCEPT !.pc = "settle", !.rejected = b]]
        PROVE  /\ act'[r].pc = "settle" /\ act'[r] \in RunStates
               /\ act'[r].key = act[r].key /\ act'[r].amount = act[r].amount
    BY <2>2, RejectedType DEF TypeOK
  <2>3. ASSUME NEW n \in 0..input.asked,
               act' = [act EXCEPT ![r] = [@ EXCEPT !.pc = "store", !.got = n]]
        PROVE  /\ act'[r].pc = "store" /\ act'[r] \in RunStates
               /\ act'[r].key = act[r].key /\ act'[r].amount = act[r].amount
    <3>1. n \in 0..MaxAsked
      BY SyncChargeAssumption DEF TypeOK, InputStates
    <3> QED
      BY <2>3, <3>1, GotType DEF TypeOK
  <2> QED
    BY <2>1, <2>2, <2>3, <1>5 DEF Call, At, Alive, Early, Billed, Working, sched
<1>6. CASE Store(r)
  BY <1>6, GotoType, FinalType DEF Store, TypeOK, RunLabels, At, Alive, Early, Billed,
     Working, sched
<1>7. CASE Settle(r)
  <2>1. CASE Goto(r, "review") \/ Goto(r, "recordRefund") \/ Goto(r, "pay")
    BY <2>1, <1>7, GotoType DEF Settle, TypeOK, RunLabels, At, Alive, Early, Billed,
       Working, sched
  <2>2. CASE act' = [act EXCEPT ![r] = [@ EXCEPT !.pc = "review", !.final = TRUE]]
    BY <2>2, <1>7, FinalType DEF Settle, TypeOK, At, Alive, Early, Billed, Working, sched
  <2> QED
    BY <2>1, <2>2, <1>7 DEF Settle
<1>8. CASE Pay(r)
  BY <1>8, GotoType, FinalType DEF Pay, TypeOK, RunLabels, At, Alive, Early, Billed,
     Working, sched
<1>9. CASE RecordRefund(r)
  BY <1>9, EndFinalType DEF RecordRefund, TypeOK, RunLabels, At, Alive, Early, Billed,
     Working, sched
<1>10. CASE Review(r)
  BY <1>10, GotoType DEF Review, TypeOK, RunLabels, At, Alive, Early, Billed, Working, sched
<1>11. CASE Deliver(r)
  <2>1. Goto(r, "history") \/ Goto(r, "handed")
    BY <1>11 DEF Deliver
  <2> QED
    BY <2>1, <1>11, GotoType DEF Deliver, TypeOK, RunLabels, At, Alive, Early, Billed,
       Working, sched
<1>12. CASE RecordGeneration(r)
  BY <1>12, GotoType DEF RecordGeneration, TypeOK, RunLabels, At, Alive, Early, Billed,
     Working, sched
<1>13. CASE Hand(r)
  BY <1>13, LeaveType DEF Hand, TypeOK, RunLabels, At, Alive, Early, Billed, Working, sched
<1>14. CASE Fail(r)
  BY <1>14, LeaveType DEF Fail, TypeOK, RunLabels, At, Alive, Early, Billed, Working, sched
<1> QED
  BY <1>1, <1>2, <1>3, <1>4, <1>5, <1>6, <1>7, <1>8, <1>9, <1>10, <1>11, <1>12, <1>13,
     <1>14 DEF RunStep

LEMMA RunNotDirect ==
  ASSUME TypeOK, NEW r \in Runs, RunStep(r)
  PROVE  msg' # "direct" \/ msg' = msg
<1>1. CASE ReadNode(r)
  BY <1>1 DEF ReadNode, sched
<1>2. CASE Check(r)
  BY <1>2 DEF Check, sched
<1>3. CASE Charge(r)
  BY <1>3 DEF Charge, sched
<1>4. CASE Submit(r)
  BY <1>4 DEF Submit, sched
<1>5. CASE Call(r)
  BY <1>5 DEF Call, sched
<1>6. CASE Store(r)
  BY <1>6 DEF Store, sched
<1>7. CASE Settle(r)
  BY <1>7 DEF Settle, sched
<1>8. CASE Pay(r)
  BY <1>8 DEF Pay, sched
<1>9. CASE RecordRefund(r)
  BY <1>9 DEF RecordRefund, sched
<1>10. CASE Review(r)
  BY <1>10 DEF Review, sched
<1>11. CASE Deliver(r)
  BY <1>11 DEF Deliver, sched
<1>12. CASE RecordGeneration(r)
  BY <1>12 DEF RecordGeneration, sched
<1>13. CASE Hand(r)
  BY <1>13 DEF Hand, sched
<1>14. CASE Fail(r)
  BY <1>14 DEF Fail, sched
<1> QED
  BY <1>1, <1>2, <1>3, <1>4, <1>5, <1>6, <1>7, <1>8, <1>9, <1>10, <1>11, <1>12, <1>13,
     <1>14 DEF RunStep

LEMMA SerialStep ==
  ASSUME TypeOK, Serial, [Next]_vars
  PROVE  Serial'
<1>1. ASSUME NEW r \in Runs, RunStep(r)
      PROVE  Serial'
  <2>1. /\ Alive(r) /\ trouble' = trouble /\ \A q \in Runs \ {r} : act'[q] = act[q]
        /\ Alive(r)' => msg' = msg
        /\ msg' # "direct" \/ msg' = msg
    BY <1>1, RunFrame, RunMoves, RunNotDirect
  <2> QED
    BY <2>1 DEF Serial, Alive
<1>2. ASSUME NEW r \in Runs, Start(r)
      PROVE  Serial'
  <2>1. trouble' = trouble /\ \A q \in Runs \ {r} : act'[q] = act[q] /\ ~Alive(q)
    BY <1>2, RunFrame DEF Start
  <2>2. msg' \in {"taken", "gone"} /\ (trouble # "direct" => msg' = "taken")
    BY <1>2 DEF Start, Serial
  <2> QED
    BY <2>1, <2>2 DEF Serial, Alive
<1>3. ASSUME NEW r \in Runs, Crash(r)
      PROVE  Serial'
  <2>0. msg' # "direct" \/ msg' = msg
    BY <1>3 DEF Crash
  <2>1. ~Alive(r)' /\ trouble' = trouble /\ \A q \in Runs \ {r} : act'[q] = act[q] /\ ~Alive(q)
    BY <1>3, RunFrame, LeaveType DEF Crash, Serial, Alive, NoRun, TypeOK
  <2> QED
    BY <2>0, <2>1 DEF Serial, Alive
<1>4. CASE \E a \in Clicks : ClickStep(a)
  BY <1>4 DEF ClickStep, Claim, ClickPay, Revert, Confirm, ClickCrash, sched, Serial, Alive
<1>5. CASE SkipDone \/ RefusePlan
  BY <1>5 DEF SkipDone, RefusePlan, Serial, Alive
<1>6. CASE Edit \/ Sweep \/ UNCHANGED vars
  BY <1>6 DEF Edit, Sweep, vars, sched, Serial, Alive
<1> QED
  BY <1>1, <1>2, <1>3, <1>4, <1>5, <1>6 DEF Next

-----------------------------------------------------------------------------
(* Keys, rows and bills *)

\* What a write makes of the row of c.
LEMMA WriteRow ==
  ASSUME TypeOK, RowsAreTrue, NEW c \in Runs, NEW s \in Statuses, NEW b \in BOOLEAN,
         Write(c, s, b)
  PROVE  /\ \A d \in Runs \ {c} : rows'[d] = rows[d]
         /\ \/ ~Exists(rows[c]) /\ rows'[c] = Row1(s, b)
            \/ /\ Exists(rows[c]) /\ Writable(rows[c], s)
               /\ rows'[c].status = s /\ rows'[c].refunded = (rows[c].refunded \/ b)
               /\ rows'[c].task = None
            \/ /\ rows'[c] = rows[c]
               /\ trouble = "record" \/ (Exists(rows[c]) /\ ~Writable(rows[c], s))
<1>1. /\ rows \in [Runs -> Row({})] /\ rows[c].task = None
  BY DEF TypeOK, Row
<1>2. \/ rows'[c] = Upserted(rows[c], Row1(s, b))
      \/ trouble = "record" /\ rows' = rows
  BY WriteEffect
<1>3. \A d \in Runs \ {c} : rows'[d] = rows[d]
  BY WriteEffect
<1>4. CASE rows'[c] = Upserted(rows[c], Row1(s, b))
  BY <1>1, <1>3, <1>4 DEF Upserted, Merged, Row1
<1> QED
  BY <1>2, <1>3, <1>4

LEMMA FreshKept ==
  ASSUME Fresh, NEW r \in Runs, \A q \in Runs \ {r} : act'[q] = act[q],
         act'[r].pc \notin Early,
         \A q \in Runs \ {r} : act[q].pc \in Early => charged'[q] = charged[q] /\ rows'[q] = rows[q]
  PROVE  Fresh'
BY DEF Fresh

LEMMA FreshStep ==
  ASSUME TypeOK, Fresh, Holding, ClicksHold, [Next]_vars
  PROVE  Fresh'
<1>1. CASE \E r \in Runs : Start(r) \/ RunStep(r) \/ Crash(r)
  <2> PICK r \in Runs : Start(r) \/ RunStep(r) \/ Crash(r)
    BY <1>1
  <2>1. CASE Start(r)
    <3>1. act'[r] = [act[r] EXCEPT !.pc = "read"] /\ act[r].pc = "idle"
      BY <2>1 DEF Start, Goto, At, TypeOK
    <3>2. act[r] = [NoRun EXCEPT !.pc = "idle"] /\ charged[r] = 0 /\ rows[r] = NoRow
      BY <3>1 DEF Fresh, Early
    <3>3. act'[r] = [NoRun EXCEPT !.pc = act'[r].pc]
      BY <3>1, <3>2 DEF NoRun
    <3> QED
      BY <3>2, <3>3, <2>1, RunFrame DEF Start, Fresh, money, table
  <2>2. CASE ReadNode(r)
    <3>1. CASE act'[r].pc \notin Early
      BY <3>1, <2>2, RunFrame, FreshKept DEF ReadNode, RunStep, money, table
    <3>2. CASE act'[r].pc \in Early
      <4>1. PICK l : Goto(r, l)
        BY <2>2 DEF ReadNode
      <4>2. act'[r] = [act[r] EXCEPT !.pc = l] /\ act[r].pc = "read"
        BY <2>2, <4>1 DEF ReadNode, Goto, At, TypeOK
      <4>3. act[r] = [NoRun EXCEPT !.pc = "read"] /\ charged[r] = 0 /\ rows[r] = NoRow
        BY <4>2 DEF Fresh, Early
      <4>4. act'[r] = [NoRun EXCEPT !.pc = act'[r].pc]
        BY <4>2, <4>3 DEF NoRun
      <4>5. UNCHANGED <<charged, rows>> /\ \A q \in Runs \ {r} : act'[q] = act[q]
        BY <2>2, RunFrame DEF ReadNode, RunStep, money, table
      <4> QED
        BY <4>3, <4>4, <4>5 DEF Fresh
    <3> QED
      BY <3>1, <3>2
  <2>3. CASE Check(r)
    <3>1. CASE Goto(r, "charge")
      <4>2. act'[r] = [act[r] EXCEPT !.pc = "charge"] /\ act[r].pc = "check"
        BY <2>3, <3>1 DEF Check, Goto, At, TypeOK
      <4>3. act[r] = [NoRun EXCEPT !.pc = "check"] /\ charged[r] = 0 /\ rows[r] = NoRow
        BY <4>2 DEF Fresh, Early
      <4>4. act'[r] = [NoRun EXCEPT !.pc = act'[r].pc]
        BY <4>2, <4>3 DEF NoRun
      <4>5. UNCHANGED <<charged, rows>> /\ \A q \in Runs \ {r} : act'[q] = act[q]
        BY <2>3, RunFrame DEF Check, RunStep, money, table
      <4> QED
        BY <4>3, <4>4, <4>5 DEF Fresh
    <3>2. CASE ~Goto(r, "charge")
      <4>1. PICK c \in Runs : act' = [act EXCEPT ![r] = [@ EXCEPT !.pc = "submit", !.key = c,
                                                     !.amount = charged[c]]]
        BY <2>3, <3>2 DEF Check
      <4>2. act'[r].pc = "submit"
        BY <4>1, ChargeType DEF TypeOK
      <4> QED
        BY <4>2, <2>3, RunFrame, FreshKept DEF Check, RunStep, money, table, Early
    <3> QED
      BY <3>1, <3>2
  <2>4. CASE Charge(r)
    <3>1. act'[r].pc \notin Early
      BY <2>4, RunMoves DEF RunStep, Charge, At
    <3>2. \A q \in Runs \ {r} : charged'[q] = charged[q] /\ rows'[q] = rows[q]
      BY <2>4 DEF Charge, TypeOK, table
    <3> QED
      BY <3>1, <3>2, <2>4, RunFrame, FreshKept DEF RunStep
  <2>5. CASE Submit(r)
    <3>1. act'[r].pc \notin Early
      BY <2>5, RunMoves DEF RunStep, Submit, At
    <3>2. act[r].key \in Runs /\ act[act[r].key].pc \notin Early
      BY <2>5 DEF Submit, At, Holding, HoldsCharge, Billed, Working
    <3>3. \A q \in Runs : q # act[r].key => rows'[q] = rows[q]
      BY <3>2, <2>5, WriteEffect DEF Submit, Statuses
    <3> QED
      BY <3>1, <3>2, <3>3, <2>5, RunFrame, FreshKept DEF RunStep, Submit, money
  <2>6. CASE Call(r)
    <3>1. act'[r].pc \notin Early
      BY <2>6, RunMoves DEF RunStep, Call, At
    <3> QED
      BY <3>1, <2>6, RunFrame, FreshKept DEF RunStep, Call, money, table
  <2>7. CASE Store(r)
    <3>1. act'[r].pc \notin Early
      BY <2>7, RunMoves DEF RunStep, Store, At
    <3> QED
      BY <3>1, <2>7, RunFrame, FreshKept DEF RunStep, Store, money, table
  <2>8. CASE Settle(r)
    <3>1. act'[r].pc \notin Early
      BY <2>8, RunMoves DEF RunStep, Settle, At
    <3> QED
      BY <3>1, <2>8, RunFrame, FreshKept DEF RunStep, Settle, money, table
  <2>9. CASE Pay(r)
    <3>1. act'[r].pc \notin Early
      BY <2>9, RunMoves DEF RunStep, Pay, At
    <3> QED
      BY <3>1, <2>9, RunFrame, FreshKept DEF RunStep, Pay, money, table
  <2>10. CASE RecordRefund(r)
    <3>1. act'[r].pc \notin Early
      BY <2>10, RunMoves DEF RunStep, RecordRefund, At
    <3>2. act[r].key \in Runs /\ act[act[r].key].pc \notin Early
      BY <2>10 DEF RecordRefund, At, Holding, HoldsCharge, Billed, Working
    <3>3. \A q \in Runs : q # act[r].key => rows'[q] = rows[q]
      BY <3>2, <2>10, WriteEffect DEF RecordRefund, Statuses
    <3> QED
      BY <3>1, <3>2, <3>3, <2>10, RunFrame, FreshKept DEF RunStep, RecordRefund, money
  <2>11. CASE Review(r)
    <3>1. act'[r].pc \notin Early
      BY <2>11, RunMoves DEF RunStep, Review, At
    <3>2. act[r].key \in Runs /\ act[act[r].key].pc \notin Early
      BY <2>11 DEF Review, At, Holding, HoldsCharge, Billed, Working
    <3>3. \A q \in Runs : q # act[r].key => rows'[q] = rows[q]
      BY <3>2, <2>11, WriteEffect DEF Review, Statuses
    <3> QED
      BY <3>1, <3>2, <3>3, <2>11, RunFrame, FreshKept DEF RunStep, Review, money
  <2>12. CASE Deliver(r)
    <3>1. act'[r].pc \notin Early
      BY <2>12, RunMoves DEF RunStep, Deliver, At
    <3>2. act[r].key \in Runs /\ act[act[r].key].pc \notin Early
      BY <2>12 DEF Deliver, At, Holding, HoldsCharge, Billed, Working
    <3>3. \A q \in Runs : q # act[r].key => rows'[q] = rows[q]
      BY <3>2, <2>12, WriteEffect DEF Deliver, Statuses
    <3> QED
      BY <3>1, <3>2, <3>3, <2>12, RunFrame, FreshKept DEF RunStep, Deliver, money
  <2>13. CASE RecordGeneration(r)
    <3>1. act'[r].pc \notin Early
      BY <2>13, RunMoves DEF RunStep, RecordGeneration, At
    <3> QED
      BY <3>1, <2>13, RunFrame, FreshKept DEF RunStep, RecordGeneration, money, table
  <2>14. CASE Hand(r)
    <3>1. act'[r].pc \notin Early
      BY <2>14, LeaveType DEF Hand, TypeOK, Early
    <3> QED
      BY <3>1, <2>14, RunFrame, FreshKept DEF RunStep, Hand, money, table
  <2>15. CASE Fail(r)
    <3>1. act'[r].pc \notin Early
      BY <2>15, LeaveType DEF Fail, TypeOK, Early
    <3> QED
      BY <3>1, <2>15, RunFrame, FreshKept DEF RunStep, Fail, money, table
  <2>16. CASE Crash(r)
    <3>1. act'[r].pc \notin Early
      BY <2>16, LeaveType DEF Crash, TypeOK, Early
    <3> QED
      BY <3>1, <2>16, RunFrame, FreshKept DEF RunStep, Crash, money, table
  <2> QED
    BY <2>1, <2>2, <2>3, <2>4, <2>5, <2>6, <2>7, <2>8, <2>9, <2>10, <2>11, <2>12, <2>13,
       <2>14, <2>15, <2>16 DEF RunStep
<1>2. CASE \E a \in Clicks : ClickStep(a)
  <2> PICK a \in Clicks : ClickStep(a)
    BY <1>2
  <2>1. CASE Claim(a)
    <3>1. PICK c \in Runs : Claimable(rows[c]) /\ rows' = [rows EXCEPT ![c] = ClaimForRefund(@)]
      BY <2>1 DEF Claim
    <3>2. rows[c] # NoRow
      BY <3>1 DEF Claimable, NoRow
    <3> QED
      BY <3>1, <3>2, <2>1 DEF Claim, Fresh, TypeOK, money
  <2>2. CASE ClickPay(a)
    BY <2>2 DEF ClickPay, Fresh, table
  <2>3. CASE Revert(a)
    <3>1. click[a].row \in Runs /\ rows[click[a].row] # NoRow
      BY <2>3 DEF Revert, OnRow, ClicksHold, Occupied, Exists, NoRow
    <3>2. \A q \in Runs : q # click[a].row => rows'[q] = rows[q]
      BY <3>1, <2>3 DEF Revert, TypeOK
    <3> QED
      BY <3>1, <3>2, <2>3 DEF Revert, Fresh, money
  <2>4. CASE Confirm(a)
    <3>1. click[a].row \in Runs /\ rows[click[a].row] # NoRow
      BY <2>4 DEF Confirm, OnRow, ClicksHold, Occupied, Exists, NoRow
    <3>2. \A q \in Runs : q # click[a].row => rows'[q] = rows[q]
      BY <3>1, <2>4 DEF Confirm, TypeOK
    <3> QED
      BY <3>1, <3>2, <2>4 DEF Confirm, Fresh, money
  <2>5. CASE ClickCrash(a)
    BY <2>5 DEF ClickCrash, Fresh, money, table
  <2> QED
    BY <2>1, <2>2, <2>3, <2>4, <2>5 DEF ClickStep
<1>3. CASE SkipDone
  BY <1>3 DEF SkipDone, Fresh, money, table
<1>4. CASE RefusePlan
  BY <1>4 DEF RefusePlan, Fresh, money, table
<1>5. CASE Edit
  BY <1>5 DEF Edit, Fresh, money, table
<1>6. CASE Sweep
  BY <1>6 DEF Sweep, Fresh, money, table
<1>7. CASE UNCHANGED vars
  BY <1>7 DEF Fresh, vars
<1> QED
  BY <1>1, <1>2, <1>3, <1>4, <1>5, <1>6, <1>7 DEF Next

LEMMA HoldsChargeKept ==
  ASSUME NEW r \in Runs, HoldsCharge(r), UNCHANGED <<charged, unit>>,
         \A q \in Runs \ {r} : act'[q] = act[q],
         act'[r].key = act[r].key, act'[r].amount = act[r].amount, act'[r].pc \notin Early
  PROVE  HoldsCharge(r)'
BY DEF HoldsCharge

LEMMA HoldingKept ==
  ASSUME Serial, Holding, NEW r \in Runs, Alive(r), \A q \in Runs \ {r} : act'[q] = act[q],
         \/ HoldsCharge(r)'
         \/ act'[r].pc \in {"handed", "ended"} /\ act'[r].key = None
         \/ act'[r].pc \notin Billed \cup {"handed", "ended"},
         act'[r].pc = "submit" =>
           (act'[r].key = r /\ rows'[r] = NoRow)
             \/ (Exists(rows'[act'[r].key]) /\ act'[r].amount > 0),
         act'[r].pc \in {"pay", "recordRefund"} => act'[r].amount > 0,
         act'[r].pc = "review" => act'[r].final \/ act'[r].amount = 0
  PROVE  Holding'
<1>1. \A q \in Runs \ {r} : act'[q].pc \in {"idle", "over"}
  BY DEF Serial, Alive
<1> QED
  BY <1>1 DEF Holding, Billed, Working

LEMMA HoldingStep ==
  ASSUME TypeOK, Serial, Fresh, Holding, ClicksHold, RowsAreTrue, [Next]_vars
  PROVE  Holding'
<1>1. CASE \E r \in Runs : Start(r) \/ RunStep(r) \/ Crash(r)
  <2> PICK r \in Runs : Start(r) \/ RunStep(r) \/ Crash(r)
    BY <1>1
  <2>1. CASE Start(r)
    <3>1. act'[r].pc = "read" /\ \A q \in Runs \ {r} : act'[q] = act[q] /\ ~Alive(q)
      BY <2>1, RunFrame, GotoType DEF Start, TypeOK, RunLabels
    <3> QED
      BY <3>1 DEF Holding, Billed, Working, Alive
  <2>2. CASE ReadNode(r)
    <3>1. Alive(r) /\ act'[r].pc \in {"check", "handed", "ended"} /\ act'[r].key = act[r].key
      BY <2>2, RunMoves DEF ReadNode, RunStep, At
    <3>2. act[r].key = None
      BY <2>2 DEF ReadNode, At, Fresh, Early, NoRun
    <3> QED
      BY <3>1, <3>2, <2>2, RunFrame, HoldingKept DEF RunStep, Billed, Working
  <2>3. CASE Check(r)
    <3>1. Alive(r) /\ \A q \in Runs \ {r} : act'[q] = act[q]
      BY <2>3, RunMoves, RunFrame DEF RunStep
    <3>2. CASE Goto(r, "charge")
      <4>1. act'[r].pc = "charge"
        BY <3>2, GotoType DEF TypeOK, RunLabels
      <4> QED
        BY <3>1, <4>1, HoldingKept DEF Billed, Working
    <3>3. CASE ~Goto(r, "charge")
      <4>1. PICK c \in Runs :
              /\ Reusable(c)
              /\ act' = [act EXCEPT ![r] = [@ EXCEPT !.pc = "submit", !.key = c,
                                                     !.amount = charged[c]]]
        BY <2>3, <3>3 DEF Check
      <4>0. charged[c] \in Nat /\ act \in [Runs -> RunStates]
        BY DEF TypeOK
      <4>2. act'[r].pc = "submit" /\ act'[r].key = c /\ act'[r].amount = charged[c]
        <5> DEFINE s == [act[r] EXCEPT !.pc = "submit", !.key = c, !.amount = charged[c]]
        <5>2. act'[r] = s
          BY <4>1 DEF TypeOK
        <5>3. s.pc = "submit" /\ s.key = c /\ s.amount = charged[c]
          BY <4>0 DEF TypeOK, RunStates
        <5> QED
          BY <5>2, <5>3
      <4>3. charged[c] > 0 /\ Exists(rows[c])
        BY <4>1 DEF Reusable, IsNewestOutstanding, Outstanding
      <4>4. act'[c].pc \notin Early
        <5>1. rows[c] # NoRow
          BY <4>3 DEF Exists, NoRow
        <5>2. act[c].pc \notin Early
          BY <5>1 DEF Fresh
        <5> QED
          BY <3>1, <4>2, <5>2 DEF Early
      <4>5. charged' = charged /\ rows' = rows
        BY <2>3 DEF Check, money, table
      <4>6. HoldsCharge(r)'
        BY <4>2, <4>3, <4>4, <4>5 DEF HoldsCharge
      <4> QED
        BY <3>1, <4>2, <4>3, <4>5, <4>6, HoldingKept
    <3> QED
      BY <3>2, <3>3
  <2>4. CASE Charge(r)
    <3>1. Alive(r) /\ (\A q \in Runs \ {r} : act'[q] = act[q]) /\ unit' = unit
      BY <2>4, RunMoves, RunFrame DEF RunStep
    <3>2. CASE Goto(r, "ended")
      <4>1. act'[r].pc = "ended" /\ act'[r].key = act[r].key
        BY <3>2, GotoType DEF TypeOK, RunLabels
      <4>2. act[r].key = None
        BY <2>4 DEF Charge, At, Fresh, Early, NoRun
      <4> QED
        BY <3>1, <4>1, <4>2, HoldingKept
    <3>3. CASE ~Goto(r, "ended")
      <4>0. Cost \in Nat /\ (unit > 0 <=> Cost > 0)
        BY CostNat DEF TypeOK
      <4>1. /\ charged' = [charged EXCEPT ![r] = Cost]
            /\ act' = [act EXCEPT ![r] = [@ EXCEPT !.pc = "submit", !.key = r, !.amount = Cost]]
        BY <2>4, <3>3 DEF Charge
      <4>2. act'[r].pc = "submit" /\ act'[r].key = r /\ act'[r].amount = Cost
        <5> DEFINE s == [act[r] EXCEPT !.pc = "submit", !.key = r, !.amount = Cost]
        <5>2. act'[r] = s
          BY <4>1 DEF TypeOK
        <5>3. s.pc = "submit" /\ s.key = r /\ s.amount = Cost
          BY <4>0 DEF TypeOK, RunStates
        <5> QED
          BY <5>2, <5>3
      <4>3. charged'[r] = Cost
        BY <4>1 DEF TypeOK
      <4>6. HoldsCharge(r)'
        BY <3>1, <4>0, <4>2, <4>3 DEF HoldsCharge, Early
      <4>7. rows'[r] = NoRow
        BY <2>4 DEF Charge, At, Fresh, Early, table
      <4> QED
        BY <3>1, <4>2, <4>6, <4>7, HoldingKept
    <3> QED
      BY <3>2, <3>3
  <2>5. CASE Submit(r)
    <3>1. Alive(r) /\ (\A q \in Runs \ {r} : act'[q] = act[q]) /\ unit' = unit
      BY <2>5, RunMoves, RunFrame DEF RunStep
    <3>2. /\ act[r].pc \in Billed /\ HoldsCharge(r)
      BY <2>5 DEF Submit, At, Billed, Working, Holding
    <3>3. /\ act'[r].key = act[r].key /\ act'[r].amount = act[r].amount
          /\ act'[r].pc \notin Early /\ act'[r].pc # "submit"
      BY <2>5, <3>2, RunMoves DEF Submit, RunStep, At, Billed, Working
    <3>4. act'[r].pc \in {"pay", "recordRefund"} => act'[r].amount > 0
      BY <2>5, RunMoves DEF Submit, RunStep, At
    <3>5. HoldsCharge(r)'
      BY <2>5, <3>1, <3>2, <3>3, HoldsChargeKept DEF Submit, money
    <3>6. act'[r].pc = "review" => act'[r].final \/ act'[r].amount = 0
      BY <2>5, RunMoves DEF Submit, RunStep, At
    <3> QED
      BY <3>1, <3>3, <3>4, <3>5, <3>6, HoldingKept
  <2>6. CASE Call(r)
    <3>1. Alive(r) /\ (\A q \in Runs \ {r} : act'[q] = act[q]) /\ unit' = unit
      BY <2>6, RunMoves, RunFrame DEF RunStep
    <3>2. /\ act[r].pc \in Billed /\ HoldsCharge(r)
      BY <2>6 DEF Call, At, Billed, Working, Holding
    <3>3. /\ act'[r].key = act[r].key /\ act'[r].amount = act[r].amount
          /\ act'[r].pc \notin Early /\ act'[r].pc # "submit"
      BY <2>6, <3>2, RunMoves DEF Call, RunStep, At, Billed, Working
    <3>4. act'[r].pc \in {"pay", "recordRefund"} => act'[r].amount > 0
      BY <2>6, RunMoves DEF Call, RunStep, At
    <3>5. HoldsCharge(r)'
      BY <2>6, <3>1, <3>2, <3>3, HoldsChargeKept DEF Call, money
    <3>6. act'[r].pc = "review" => act'[r].final \/ act'[r].amount = 0
      BY <2>6, RunMoves DEF Call, RunStep, At
    <3> QED
      BY <3>1, <3>3, <3>4, <3>5, <3>6, HoldingKept
  <2>7. CASE Store(r)
    <3>1. Alive(r) /\ (\A q \in Runs \ {r} : act'[q] = act[q]) /\ unit' = unit
      BY <2>7, RunMoves, RunFrame DEF RunStep
    <3>2. /\ act[r].pc \in Billed /\ HoldsCharge(r)
      BY <2>7 DEF Store, At, Billed, Working, Holding
    <3>3. /\ act'[r].key = act[r].key /\ act'[r].amount = act[r].amount
          /\ act'[r].pc \notin Early /\ act'[r].pc # "submit"
      BY <2>7, <3>2, RunMoves DEF Store, RunStep, At, Billed, Working
    <3>4. act'[r].pc \in {"pay", "recordRefund"} => act'[r].amount > 0
      BY <2>7, RunMoves DEF Store, RunStep, At
    <3>5. HoldsCharge(r)'
      BY <2>7, <3>1, <3>2, <3>3, HoldsChargeKept DEF Store, money
    <3>6. act'[r].pc = "review" => act'[r].final \/ act'[r].amount = 0
      BY <2>7, FinalType, GotoType DEF Store, TypeOK, RunLabels
    <3> QED
      BY <3>1, <3>3, <3>4, <3>5, <3>6, HoldingKept
  <2>8. CASE Settle(r)
    <3>1. Alive(r) /\ (\A q \in Runs \ {r} : act'[q] = act[q]) /\ unit' = unit
      BY <2>8, RunMoves, RunFrame DEF RunStep
    <3>2. /\ act[r].pc \in Billed /\ HoldsCharge(r)
      BY <2>8 DEF Settle, At, Billed, Working, Holding
    <3>3. /\ act'[r].key = act[r].key /\ act'[r].amount = act[r].amount
          /\ act'[r].pc \notin Early /\ act'[r].pc # "submit"
      BY <2>8, <3>2, RunMoves DEF Settle, RunStep, At, Billed, Working
    <3>4. act'[r].pc \in {"pay", "recordRefund"} => act'[r].amount > 0
      <4>1. CASE act[r].amount > 0
        BY <3>3, <4>1
      <4>2. CASE Goto(r, "review") \/ act' = [act EXCEPT ![r] = [@ EXCEPT !.pc = "review", !.final = TRUE]]
        <5>1. act'[r].pc = "review"
          BY <4>2, GotoType, FinalType DEF TypeOK, RunLabels
        <5> QED
          BY <5>1
      <4> QED
        BY <4>1, <4>2, <2>8 DEF Settle
    <3>5. HoldsCharge(r)'
      BY <2>8, <3>1, <3>2, <3>3, HoldsChargeKept DEF Settle, money
    <3>6. act'[r].pc = "review" => act'[r].final \/ act'[r].amount = 0
      <4>1. CASE Goto(r, "review") /\ act[r].amount = 0
        BY <3>3, <4>1
      <4>2. CASE Goto(r, "recordRefund") \/ Goto(r, "pay")
        <5>1. act'[r].pc # "review"
          BY <4>2, GotoType DEF TypeOK, RunLabels
        <5> QED
          BY <5>1
      <4>3. CASE act' = [act EXCEPT ![r] = [@ EXCEPT !.pc = "review", !.final = TRUE]]
        BY <4>3, FinalType DEF TypeOK
      <4> QED
        BY <4>1, <4>2, <4>3, <2>8 DEF Settle
    <3> QED
      BY <3>1, <3>3, <3>4, <3>5, <3>6, HoldingKept
  <2>9. CASE Pay(r)
    <3>1. Alive(r) /\ (\A q \in Runs \ {r} : act'[q] = act[q]) /\ unit' = unit
      BY <2>9, RunMoves, RunFrame DEF RunStep
    <3>2. /\ act[r].pc \in Billed /\ HoldsCharge(r)
      BY <2>9 DEF Pay, At, Billed, Working, Holding
    <3>3. /\ act'[r].key = act[r].key /\ act'[r].amount = act[r].amount
          /\ act'[r].pc \notin Early /\ act'[r].pc # "submit"
      BY <2>9, <3>2, RunMoves DEF Pay, RunStep, At, Billed, Working
    <3>4. act'[r].pc \in {"pay", "recordRefund"} => act'[r].amount > 0
      BY <2>9, <3>3 DEF Pay, At, Holding
    <3>5. HoldsCharge(r)'
      BY <2>9, <3>1, <3>2, <3>3, HoldsChargeKept DEF Pay, money
    <3>6. act'[r].pc = "review" => act'[r].final \/ act'[r].amount = 0
      BY <2>9, FinalType, GotoType DEF Pay, TypeOK, RunLabels
    <3> QED
      BY <3>1, <3>3, <3>4, <3>5, <3>6, HoldingKept
  <2>10. CASE RecordRefund(r)
    <3>1. Alive(r) /\ (\A q \in Runs \ {r} : act'[q] = act[q]) /\ unit' = unit
      BY <2>10, RunMoves, RunFrame DEF RunStep
    <3>2. /\ act[r].pc \in Billed /\ HoldsCharge(r)
      BY <2>10 DEF RecordRefund, At, Billed, Working, Holding
    <3>3. /\ act'[r].key = act[r].key /\ act'[r].amount = act[r].amount
          /\ act'[r].pc \notin Early /\ act'[r].pc # "submit"
      BY <2>10, <3>2, RunMoves DEF RecordRefund, RunStep, At, Billed, Working
    <3>4. act'[r].pc \in {"pay", "recordRefund"} => act'[r].amount > 0
      BY <2>10, RunMoves DEF RecordRefund, RunStep, At
    <3>5. HoldsCharge(r)'
      BY <2>10, <3>1, <3>2, <3>3, HoldsChargeKept DEF RecordRefund, money
    <3>6. act'[r].pc = "review" => act'[r].final \/ act'[r].amount = 0
      BY <2>10, RunMoves DEF RecordRefund, RunStep, At
    <3> QED
      BY <3>1, <3>3, <3>4, <3>5, <3>6, HoldingKept
  <2>11. CASE Review(r)
    <3>1. Alive(r) /\ (\A q \in Runs \ {r} : act'[q] = act[q]) /\ unit' = unit
      BY <2>11, RunMoves, RunFrame DEF RunStep
    <3>2. /\ act[r].pc \in Billed /\ HoldsCharge(r)
      BY <2>11 DEF Review, At, Billed, Working, Holding
    <3>3. /\ act'[r].key = act[r].key /\ act'[r].amount = act[r].amount
          /\ act'[r].pc \notin Early /\ act'[r].pc # "submit"
      BY <2>11, <3>2, RunMoves DEF Review, RunStep, At, Billed, Working
    <3>4. act'[r].pc \in {"pay", "recordRefund"} => act'[r].amount > 0
      BY <2>11, RunMoves DEF Review, RunStep, At
    <3>5. HoldsCharge(r)'
      BY <2>11, <3>1, <3>2, <3>3, HoldsChargeKept DEF Review, money
    <3>6. act'[r].pc = "review" => act'[r].final \/ act'[r].amount = 0
      BY <2>11, RunMoves DEF Review, RunStep, At
    <3> QED
      BY <3>1, <3>3, <3>4, <3>5, <3>6, HoldingKept
  <2>12. CASE Deliver(r)
    <3>1. Alive(r) /\ (\A q \in Runs \ {r} : act'[q] = act[q]) /\ unit' = unit
      BY <2>12, RunMoves, RunFrame DEF RunStep
    <3>2. /\ act[r].pc \in Billed /\ HoldsCharge(r)
      BY <2>12 DEF Deliver, At, Billed, Working, Holding
    <3>3. /\ act'[r].key = act[r].key /\ act'[r].amount = act[r].amount
          /\ act'[r].pc \notin Early /\ act'[r].pc # "submit"
      BY <2>12, <3>2, RunMoves DEF Deliver, RunStep, At, Billed, Working
    <3>4. act'[r].pc \in {"pay", "recordRefund"} => act'[r].amount > 0
      BY <2>12, RunMoves DEF Deliver, RunStep, At
    <3>5. HoldsCharge(r)'
      BY <2>12, <3>1, <3>2, <3>3, HoldsChargeKept DEF Deliver, money
    <3>6. act'[r].pc = "review" => act'[r].final \/ act'[r].amount = 0
      BY <2>12, RunMoves DEF Deliver, RunStep, At
    <3> QED
      BY <3>1, <3>3, <3>4, <3>5, <3>6, HoldingKept
  <2>13. CASE RecordGeneration(r)
    <3>1. Alive(r) /\ (\A q \in Runs \ {r} : act'[q] = act[q]) /\ unit' = unit
      BY <2>13, RunMoves, RunFrame DEF RunStep
    <3>2. /\ act[r].pc \in Billed /\ HoldsCharge(r)
      BY <2>13 DEF RecordGeneration, At, Billed, Working, Holding
    <3>3. /\ act'[r].key = act[r].key /\ act'[r].amount = act[r].amount
          /\ act'[r].pc \notin Early /\ act'[r].pc # "submit"
      BY <2>13, <3>2, RunMoves DEF RecordGeneration, RunStep, At, Billed, Working
    <3>4. act'[r].pc \in {"pay", "recordRefund"} => act'[r].amount > 0
      BY <2>13, RunMoves DEF RecordGeneration, RunStep, At
    <3>5. HoldsCharge(r)'
      BY <2>13, <3>1, <3>2, <3>3, HoldsChargeKept DEF RecordGeneration, money
    <3>6. act'[r].pc = "review" => act'[r].final \/ act'[r].amount = 0
      BY <2>13, RunMoves DEF RecordGeneration, RunStep, At
    <3> QED
      BY <3>1, <3>3, <3>4, <3>5, <3>6, HoldingKept
  <2>14. CASE Hand(r)
    <3>1. Alive(r) /\ act'[r].pc = "over" /\ \A q \in Runs \ {r} : act'[q] = act[q]
      BY <2>14, LeaveType, RunFrame DEF Hand, Alive, At, TypeOK, RunStep
    <3> QED
      BY <3>1, HoldingKept DEF Billed, Working
  <2>15. CASE Fail(r)
    <3>1. Alive(r) /\ act'[r].pc = "over" /\ \A q \in Runs \ {r} : act'[q] = act[q]
      BY <2>15, LeaveType, RunFrame DEF Fail, Alive, At, TypeOK, RunStep
    <3> QED
      BY <3>1, HoldingKept DEF Billed, Working
  <2>16. CASE Crash(r)
    <3>1. Alive(r) /\ act'[r].pc = "over" /\ \A q \in Runs \ {r} : act'[q] = act[q]
      BY <2>16, LeaveType, RunFrame DEF Crash, Alive, At, TypeOK, RunStep
    <3> QED
      BY <3>1, HoldingKept DEF Billed, Working
  <2> QED
    BY <2>1, <2>2, <2>3, <2>4, <2>5, <2>6, <2>7, <2>8, <2>9, <2>10, <2>11, <2>12, <2>13,
       <2>14, <2>15, <2>16 DEF RunStep
<1>2. CASE \E a \in Clicks : ClickStep(a)
  <2> PICK a \in Clicks : ClickStep(a)
    BY <1>2
  <2>1. CASE Claim(a)
    <3>1. PICK c \in Runs : rows' = [rows EXCEPT ![c] = ClaimForRefund(@)]
      BY <2>1 DEF Claim
    <3>2. \A q \in Runs : Exists(rows[q]) => Exists(rows'[q])
      BY <3>1 DEF TypeOK, ClaimForRefund, Exists, Row
    <3>3. UNCHANGED <<act, charged, unit>>
      BY <2>1 DEF Claim, money, node
    <3>4. \A q \in Runs : rows[q] = NoRow => rows'[q] = NoRow
      <4>1. PICK d \in Runs : Claimable(rows[d]) /\ rows' = [rows EXCEPT ![d] = ClaimForRefund(@)]
        BY <2>1 DEF Claim
      <4>2. rows[d] # NoRow
        BY <4>1 DEF Claimable, NoRow
      <4> QED
        BY <4>1, <4>2 DEF TypeOK
    <3> QED
      BY <3>2, <3>3, <3>4 DEF Holding, HoldsCharge, Billed
  <2>2. CASE ClickPay(a)
    BY <2>2 DEF ClickPay, Holding, HoldsCharge, table, node
  <2>3. CASE Revert(a)
    <3>1. click[a].row \in Runs
      BY <2>3 DEF Revert, OnRow, ClicksHold, Occupied
    <3>2. \A q \in Runs : Exists(rows[q]) => Exists(rows'[q])
      <4>1. \/ rows' = rows
            \/ rows' = [rows EXCEPT ![click[a].row] = RevertRefund(@)]
        BY <2>3 DEF Revert
      <4>2. Exists(RevertRefund(rows[click[a].row]))
        BY <3>1, ClickRows
      <4> QED
        BY <3>1, <4>1, <4>2 DEF TypeOK
    <3>3. UNCHANGED <<act, charged, unit>>
      BY <2>3 DEF Revert, money, node
    <3>4. \A q \in Runs : rows[q] = NoRow => rows'[q] = NoRow
      <4>1. rows[click[a].row] # NoRow
        BY <2>3 DEF Revert, OnRow, ClicksHold, Occupied, Exists, NoRow
      <4> QED
        BY <2>3, <3>1, <4>1 DEF Revert, TypeOK
    <3> QED
      BY <3>2, <3>3, <3>4 DEF Holding, HoldsCharge, Billed
  <2>4. CASE Confirm(a)
    <3>1. click[a].row \in Runs
      BY <2>4 DEF Confirm, OnRow, ClicksHold, Occupied
    <3>2. \A q \in Runs : Exists(rows[q]) => Exists(rows'[q])
      <4>1. \/ rows' = rows
            \/ rows' = [rows EXCEPT ![click[a].row] = MarkRefundedFromClaim(@)]
        BY <2>4 DEF Confirm
      <4>2. Exists(MarkRefundedFromClaim(rows[click[a].row]))
        BY <3>1, ClickRows
      <4> QED
        BY <3>1, <4>1, <4>2 DEF TypeOK
    <3>3. UNCHANGED <<act, charged, unit>>
      BY <2>4 DEF Confirm, money, node
    <3>4. \A q \in Runs : rows[q] = NoRow => rows'[q] = NoRow
      <4>1. rows[click[a].row] # NoRow
        BY <2>4 DEF Confirm, OnRow, ClicksHold, Occupied, Exists, NoRow
      <4> QED
        BY <2>4, <3>1, <4>1 DEF Confirm, TypeOK
    <3> QED
      BY <3>2, <3>3, <3>4 DEF Holding, HoldsCharge, Billed
  <2>5. CASE ClickCrash(a)
    BY <2>5 DEF ClickCrash, Holding, HoldsCharge, table, node, money
  <2> QED
    BY <2>1, <2>2, <2>3, <2>4, <2>5 DEF ClickStep
<1>3. CASE SkipDone
  BY <1>3 DEF SkipDone, Holding, HoldsCharge, table, node, money
<1>4. CASE RefusePlan
  BY <1>4 DEF RefusePlan, Holding, HoldsCharge, table, node, money
<1>5. CASE Edit
  BY <1>5 DEF Edit, Holding, HoldsCharge, table, node, money
<1>6. CASE Sweep
  BY <1>6 DEF Sweep, Holding, HoldsCharge, table, node, money
<1>7. CASE UNCHANGED vars
  BY <1>7 DEF Holding, HoldsCharge, vars
<1> QED
  BY <1>1, <1>2, <1>3, <1>4, <1>5, <1>6, <1>7 DEF Next

-----------------------------------------------------------------------------
(* The table and its order *)

LEMMA Frame ==
  ASSUME TypeOK, [Next]_vars
  PROVE  UNCHANGED <<kind, unit, trouble>>
<1>1. CASE \E r \in Runs : Start(r) \/ RunStep(r) \/ Crash(r)
  BY <1>1, RunFrame
<1>2. CASE \E a \in Clicks : ClickStep(a)
  BY <1>2 DEF ClickStep, Claim, ClickPay, Revert, Confirm, ClickCrash, node
<1>3. CASE SkipDone \/ RefusePlan \/ Edit \/ Sweep \/ UNCHANGED vars
  BY <1>3 DEF SkipDone, RefusePlan, Edit, Sweep, node, vars
<1> QED
  BY <1>1, <1>2, <1>3 DEF Next

LEMMA WriteListed ==
  ASSUME TypeOK, Listed, RowsAreTrue, NEW c \in Runs, NEW s \in Statuses, NEW b \in BOOLEAN,
         Write(c, s, b)
  PROVE  Listed'
<1>1. /\ \A d \in Runs \ {c} : rows'[d] = rows[d]
      /\ Exists(rows[c]) => Exists(rows'[c])
  BY WriteRow DEF Exists, Statuses, Row1
<1>2. order \in Seq(Runs)
  BY DEF TypeOK
<1>3. CASE order' = order /\ (rows' = rows \/ Exists(rows[c]))
  BY <1>1, <1>2, <1>3 DEF Listed
<1>4. CASE order' = Append(order, c) /\ ~Exists(rows[c]) /\ rows' # rows
  <2>1. Exists(rows'[c])
    <3>1. rows'[c] = Upserted(rows[c], Row1(s, b))
      BY <1>4, WriteEffect
    <3> QED
      BY <1>4, <3>1 DEF Upserted, Row1, Exists, Statuses
  <2>2. /\ Len(order') = Len(order) + 1 /\ order'[Len(order) + 1] = c
        /\ \A i \in 1..Len(order) : order'[i] = order[i]
        /\ DOMAIN order = 1..Len(order) /\ DOMAIN order' = 1..Len(order') /\ Len(order) \in Nat
    BY <1>2, <1>4
  <2>3. \A i \in DOMAIN order : order[i] # c /\ order[i] \in Runs
    BY <1>2, <1>4 DEF Listed
  <2>4. \A i \in DOMAIN order' : i \in DOMAIN order \/ i = Len(order) + 1
    BY <2>2
  <2>5. \A i \in DOMAIN order' : Exists(rows'[order'[i]])
    BY <1>1, <2>1, <2>2, <2>3, <2>4 DEF Listed
  <2>6. \A i, j \in DOMAIN order' : order'[i] = order'[j] => i = j
    BY <2>2, <2>3, <2>4 DEF Listed
  <2>7. \A d \in Runs : Exists(rows'[d]) => \E i \in DOMAIN order' : order'[i] = d
    <3> SUFFICES ASSUME NEW d \in Runs, Exists(rows'[d])
                 PROVE  \E i \in DOMAIN order' : order'[i] = d
      OBVIOUS
    <3>1. CASE d = c
      BY <2>2, <3>1
    <3>2. CASE d # c
      <4>1. PICK i \in DOMAIN order : order[i] = d
        BY <1>1, <3>2 DEF Listed
      <4>2. i \in DOMAIN order' /\ order'[i] = d
        BY <2>2, <4>1
      <4> QED
        BY <4>2
    <3> QED
      BY <3>1, <3>2
  <2> QED
    BY <2>5, <2>6, <2>7 DEF Listed
<1> QED
  BY <1>3, <1>4, WriteEffect

\* The runs write the row of the charge they hold.
WriteStep(r) ==
  \/ At(r, "submit") /\ Write(act[r].key, "submitted", FALSE)
  \/ At(r, "recordRefund") /\ Write(act[r].key, "refunded", TRUE)
  \/ At(r, "review") /\ Write(act[r].key, "pending_review", FALSE)
  \/ At(r, "deliver") /\ Write(act[r].key, "delivered", FALSE)

LEMMA RunTable ==
  ASSUME TypeOK, NEW r \in Runs, RunStep(r)
  PROVE  WriteStep(r) \/ UNCHANGED <<rows, order>>
<1>1. CASE ReadNode(r)
  BY <1>1 DEF ReadNode, WriteStep, table
<1>2. CASE Check(r)
  BY <1>2 DEF Check, WriteStep, table
<1>3. CASE Charge(r)
  BY <1>3 DEF Charge, WriteStep, table
<1>4. CASE Submit(r)
  BY <1>4 DEF Submit, WriteStep, table
<1>5. CASE Call(r)
  BY <1>5 DEF Call, WriteStep, table
<1>6. CASE Store(r)
  BY <1>6 DEF Store, WriteStep, table
<1>7. CASE Settle(r)
  BY <1>7 DEF Settle, WriteStep, table
<1>8. CASE Pay(r)
  BY <1>8 DEF Pay, WriteStep, table
<1>9. CASE RecordRefund(r)
  BY <1>9 DEF RecordRefund, WriteStep, table
<1>10. CASE Review(r)
  BY <1>10 DEF Review, WriteStep, table
<1>11. CASE Deliver(r)
  BY <1>11 DEF Deliver, WriteStep, table
<1>12. CASE RecordGeneration(r)
  BY <1>12 DEF RecordGeneration, WriteStep, table
<1>13. CASE Hand(r)
  BY <1>13 DEF Hand, WriteStep, table
<1>14. CASE Fail(r)
  BY <1>14 DEF Fail, WriteStep, table
<1> QED
  BY <1>1, <1>2, <1>3, <1>4, <1>5, <1>6, <1>7, <1>8, <1>9, <1>10, <1>11, <1>12, <1>13,
     <1>14 DEF RunStep

\* A row, once there, stays.
LEMMA RowsStay ==
  ASSUME TypeOK, Holding, RowsAreTrue, ClicksHold, [Next]_vars
  PROVE  \A c \in Runs : Exists(rows[c]) => Exists(rows'[c])
<1>1. ASSUME NEW r \in Runs, RunStep(r)
      PROVE  \A c \in Runs : Exists(rows[c]) => Exists(rows'[c])
  <2>1. CASE UNCHANGED <<rows, order>>
    BY <2>1
  <2>2. ASSUME NEW s \in Statuses, NEW b \in BOOLEAN, Write(act[r].key, s, b), act[r].pc \in Billed
        PROVE  \A c \in Runs : Exists(rows[c]) => Exists(rows'[c])
    <3>1. act[r].key \in Runs
      BY <2>2, RunKey
    <3> QED
      BY <2>2, <3>1, WriteRow DEF Exists, Statuses, Row1
  <2> QED
    BY <1>1, <2>1, <2>2, RunTable DEF WriteStep, At, Billed, Working, Statuses
<1>2. CASE \E r \in Runs : Start(r) \/ Crash(r)
  BY <1>2 DEF Start, Crash, table
<1>3. ASSUME NEW a \in Clicks, ClickStep(a)
      PROVE  \A c \in Runs : Exists(rows[c]) => Exists(rows'[c])
  <2>1. CASE Claim(a)
    <3>1. PICK d \in Runs : Claimable(rows[d]) /\ rows' = [rows EXCEPT ![d] = ClaimForRefund(@)]
      BY <2>1 DEF Claim
    <3>2. rows'[d] = [status |-> rows[d].status, refunded |-> TRUE, task |-> None]
      BY <3>1, ClickRows DEF TypeOK
    <3>3. Exists(rows[d]) => Exists(rows'[d])
      BY <3>2 DEF Exists
    <3>4. \A c \in Runs \ {d} : rows'[c] = rows[c]
      BY <3>1 DEF TypeOK
    <3> QED
      BY <3>3, <3>4
  <2>2. CASE Revert(a) \/ Confirm(a)
    <3>1. click[a].row \in Runs
      BY <2>2 DEF Revert, Confirm, OnRow, ClicksHold, Occupied
    <3>2. \/ rows' = rows
          \/ rows' = [rows EXCEPT ![click[a].row] = RevertRefund(@)]
          \/ rows' = [rows EXCEPT ![click[a].row] = MarkRefundedFromClaim(@)]
      BY <2>2 DEF Revert, Confirm
    <3> QED
      BY <3>1, <3>2, ClickRows DEF TypeOK
  <2> QED
    BY <1>3, <2>1, <2>2 DEF ClickStep, ClickPay, ClickCrash, table
<1>4. CASE SkipDone \/ RefusePlan \/ Edit \/ Sweep \/ UNCHANGED vars
  BY <1>4 DEF SkipDone, RefusePlan, Edit, Sweep, table, vars
<1> QED
  BY <1>1, <1>2, <1>3, <1>4 DEF Next

LEMMA ListedStep ==
  ASSUME TypeOK, Holding, Listed, RowsAreTrue, ClicksHold, [Next]_vars
  PROVE  Listed'
<1>1. ASSUME NEW r \in Runs, RunStep(r)
      PROVE  Listed'
  <2>1. CASE UNCHANGED <<rows, order>>
    BY <2>1 DEF Listed
  <2>2. ASSUME NEW s \in Statuses, NEW b \in BOOLEAN, Write(act[r].key, s, b), act[r].pc \in Billed
        PROVE  Listed'
    BY <2>2, RunKey, WriteListed
  <2> QED
    BY <1>1, <2>1, <2>2, RunTable DEF WriteStep, At, Billed, Working, Statuses
<1>2. CASE UNCHANGED <<rows, order>>
  BY <1>2 DEF Listed
<1>3. ASSUME NEW a \in Clicks, Claim(a) \/ Revert(a) \/ Confirm(a)
      PROVE  Listed'
  <2>1. order' = order /\ \A c \in Runs : Exists(rows[c]) => Exists(rows'[c])
    BY <1>3, RowsStay DEF Claim, Revert, Confirm, Next, ClickStep
  <2>2. \A c \in Runs : Exists(rows'[c]) => Exists(rows[c])
    <3>1. CASE Claim(a)
      <4>1. PICK d \in Runs : Claimable(rows[d]) /\ rows' = [rows EXCEPT ![d] = ClaimForRefund(@)]
        BY <3>1 DEF Claim
      <4>2. Exists(rows[d])
        BY <4>1 DEF Claimable, Exists
      <4> QED
        BY <4>1, <4>2 DEF TypeOK
    <3>2. CASE Revert(a) \/ Confirm(a)
      <4>1. click[a].row \in Runs /\ Exists(rows[click[a].row])
        BY <3>2 DEF Revert, Confirm, OnRow, ClicksHold, Occupied
      <4>2. \A c \in Runs : c # click[a].row => rows'[c] = rows[c]
        BY <3>2, <4>1 DEF Revert, Confirm, TypeOK
      <4> QED
        BY <4>1, <4>2
    <3> QED
      BY <1>3, <3>1, <3>2
  <2>3. order \in Seq(Runs)
    BY DEF TypeOK
  <2> QED
    BY <2>1, <2>2, <2>3 DEF Listed
<1> QED
  BY <1>1, <1>2, <1>3 DEF Next, ClickStep, Start, Crash, ClickPay, ClickCrash, SkipDone,
     RefusePlan, Edit, Sweep, table, vars

LEMMA RowsTrueWrite ==
  ASSUME TypeOK, RowsAreTrue, NEW c \in Runs, NEW s \in Statuses, NEW b \in BOOLEAN,
         Write(c, s, b), UNCHANGED <<unit, charged>>, s # "failed", s = "refunded" => b,
         unit > 0 => charged[c] > 0
  PROVE  RowsAreTrue'
<1>1. \A d \in Runs \ {c} : rows'[d] = rows[d]
  BY WriteRow
<1>2. /\ ~Exists(rows'[c]) => rows'[c] = NoRow
      /\ rows'[c].status = "refunded" => rows'[c].refunded
      /\ rows'[c].status # "failed"
  <2>1. CASE ~Exists(rows[c]) /\ rows'[c] = Row1(s, b)
    BY <2>1 DEF Row1, Exists, Statuses
  <2>2. CASE rows'[c].status = s /\ rows'[c].refunded = (rows[c].refunded \/ b)
    <3>1. Exists(rows'[c])
      BY <2>2 DEF Exists, Statuses
    <3> QED
      BY <2>2, <3>1
  <2>3. CASE rows'[c] = rows[c]
    BY <2>3 DEF RowsAreTrue
  <2> QED
    BY <2>1, <2>2, <2>3, WriteRow
<1> QED
  BY <1>1, <1>2 DEF RowsAreTrue

LEMMA RowsTrueStep ==
  ASSUME TypeOK, Fresh, Holding, RowsAreTrue, ClicksHold, [Next]_vars
  PROVE  RowsAreTrue'
<1>0. unit' = unit
  BY Frame
<1>1. ASSUME NEW r \in Runs, RunStep(r)
      PROVE  RowsAreTrue'
  <2>1. CASE Charge(r)
    <3>1. rows' = rows /\ rows[r] = NoRow
      BY <2>1 DEF Charge, At, Fresh, Early, table
    <3>2. charged' = charged \/ charged' = [charged EXCEPT ![r] = Cost]
      BY <2>1 DEF Charge
    <3>3. Cost > 0 => unit > 0
      BY CostNat DEF TypeOK
    <3>4. ~Exists(rows[r])
      BY <3>1 DEF Exists, NoRow
    <3> QED
      BY <1>0, <3>1, <3>2, <3>3, <3>4 DEF RowsAreTrue, TypeOK
  <2>2. CASE ~Charge(r)
    <3>0. charged' = charged
      BY <1>1, <2>2 DEF RunStep, ReadNode, Check, Submit, Call, Store, Settle, Pay,
         RecordRefund,
         Review, Deliver, RecordGeneration, Hand, Fail, money
    <3>1. CASE UNCHANGED <<rows, order>>
      BY <1>0, <3>0, <3>1 DEF RowsAreTrue
    <3>2. ASSUME NEW s \in Statuses, NEW b \in BOOLEAN, Write(act[r].key, s, b),
                 act[r].pc \in Billed, s # "failed", s = "refunded" => b
          PROVE  RowsAreTrue'
      <4>1. HoldsCharge(r) /\ act[r].key \in Runs
        BY <3>2 DEF Holding, HoldsCharge
      <4>2. unit > 0 => charged[act[r].key] > 0
        BY <4>1 DEF HoldsCharge
      <4> QED
        BY <1>0, <3>0, <3>2, <4>1, <4>2, RowsTrueWrite
    <3> QED
      BY <1>1, <3>1, <3>2, RunTable DEF WriteStep, At, Billed, Working, Statuses
  <2> QED
    BY <2>1, <2>2
<1>2. CASE UNCHANGED <<rows, charged>>
  BY <1>0, <1>2 DEF RowsAreTrue
<1>3. ASSUME NEW a \in Clicks, Claim(a)
      PROVE  RowsAreTrue'
  <2>1. PICK d \in Runs : Claimable(rows[d]) /\ rows' = [rows EXCEPT ![d] = ClaimForRefund(@)]
    BY <1>3 DEF Claim
  <2>2. rows'[d] = [status |-> rows[d].status, refunded |-> TRUE, task |-> None]
    BY <2>1, ClickRows DEF TypeOK
  <2>3. Exists(rows[d]) /\ rows[d].status # "failed"
    BY <2>1 DEF Claimable, Exists, RowsAreTrue
  <2>4. charged' = charged /\ \A c \in Runs \ {d} : rows'[c] = rows[c]
    BY <1>3, <2>1 DEF Claim, money, TypeOK
  <2> QED
    BY <1>0, <2>2, <2>3, <2>4 DEF RowsAreTrue, Exists
<1>4. ASSUME NEW a \in Clicks, Revert(a) \/ Confirm(a)
      PROVE  RowsAreTrue'
  <2> DEFINE d == click[a].row
  <2>1. d \in Runs /\ Exists(rows[d])
    BY <1>4 DEF Revert, Confirm, OnRow, ClicksHold, Occupied
  <2>2. \/ rows' = rows
        \/ rows' = [rows EXCEPT ![d] = RevertRefund(@)]
        \/ rows' = [rows EXCEPT ![d] = MarkRefundedFromClaim(@)]
    BY <1>4 DEF Revert, Confirm
  <2>3. charged' = charged
    BY <1>4 DEF Revert, Confirm, money
  <2> HIDE DEF d
  <2>4. rows' = rows \/ rows'[d] = Row1("pending_review", FALSE) \/ rows'[d] = Row1("refunded", TRUE)
    BY <2>1, <2>2, ClickRows DEF TypeOK
  <2>5. \A c \in Runs \ {d} : rows'[c] = rows[c]
    BY <2>1, <2>2 DEF TypeOK
  <2> QED
    BY <1>0, <2>1, <2>3, <2>4, <2>5 DEF RowsAreTrue, Exists, Row1
<1> QED
  BY <1>1, <1>2, <1>3, <1>4 DEF Next, ClickStep, Start, Crash, ClickPay, ClickCrash,
     SkipDone,
     RefusePlan, Edit, Sweep, table, money, vars

-----------------------------------------------------------------------------
(* The bills and the clicks *)

LEMMA RunMoney ==
  ASSUME NEW r \in Runs, RunStep(r)
  PROVE  /\ Charge(r) \/ charged' = charged
         /\ Pay(r) \/ UNCHANGED <<bill, credits>> \/ (Charge(r) /\ bill' = bill)
<1>1. CASE ReadNode(r)
  BY <1>1 DEF ReadNode, money
<1>2. CASE Check(r)
  BY <1>2 DEF Check, money
<1>3. CASE Charge(r)
  BY <1>3 DEF Charge, money
<1>4. CASE Submit(r)
  BY <1>4 DEF Submit, money
<1>5. CASE Call(r)
  BY <1>5 DEF Call, money
<1>6. CASE Store(r)
  BY <1>6 DEF Store, money
<1>7. CASE Settle(r)
  BY <1>7 DEF Settle, money
<1>8. CASE Pay(r)
  BY <1>8 DEF Pay, money
<1>9. CASE RecordRefund(r)
  BY <1>9 DEF RecordRefund, money
<1>10. CASE Review(r)
  BY <1>10 DEF Review, money
<1>11. CASE Deliver(r)
  BY <1>11 DEF Deliver, money
<1>12. CASE RecordGeneration(r)
  BY <1>12 DEF RecordGeneration, money
<1>13. CASE Hand(r)
  BY <1>13 DEF Hand, money
<1>14. CASE Fail(r)
  BY <1>14 DEF Fail, money
<1> QED
  BY <1>1, <1>2, <1>3, <1>4, <1>5, <1>6, <1>7, <1>8, <1>9, <1>10, <1>11, <1>12, <1>13,
     <1>14 DEF RunStep

LEMMA MoveType ==
  ASSUME click \in [Clicks -> ClickStates], NEW a \in Clicks, NEW l, Move(a, l)
  PROVE  /\ click'[a].pc = l /\ click'[a].row = click[a].row
         /\ \A b \in Clicks \ {a} : click'[b] = click[b]
BY DEF Move, ClickStates

\* What was returned stays returned.
LEMMA BillsStay ==
  ASSUME TypeOK, Bills, [Next]_vars
  PROVE  \A p \in Payers : Paid(p) => bill'[p] = bill[p]
<1>1. ASSUME NEW r \in Runs, RunStep(r)
      PROVE  \A p \in Payers : Paid(p) => bill'[p] = bill[p]
  <2>1. CASE Pay(r)
    <3>1. ~Paid(r)
      BY <2>1 DEF Pay, At, Bills, Payers
    <3> QED
      BY <2>1, <3>1 DEF Pay, Returned, TypeOK
  <2> QED
    BY <1>1, <2>1, RunMoney
<1>2. ASSUME NEW a \in Clicks, ClickPay(a)
      PROVE  \A p \in Payers : Paid(p) => bill'[p] = bill[p]
  <2>1. ~Paid(a)
    BY <1>2 DEF ClickPay, OnRow, Bills, Payers
  <2> QED
    BY <1>2, <2>1 DEF ClickPay, Returned, TypeOK
<1>3. CASE bill' = bill
  BY <1>3
<1> QED
  BY <1>1, <1>2, <1>3 DEF Next, ClickStep, Start, Crash, Claim, Revert, Confirm, ClickCrash,
     SkipDone, RefusePlan, Edit, Sweep, money, vars

LEMMA PaidBackStays ==
  ASSUME TypeOK, Bills, [Next]_vars
  PROVE  \A c \in Runs : PaidBack(c) => PaidBack(c)'
<1>1. \A p \in Payers : Paid(p) => bill'[p] = bill[p]
  BY BillsStay
<1>2. \A c \in Runs : c # None
  BY SyncChargeAssumption DEF Payers
<1> QED
  BY <1>1, <1>2 DEF PaidBack, Paid

LEMMA BillsStep ==
  ASSUME TypeOK, Fresh, Holding, Bills, ClicksHold, [Next]_vars
  PROVE  Bills'
<1>0. /\ Runs \cap Clicks = {} /\ \A p \in Payers : p \in Runs \/ p \in Clicks
      /\ None \notin Payers /\ bill \in [Payers -> [charge : MaybeRun, amount : Nat]]
      /\ charged \in [Runs -> Nat] /\ click \in [Clicks -> ClickStates]
      /\ act \in [Runs -> RunStates]
  BY SyncChargeAssumption DEF Payers, TypeOK
<1>1. ASSUME NEW r \in Runs, RunStep(r)
      PROVE  Bills'
  <2>1. /\ \A q \in Runs \ {r} : act'[q] = act[q]
        /\ click' = click
    BY <1>1, RunFrame
  <2>2. /\ act[r].pc = "recordRefund" => act'[r].pc = "ended"
        /\ act[r].pc = "ended" => act'[r].pc = "over"
        /\ act[r].pc # "over"
    BY <1>1, RunMoves DEF Alive, Early
  <2>3. CASE Charge(r)
    <3>1. charged[r] = 0 /\ act[r].pc = "charge"
      BY <2>3 DEF Charge, At, Fresh, Early
    <3>2. bill' = bill /\ \A d \in Runs \ {r} : charged'[d] = charged[d]
      BY <2>3, <1>0 DEF Charge
    <3>3. \A p \in Payers : Paid(p) => bill[p].charge \in Runs \ {r} /\ p # r
      BY <1>0, <3>1 DEF Bills, Paid, MaybeRun
    <3> QED
      BY <1>0, <2>1, <3>2, <3>3 DEF Bills, Paid
  <2>4. CASE Pay(r) /\ bill' # bill
    <3>1. /\ charged' = charged /\ act'[r].pc = "recordRefund"
          /\ bill' = [bill EXCEPT ![r] = [charge |-> act[r].key, amount |-> act[r].amount]]
      BY <2>4, GotoType DEF Pay, Returned, TypeOK, RunLabels
    <3>2. act[r].key \in Runs /\ act[r].amount = charged[act[r].key] /\ act[r].amount > 0
      BY <2>4 DEF Pay, At, Holding, HoldsCharge, Billed, Working
    <3>3. /\ bill'[r] = [charge |-> act[r].key, amount |-> act[r].amount]
          /\ \A p \in Payers \ {r} : bill'[p] = bill[p]
      BY <1>0, <3>1 DEF Payers
    <3> QED
      BY <1>0, <2>1, <3>1, <3>2, <3>3 DEF Bills, Paid
  <2>5. CASE bill' = bill /\ charged' = charged
    <3>1. \A p \in Runs : Paid(p) => act'[p].pc \in {"recordRefund", "ended", "over"}
      BY <2>1, <2>2 DEF Bills, Payers
    <3> QED
      BY <2>1, <2>5, <3>1 DEF Bills, Paid
  <2> QED
    BY <1>1, <2>3, <2>4, <2>5, RunMoney DEF Pay
<1>2. ASSUME NEW r \in Runs, Start(r) \/ Crash(r)
      PROVE  Bills'
  <2>1. UNCHANGED <<bill, charged, click>> /\ \A q \in Runs \ {r} : act'[q] = act[q]
    BY <1>2, RunFrame DEF Start, Crash, money
  <2>2. act'[r].pc = "over" \/ act[r].pc = "idle"
    BY <1>2, LeaveType DEF Start, Crash, At, TypeOK
  <2> QED
    BY <2>1, <2>2 DEF Bills, Paid, Payers
<1>3. ASSUME NEW a \in Clicks, ClickStep(a)
      PROVE  Bills'
  <2>1. act' = act /\ charged' = charged
    BY <1>3 DEF ClickStep, Claim, ClickPay, Revert, Confirm, ClickCrash, money
  <2>2. \A b \in Clicks \ {a} : click'[b] = click[b]
    BY <1>3, <1>0 DEF ClickStep, Claim, ClickPay, Revert, Confirm, ClickCrash, Move
  <2>3. CASE ClickPay(a) /\ bill' # bill
    <3>1. bill' = [bill EXCEPT ![a] = [charge |-> click[a].row, amount |-> charged[click[a].row]]]
      BY <2>3 DEF ClickPay, Returned
    <3>2. click'[a].pc = "confirming"
      <4>1. Move(a, "confirming") \/ (Move(a, "reverting") /\ bill' = bill)
        BY <2>3 DEF ClickPay
      <4> QED
        BY <1>0, <2>3, <4>1, MoveType
    <3>3. click[a].row \in Runs /\ charged[click[a].row] > 0
      BY <2>3 DEF ClickPay, OnRow, ClicksHold, Occupied
    <3>4. /\ bill'[a] = [charge |-> click[a].row, amount |-> charged[click[a].row]]
          /\ \A p \in Payers \ {a} : bill'[p] = bill[p]
      BY <1>0, <3>1 DEF Payers
    <3> QED
      BY <1>0, <2>1, <2>2, <3>2, <3>3, <3>4 DEF Bills, Paid
  <2>4. CASE bill' = bill
    <3>1. Paid(a) => click'[a].pc \in {"confirming", "done"}
      <4>1. Paid(a) => click[a].pc \in {"confirming", "done"}
        BY <1>0 DEF Bills, Payers
      <4>2. click[a].pc = "confirming" \/ click[a].pc = "done" => click'[a].pc = "done"
        <5>1. \/ click[a].pc \in {"idle", "paying", "reverting"}
              \/ click[a].pc = "confirming" /\ Move(a, "done")
          BY <1>3, <1>0 DEF ClickStep, Claim, ClickPay, Revert, Confirm, ClickCrash, OnRow,
             ClickStates
        <5> QED
          BY <1>0, <5>1, MoveType
      <4> QED
        BY <4>1, <4>2
    <3> QED
      BY <1>0, <2>1, <2>2, <2>4, <3>1 DEF Bills, Paid
  <2> QED
    BY <1>3, <2>3, <2>4 DEF ClickStep, Claim, Revert, Confirm, ClickCrash, money
<1>4. CASE UNCHANGED <<bill, charged, act, click>>
  BY <1>4 DEF Bills, Paid
<1> QED
  BY <1>1, <1>2, <1>3, <1>4 DEF Next, SkipDone, RefusePlan, Edit, Sweep, money, vars

\* A run never takes a refund back from a row.
LEMMA RunKeepsRefunds ==
  ASSUME TypeOK, Holding, RowsAreTrue, NEW r \in Runs, RunStep(r)
  PROVE  \A c \in Runs : rows[c].refunded => rows'[c].refunded
<1>1. CASE UNCHANGED <<rows, order>>
  BY <1>1
<1>2. ASSUME NEW s \in Statuses, NEW b \in BOOLEAN, Write(act[r].key, s, b), act[r].pc \in Billed
      PROVE  \A c \in Runs : rows[c].refunded => rows'[c].refunded
  <2>1. act[r].key \in Runs
    BY <1>2, RunKey
  <2>2. ~Exists(rows[act[r].key]) => ~rows[act[r].key].refunded
    BY <2>1 DEF RowsAreTrue, NoRow
  <2> QED
    BY <1>2, <2>1, <2>2, WriteRow
<1> QED
  BY <1>1, <1>2, RunTable DEF WriteStep, At, Billed, Working, Statuses

LEMMA ClicksHoldStep ==
  ASSUME TypeOK, Fresh, Holding, RowsAreTrue, Bills, ClicksHold, [Next]_vars
  PROVE  ClicksHold'
<1>0. /\ Runs \cap Clicks = {} /\ click \in [Clicks -> ClickStates]
      /\ bill \in [Payers -> [charge : MaybeRun, amount : Nat]]
      /\ charged \in [Runs -> Nat] /\ rows \in [Runs -> Row({})]
  BY SyncChargeAssumption DEF TypeOK
<1>t. trouble' = trouble
  BY Frame
<1>1. ASSUME NEW r \in Runs, RunStep(r)
      PROVE  ClicksHold'
  <2>1. click' = click
    BY <1>1, RunFrame
  <2>2. \A c \in Runs : /\ Exists(rows[c]) => Exists(rows'[c])
                        /\ rows[c].refunded => rows'[c].refunded
    BY <1>1, RowsStay, RunKeepsRefunds DEF Next
  <2>3. \A c \in Runs : Exists(rows[c]) => charged'[c] = charged[c]
    <3>1. CASE Charge(r)
      <4>1. ~Exists(rows[r])
        <5>1. rows[r] = NoRow
          BY <3>1 DEF Charge, At, Fresh, Early
        <5> QED
          BY <5>1 DEF Exists, NoRow
      <4>2. charged' = charged \/ charged' = [charged EXCEPT ![r] = Cost]
        BY <3>1 DEF Charge
      <4> QED
        BY <1>0, <4>1, <4>2
    <3> QED
      BY <1>1, <3>1, RunMoney
  <2>4. \A a \in Clicks : bill'[a] = bill[a]
    <3>1. CASE Pay(r)
      <4>1. bill' = bill \/ bill' = [bill EXCEPT ![r] = [charge |-> act[r].key,
                                                        amount |-> act[r].amount]]
        BY <3>1 DEF Pay, Returned
      <4> QED
        BY <1>0, <4>1 DEF Payers
    <3> QED
      BY <1>1, <3>1, RunMoney
  <2> QED
    BY <1>t, <2>1, <2>2, <2>3, <2>4 DEF ClicksHold, Occupied
<1>2. CASE UNCHANGED <<rows, charged, bill, click>>
  BY <1>t, <1>2 DEF ClicksHold, Occupied
<1>3. ASSUME NEW a \in Clicks, Claim(a)
      PROVE  ClicksHold'
  <2>1. PICK c \in Runs :
          /\ Claimable(rows[c]) /\ rows' = [rows EXCEPT ![c] = ClaimForRefund(@)]
          /\ click' = [click EXCEPT ![a] =
                         [pc |-> IF charged[c] = 0 THEN "reverting" ELSE "paying", row |-> c]]
    BY <1>3 DEF Claim
  <2>2. rows'[c] = [status |-> rows[c].status, refunded |-> TRUE, task |-> None]
    BY <2>1, ClickRows DEF TypeOK
  <2>3. Exists(rows'[c]) /\ rows'[c].refunded /\ ~rows[c].refunded
    BY <2>1, <2>2 DEF Exists, Claimable
  <2>4. \A d \in Runs \ {c} : rows'[d] = rows[d]
    BY <1>0, <2>1
  <2>5. /\ click'[a].pc = (IF charged[c] = 0 THEN "reverting" ELSE "paying")
        /\ click'[a].row = c /\ \A b \in Clicks \ {a} : click'[b] = click[b]
    BY <1>0, <2>1
  <2>6. charged' = charged /\ bill' = bill /\ charged[c] \in Nat
    BY <1>3, <1>0 DEF Claim, money
  <2>7. \A b \in Clicks \ {a} : Occupied(b) => click[b].row \in Runs \ {c}
    BY <2>3 DEF ClicksHold
  <2> QED
    BY <1>t, <2>3, <2>4, <2>5, <2>6, <2>7 DEF ClicksHold, Occupied
<1>4. ASSUME NEW a \in Clicks, ClickPay(a)
      PROVE  ClicksHold'
  <2>1. rows' = rows /\ charged' = charged /\ Occupied(a) /\ click[a].pc = "paying"
    BY <1>4 DEF ClickPay, table, OnRow, Occupied
  <2>2. \A b \in Clicks \ {a} : bill'[b] = bill[b] /\ click'[b] = click[b]
    <3>1. \/ bill' = bill
          \/ bill' = [bill EXCEPT ![a] = [charge |-> click[a].row,
                                         amount |-> charged[click[a].row]]]
      BY <1>4 DEF ClickPay, Returned
    <3>2. \/ click' = [click EXCEPT ![a].pc = "confirming"]
          \/ click' = [click EXCEPT ![a].pc = "reverting"]
      BY <1>4 DEF ClickPay, Move
    <3> QED
      BY <1>0, <3>1, <3>2 DEF Payers
  <2>3. /\ click'[a].row = click[a].row
        /\ \/ click'[a].pc = "confirming" /\ bill'[a].charge = click[a].row
           \/ click'[a].pc = "reverting" /\ trouble = "pay"
    BY <1>0, <1>4 DEF ClickPay, Returned, Move, Strikes, Payers, ClickStates
  <2> QED
    BY <1>t, <2>1, <2>2, <2>3 DEF ClicksHold, Occupied
<1>5. ASSUME NEW a \in Clicks, Revert(a) \/ Confirm(a) \/ ClickCrash(a)
      PROVE  ClicksHold'
  <2>1. charged' = charged /\ bill' = bill /\ click'[a].pc = "done" /\ Occupied(a)
    BY <1>0, <1>5 DEF Revert, Confirm, ClickCrash, Move, money, OnRow, Occupied, ClickStates
  <2>2. \A b \in Clicks \ {a} : click'[b] = click[b]
    BY <1>0, <1>5 DEF Revert, Confirm, ClickCrash, Move
  <2>3. click[a].row \in Runs
    BY <2>1 DEF ClicksHold
  <2>4. \A d \in Runs : d # click[a].row => rows'[d] = rows[d]
    BY <1>0, <1>5, <2>3 DEF Revert, Confirm, ClickCrash, table
  <2>5. \A b \in Clicks \ {a} : Occupied(b) => click[b].row \in Runs /\ click[b].row # click[a].row
    BY <2>1 DEF ClicksHold
  <2> QED
    BY <1>t, <2>1, <2>2, <2>4, <2>5 DEF ClicksHold, Occupied
<1> QED
  BY <1>1, <1>2, <1>3, <1>4, <1>5 DEF Next, ClickStep, Start, Crash, SkipDone, RefusePlan,
     Edit,
     Sweep, table, money, vars

LEMMA BaseStep ==
  ASSUME TypeOK, Base, [Next]_vars
  PROVE  TypeOK' /\ Base'
BY TypeStep, SerialStep, FreshStep, HoldingStep, ListedStep, RowsTrueStep, BillsStep,
   ClicksHoldStep DEF Base

-----------------------------------------------------------------------------
(* While every write lands: what the rows tell of the refunds *)

\* The only run alive.
LEMMA Alone ==
  ASSUME Serial, NEW r \in Runs, Alive(r)
  PROVE  \A q \in Runs \ {r} : act[q].pc \in {"idle", "over"}
BY DEF Serial, Alive

\* A bill is added by a run that pays or by a click.
LEMMA RunBills ==
  ASSUME TypeOK, NEW r \in Runs, RunStep(r), NEW c \in Runs, PaidBack(c)'
  PROVE  \/ PaidBack(c)
         \/ At(r, "pay") /\ At(r, "recordRefund")' /\ act[r].key = c /\ act'[r].key = c
<1>1. CASE Pay(r) /\ bill' # bill
  <2>1. /\ bill' = [bill EXCEPT ![r] = [charge |-> act[r].key, amount |-> act[r].amount]]
        /\ Goto(r, "recordRefund") /\ At(r, "pay")
    BY <1>1 DEF Pay, Returned
  <2>2. act'[r].pc = "recordRefund" /\ act'[r].key = act[r].key
    BY <2>1, GotoType DEF TypeOK, RunLabels
  <2>3. /\ bill'[r] = [charge |-> act[r].key, amount |-> act[r].amount]
        /\ \A p \in Payers \ {r} : bill'[p] = bill[p]
    BY <2>1 DEF Payers, TypeOK
  <2> QED
    BY <2>1, <2>2, <2>3 DEF PaidBack, At
<1> QED
  BY <1>1, RunMoney DEF PaidBack

\* What the writes of a run leave when none is lost.
LEMMA RunWrites ==
  ASSUME TypeOK, Holding, RowsAreTrue, trouble # "record", NEW r \in Runs, WriteStep(r)
  PROVE  /\ act[r].key \in Runs
         /\ \A d \in Runs \ {act[r].key} : rows'[d] = rows[d]
         /\ At(r, "submit") => ~Claimable(rows'[act[r].key])
         /\ At(r, "recordRefund") => rows'[act[r].key].refunded
         /\ ~Exists(rows[act[r].key]) => Exists(rows'[act[r].key])
<1>1. act[r].key \in Runs
  BY RunKey DEF WriteStep, At, Billed, Working
<1> DEFINE c == act[r].key
<1> HIDE DEF c
<1>2. c \in Runs
  BY <1>1 DEF c
<1>3. ASSUME Write(c, "submitted", FALSE)
      PROVE  ~Claimable(rows'[c])
  <2>1. CASE rows'[c] = Row1("submitted", FALSE)
    BY <2>1 DEF Row1, Claimable
  <2>2. CASE rows'[c].status = "submitted"
    BY <2>2 DEF Claimable
  <2>3. CASE rows'[c] = rows[c] /\ ~Writable(rows[c], "submitted")
    BY <1>2, <2>3 DEF Claimable, Writable, RowsAreTrue
  <2> QED
    BY <1>2, <1>3, <2>1, <2>2, <2>3, WriteRow DEF Statuses
<1>4. ASSUME Write(c, "refunded", TRUE)
      PROVE  rows'[c].refunded
  <2>1. CASE rows'[c] = Row1("refunded", TRUE)
    BY <2>1 DEF Row1
  <2>2. CASE rows'[c].refunded = (rows[c].refunded \/ TRUE)
    BY <2>2
  <2>3. CASE rows'[c] = rows[c] /\ ~Writable(rows[c], "refunded")
    BY <1>2, <2>3 DEF Writable, RowsAreTrue
  <2> QED
    BY <1>2, <1>4, <2>1, <2>2, <2>3, WriteRow DEF Statuses
<1>5. ASSUME NEW s \in Statuses, NEW b \in BOOLEAN, Write(c, s, b)
      PROVE  /\ \A d \in Runs \ {c} : rows'[d] = rows[d]
             /\ ~Exists(rows[c]) => Exists(rows'[c])
  <2>1. CASE rows'[c] = Row1(s, b)
    BY <1>2, <1>5, <2>1, WriteRow DEF Exists, Row1, Statuses
  <2>2. CASE Exists(rows[c])
    BY <1>2, <1>5, <2>2, WriteRow
  <2> QED
    BY <1>2, <1>5, <2>1, <2>2, WriteRow
<1>6. /\ \A d \in Runs \ {c} : rows'[d] = rows[d]
      /\ ~Exists(rows[c]) => Exists(rows'[c])
  BY <1>5 DEF WriteStep, c, Statuses
<1> QED
  BY <1>2, <1>3, <1>4, <1>6 DEF WriteStep, At, c

LEMMA CheckKey ==
  ASSUME TypeOK, NEW r \in Runs, Check(r), act'[r].pc = "submit"
  PROVE  act'[r].key \in Runs /\ Reusable(act'[r].key) /\ act'[r].amount = charged[act'[r].key]
<1>0. act \in [Runs -> RunStates] /\ charged \in [Runs -> Nat]
  BY DEF TypeOK
<1>1. ~Goto(r, "charge")
  BY GotoType DEF TypeOK, RunLabels
<1>2. PICK c \in Runs :
        /\ Reusable(c)
        /\ act' = [act EXCEPT ![r] = [@ EXCEPT !.pc = "submit", !.key = c,
                                               !.amount = charged[c]]]
  BY <1>1 DEF Check
<1> DEFINE s == [act[r] EXCEPT !.pc = "submit", !.key = c, !.amount = charged[c]]
<1>3. act'[r] = s
  BY <1>0, <1>2
<1>4. s.key = c /\ s.amount = charged[c]
  BY <1>0 DEF RunStates
<1> QED
  BY <1>2, <1>3, <1>4

LEMMA ChargeKey ==
  ASSUME TypeOK, NEW r \in Runs, Charge(r), act'[r].pc = "submit"
  PROVE  /\ act'[r].key = r /\ act'[r].amount = Cost
         /\ charged'[r] = Cost /\ \A d \in Runs \ {r} : charged'[d] = charged[d]
<1>0. act \in [Runs -> RunStates] /\ charged \in [Runs -> Nat] /\ Cost \in Nat
  BY CostNat DEF TypeOK
<1>1. ~Goto(r, "ended")
  BY GotoType DEF TypeOK, RunLabels
<1>2. /\ act' = [act EXCEPT ![r] = [@ EXCEPT !.pc = "submit", !.key = r, !.amount = Cost]]
      /\ charged' = [charged EXCEPT ![r] = Cost]
  BY <1>1 DEF Charge
<1> DEFINE s == [act[r] EXCEPT !.pc = "submit", !.key = r, !.amount = Cost]
<1>3. act'[r] = s
  BY <1>0, <1>2
<1>4. s.key = r /\ s.amount = Cost
  BY <1>0 DEF RunStates
<1>5. charged'[r] = Cost /\ \A d \in Runs \ {r} : charged'[d] = charged[d]
  BY <1>0, <1>2
<1> QED
  BY <1>3, <1>4, <1>5

\* The key of a run about to write its row: one that is neither returned nor claimed.
LEMMA SubmitKey ==
  ASSUME TypeOK, Fresh, NEW r \in Runs, RunStep(r), act'[r].pc = "submit"
  PROVE  \/ Check(r) /\ Reusable(act'[r].key)
         \/ Charge(r) /\ act'[r].key = r /\ rows[r] = NoRow
<1>1. act[r].pc \in {"check", "charge"}
  BY RunMoves DEF Alive, At, RunStates, RunLabels, TypeOK, Billed, Working
<1>2. Check(r) \/ Charge(r)
  BY <1>1 DEF RunStep, ReadNode, Submit, Call, Store, Settle, Pay, RecordRefund, Review,
     Deliver,
     RecordGeneration, Hand, Fail, At
<1>3. CASE Check(r)
  BY <1>3, CheckKey
<1>4. CASE Charge(r)
  BY <1>4, ChargeKey DEF Charge, At, Fresh, Early
<1> QED
  BY <1>2, <1>3, <1>4

LEMMA ReusableRow ==
  ASSUME NEW c \in Runs, Reusable(c)
  PROVE  Outstanding(rows[c]) /\ charged[c] > 0 /\ ~rows[c].refunded /\ Exists(rows[c])
BY DEF Reusable, IsNewestOutstanding, Outstanding

LEMMA RowsTellRefundsStep ==
  ASSUME TypeOK, Base, RowsTellRefunds, RowsFollowRuns, [Next]_vars
  PROVE  RowsTellRefunds'
<1> USE DEF Base
<1>t. trouble' = trouble
  BY Frame
<1> SUFFICES ASSUME Recorded
             PROVE  RowsTellRefunds'
  BY <1>t DEF RowsTellRefunds, Recorded
<1>u. trouble # "record" /\ trouble # "unsettled"
  BY DEF Recorded
<1>p. \A c \in Runs : PaidBack(c) => PaidBack(c)'
  BY PaidBackStays
<1>1. ASSUME NEW r \in Runs, RunStep(r)
      PROVE  RowsTellRefunds'
  <2>1. /\ \A q \in Runs \ {r} : act'[q] = act[q] /\ act[q].pc \in {"idle", "over"}
        /\ click' = click /\ Alive(r)
    BY <1>1, RunFrame, RunMoves, Alone
  <2>2. \A c \in Runs : rows[c].refunded => rows'[c].refunded
    BY <1>1, RunKeepsRefunds
  <2>3. \A c \in Runs : PaidBack(c)' =>
          rows'[c].refunded \/ \E q \in Runs : At(q, "recordRefund")' /\ act'[q].key = c
    <3> SUFFICES ASSUME NEW c \in Runs, PaidBack(c)'
                 PROVE  rows'[c].refunded \/ \E q \in Runs : At(q, "recordRefund")' /\ act'[q].key = c
      OBVIOUS
    <3>1. CASE PaidBack(c)
      <4>1. CASE rows[c].refunded
        BY <2>2, <4>1
      <4>2. CASE \E q \in Runs : At(q, "recordRefund") /\ act[q].key = c
        <5>1. At(r, "recordRefund") /\ act[r].key = c
          BY <2>1, <4>2 DEF At
        <5>2. RecordRefund(r)
          BY <1>1, <5>1 DEF RunStep, ReadNode, Check, Charge, Submit, Call, Store, Settle,
             Pay, Review,
             Deliver, RecordGeneration, Hand, Fail, At
        <5>3. WriteStep(r)
          BY <5>2 DEF RecordRefund, WriteStep
        <5> QED
          BY <1>u, <5>1, <5>3, RunWrites
      <4> QED
        BY <3>1, <4>1, <4>2 DEF RowsTellRefunds
    <3>2. CASE ~PaidBack(c)
      BY <1>1, <3>2, RunBills
    <3> QED
      BY <3>1, <3>2
  <2>4. \A a \in Clicks : click[a].pc \in {"paying", "reverting"} => ~PaidBack(click[a].row)'
    <3> SUFFICES ASSUME NEW a \in Clicks, click[a].pc \in {"paying", "reverting"},
                        PaidBack(click[a].row)'
                 PROVE  FALSE
      OBVIOUS
    <3>1. click[a].row \in Runs /\ rows[click[a].row].refunded
      BY DEF ClicksHold, Occupied
    <3>2. ~PaidBack(click[a].row)
      BY DEF RowsTellRefunds
    <3>3. At(r, "pay") /\ act[r].key = click[a].row
      <4>1. \A c \in Runs : (\E p \in Payers : bill'[p].charge = c) =>
              PaidBack(c) \/ (At(r, "pay") /\ act[r].key = c)
        BY <1>1, RunBills DEF PaidBack
      <4>2. \E p \in Payers : bill'[p].charge = click[a].row
        BY <2>1 DEF PaidBack
      <4> QED
        BY <3>1, <3>2, <4>1, <4>2
    <3> QED
      BY <3>1, <3>3 DEF RowsTellRefunds
  <2>5. \A a \in Clicks : click[a].pc = "reverting" /\ act'[r].pc \in Working \cup {"submit"} =>
          act'[r].key # click[a].row
    <3> SUFFICES ASSUME NEW a \in Clicks, click[a].pc = "reverting",
                        act'[r].pc \in Working \cup {"submit"}, act'[r].key = click[a].row
                 PROVE  FALSE
      OBVIOUS
    <3>1. click[a].row \in Runs /\ rows[click[a].row].refunded /\ Exists(rows[click[a].row])
      BY DEF ClicksHold, Occupied
    <3>2. CASE act[r].pc \in Working \cup {"submit"}
      <4>1. act[r].key = click[a].row
        BY <1>1, <3>2, RunMoves DEF Billed
      <4> QED
        BY <3>2, <4>1 DEF RowsTellRefunds
    <3>3. CASE act[r].pc \notin Working \cup {"submit"}
      <4>1. act'[r].pc = "submit"
        BY <1>1, <3>3, RunMoves DEF Working, Early, Alive, RunStates, RunLabels, TypeOK, At
      <4>2. Reusable(act'[r].key) \/ (act'[r].key = r /\ rows[r] = NoRow)
        BY <1>1, <4>1, SubmitKey
      <4>3. Reusable(click[a].row) \/ rows[click[a].row] = NoRow
        BY <4>2
      <4> QED
        BY <3>1, <4>3, ReusableRow DEF NoRow
    <3> QED
      BY <3>2, <3>3
  <2>6. act'[r].pc \in Working => ~Claimable(rows'[act'[r].key])
    <3> SUFFICES ASSUME act'[r].pc \in Working
                 PROVE  ~Claimable(rows'[act'[r].key])
      OBVIOUS
    <3>1. act[r].pc \in Working \cup {"submit"} /\ act'[r].key = act[r].key
      BY <1>1, RunMoves DEF Working, Billed, Early, Alive, RunStates, RunLabels, TypeOK, At
    <3>2. CASE act[r].pc = "submit"
      <4>1. WriteStep(r)
        BY <1>1, <3>2 DEF RunStep, ReadNode, Check, Charge, Submit, Call, Store, Settle,
           Pay, Review,
             RecordRefund, Deliver, RecordGeneration, Hand, Fail, At, WriteStep
      <4> QED
        BY <1>u, <3>1, <3>2, <4>1, RunWrites DEF At
    <3>3. CASE act[r].pc \in Working
      <4>1. act[r].pc \notin {"recordRefund", "review", "deliver", "submit"}
        BY <1>1, <3>3, RunMoves DEF Working
      <4>2. rows' = rows
        BY <1>1, <4>1, RunTable DEF WriteStep, At
      <4>3. ~Claimable(rows[act[r].key])
        BY <3>3 DEF RowsTellRefunds
      <4> QED
        BY <3>1, <4>2, <4>3
    <3> QED
      BY <3>1, <3>2, <3>3
  <2>7. act'[r].pc = "pay" => ~rows'[act'[r].key].refunded
    <3> SUFFICES ASSUME act'[r].pc = "pay"
                 PROVE  ~rows'[act'[r].key].refunded
      OBVIOUS
    <3>1. act[r].pc = "settle" /\ act'[r].key = act[r].key
      BY <1>1, RunMoves DEF Working, Billed, Early, Alive, RunStates, RunLabels, TypeOK, At
    <3>2. Settle(r)
      BY <1>1, <3>1 DEF RunStep, ReadNode, Check, Charge, Submit, Call, Store, Pay, Review,
             RecordRefund, Deliver, RecordGeneration, Hand, Fail, At
    <3>3. ~AlreadyRefunded(rows[act[r].key])
      <4>1. CASE Goto(r, "recordRefund") \/ Goto(r, "review")
        BY <4>1, GotoType DEF TypeOK, RunLabels
      <4>2. CASE act' = [act EXCEPT ![r] = [@ EXCEPT !.pc = "review", !.final = TRUE]]
        BY <4>2, FinalType DEF TypeOK
      <4> QED
        BY <3>2, <4>1, <4>2 DEF Settle
    <3>4. act[r].key \in Runs
      BY <3>1, RunKey DEF Billed, Working
    <3>5. ~rows[act[r].key].refunded
      BY <3>3, <3>4 DEF AlreadyRefunded, RowsAreTrue, NoRow
    <3> QED
      BY <3>1, <3>2, <3>5 DEF Settle, table
    \*
  <2> QED
    BY <1>t, <2>1, <2>3, <2>4, <2>5, <2>6, <2>7 DEF RowsTellRefunds, Recorded, At, Working
<1>2. ASSUME NEW r \in Runs, Start(r) \/ Crash(r)
      PROVE  RowsTellRefunds'
  <2>1. UNCHANGED <<rows, bill, click>> /\ \A q \in Runs \ {r} : act'[q] = act[q]
    BY <1>2, RunFrame DEF Start, Crash, table, money
  <2>2. act[r].pc # "recordRefund"
    BY <1>2, <1>u DEF Start, Crash, At, Strikes
  <2>3. act'[r].pc \in {"read", "over"}
    BY <1>2, GotoType, LeaveType DEF Start, Crash, TypeOK, RunLabels
  <2> QED
    BY <1>t, <2>1, <2>2, <2>3 DEF RowsTellRefunds, Recorded, At, PaidBack, Working
<1>3. ASSUME NEW a \in Clicks, ClickStep(a)
      PROVE  RowsTellRefunds'
  <2>0. click \in [Clicks -> ClickStates] /\ rows \in [Runs -> Row({})] /\ act' = act
    BY <1>3 DEF TypeOK, ClickStep, Claim, ClickPay, Revert, Confirm, ClickCrash
  <2>1. CASE Claim(a)
    <3>1. PICK c \in Runs :
          /\ Claimable(rows[c]) /\ rows' = [rows EXCEPT ![c] = ClaimForRefund(@)]
          /\ click' = [click EXCEPT ![a] =
                         [pc |-> IF charged[c] = 0 THEN "reverting" ELSE "paying", row |-> c]]
      BY <2>1 DEF Claim
    <3>2. rows'[c].refunded /\ \A d \in Runs \ {c} : rows'[d] = rows[d]
      <4>1. rows'[c] = [status |-> rows[c].status, refunded |-> TRUE, task |-> None]
        BY <2>0, <3>1, ClickRows
      <4> QED
        BY <2>0, <3>1, <4>1
    <3>3. /\ click'[a].pc = (IF charged[c] = 0 THEN "reverting" ELSE "paying")
          /\ click'[a].row = c /\ \A b \in Clicks \ {a} : click'[b] = click[b]
      BY <2>0, <3>1
    <3>4. bill' = bill /\ ~rows[c].refunded /\ ~Claimable(rows'[c])
      BY <2>1, <3>1, <3>2 DEF Claim, money, Claimable
    <3>5. \A r \in Runs : act[r].pc \in Working => act[r].key # c
      BY <3>1 DEF RowsTellRefunds
    <3>6. ~PaidBack(c)
      BY <3>4, <3>5 DEF RowsTellRefunds, At, Working
    <3>7. \A r \in Runs : charged[c] = 0 /\ act[r].pc = "submit" => act[r].key # c
      <4>1. rows[c] # NoRow
        BY <3>1 DEF Claimable, NoRow
      <4> QED
        BY <4>1 DEF Holding, HoldsCharge, Billed
    <3>8. \A r \in Runs : act[r].pc \in Working => act[r].key \in Runs
      BY RunKey DEF Billed
    <3> QED
      BY <1>t, <2>0, <3>2, <3>3, <3>4, <3>5, <3>6, <3>7, <3>8 DEF RowsTellRefunds,
         Recorded, At,
         PaidBack, Working
  <2>2. CASE ClickPay(a)
    <3>1. rows' = rows /\ click[a].pc = "paying"
      BY <2>2 DEF ClickPay, table, OnRow
    <3>2. click[a].row \in Runs /\ rows[click[a].row].refunded
      BY <3>1 DEF ClicksHold, Occupied
    <3>3. /\ \A b \in Clicks \ {a} : click'[b] = click[b]
          /\ click'[a].row = click[a].row
          /\ \/ click'[a].pc = "confirming"
             \/ click'[a].pc = "reverting" /\ trouble = "pay" /\ bill' = bill
      BY <2>0, <2>2, MoveType DEF ClickPay, Strikes
    <3>4. \A c \in Runs : PaidBack(c)' => PaidBack(c) \/ c = click[a].row
      <4>1. \/ bill' = bill
            \/ bill' = [bill EXCEPT ![a] = [charge |-> click[a].row,
                                           amount |-> charged[click[a].row]]]
        BY <2>2 DEF ClickPay, Returned
      <4>2. \A p \in Payers : bill'[p] = bill[p] \/ bill'[p].charge = click[a].row
        BY <4>1 DEF TypeOK, Payers
      <4> QED
        BY <4>2 DEF PaidBack
    <3>5. \A b \in Clicks \ {a} : Occupied(b) => click[b].row \in Runs /\ click[b].row # click[a].row
      BY <3>1 DEF ClicksHold, Occupied
    <3>6. trouble = "pay" =>
            \A r \in Runs : act[r].pc \in Working \cup {"submit"} => act[r].key # click[a].row
      <4> SUFFICES ASSUME trouble = "pay", NEW r \in Runs, act[r].pc \in Working \cup {"submit"},
                          act[r].key = click[a].row
                   PROVE  FALSE
        OBVIOUS
      <4>1. (act[r].key = r /\ rows[r] = NoRow) \/ Fixed(rows[act[r].key])
        BY DEF RowsFollowRuns, RunFollowed, NotRepeated, At
      <4> QED
        BY <3>2, <4>1 DEF NoRow, Fixed, Row1
    <3>7. bill' = bill => \A c \in Runs : PaidBack(c)' => PaidBack(c)
      BY DEF PaidBack
    <3>8. /\ \A c \in Runs : PaidBack(c)' => rows[c].refunded
                 \/ \E q \in Runs : At(q, "recordRefund") /\ act[q].key = c
      BY <3>2, <3>4 DEF RowsTellRefunds
    <3>9. \A b \in Clicks : click'[b].pc \in {"paying", "reverting"} => ~PaidBack(click[b].row)'
      <4> SUFFICES ASSUME NEW b \in Clicks, click'[b].pc \in {"paying", "reverting"}
                   PROVE  ~PaidBack(click[b].row)'
        OBVIOUS
      <4>1. CASE b = a
        <5>1. bill' = bill /\ click'[a].row = click[a].row
          BY <3>3, <4>1
        <5>2. ~\E p \in Payers : bill[p].charge = click[a].row
          BY <3>1 DEF RowsTellRefunds, PaidBack
        <5>3. ~\E p \in Payers : bill'[p].charge = click'[a].row
          BY <5>1, <5>2
        <5> QED
          BY <4>1, <5>3 DEF PaidBack
      <4>2. CASE b # a
        <5>1. click'[b] = click[b] /\ click[b].pc \in {"paying", "reverting"}
          BY <3>3, <4>2
        <5>2. ~PaidBack(click[b].row) /\ click[b].row \in Runs /\ click[b].row # click[a].row
          BY <3>5, <4>2, <5>1 DEF RowsTellRefunds, Occupied
        <5>3. \A c \in Runs : (\E p \in Payers : bill'[p].charge = c) =>
                PaidBack(c) \/ c = click[a].row
          BY <3>4 DEF PaidBack
        <5>4. ~\E p \in Payers : bill'[p].charge = click[b].row
          BY <5>2, <5>3
        <5> QED
          BY <5>1, <5>4 DEF PaidBack
      <4> QED
        BY <4>1, <4>2
    <3>a. \A b \in Clicks, r \in Runs :
            click'[b].pc = "reverting" /\ act[r].pc \in Working \cup {"submit"} =>
              act[r].key # click'[b].row
      BY <3>1, <3>3, <3>6 DEF RowsTellRefunds
    <3>b. \A c \in Runs : PaidBack(c)' => rows'[c].refunded
            \/ \E q \in Runs : At(q, "recordRefund")' /\ act'[q].key = c
      BY <2>0, <3>1, <3>8 DEF At
    <3>c. \A r \in Runs :
            /\ act'[r].pc \in Working => ~Claimable(rows'[act'[r].key])
            /\ At(r, "pay")' => ~rows'[act'[r].key].refunded
      BY <2>0, <3>1 DEF RowsTellRefunds, At
    <3> QED
      BY <2>0, <3>9, <3>a, <3>b, <3>c DEF RowsTellRefunds, Working, At, Claimable
  <2>3. CASE Revert(a) \/ Confirm(a) \/ ClickCrash(a)
    <3>1. bill' = bill /\ click'[a].pc = "done" /\ Occupied(a)
      BY <2>0, <2>3, MoveType DEF Revert, Confirm, ClickCrash, money, OnRow, Occupied,
         ClickStates
    <3>2. \A b \in Clicks \ {a} : click'[b] = click[b]
      BY <2>0, <2>3, MoveType DEF Revert, Confirm, ClickCrash
    <3>3. click[a].row \in Runs /\ rows[click[a].row].refunded
      BY <3>1 DEF ClicksHold
    <3>4. \A d \in Runs : d # click[a].row => rows'[d] = rows[d]
      BY <2>0, <2>3, <3>3 DEF Revert, Confirm, ClickCrash, table
    <3>5. CASE Revert(a)
      <4>1. ~PaidBack(click[a].row)
        BY <3>5 DEF Revert, OnRow, RowsTellRefunds
      <4>2. \A r \in Runs : act[r].pc \in Working \cup {"submit"} => act[r].key # click[a].row
        BY <3>5 DEF Revert, OnRow, RowsTellRefunds
      <4>3. \A r \in Runs : act[r].pc \in Working => act[r].key \in Runs
        BY RunKey DEF Billed
      <4>4. \A c \in Runs : PaidBack(c) => rows'[c].refunded
                 \/ \E q \in Runs : At(q, "recordRefund") /\ act[q].key = c
        BY <3>4, <4>1 DEF RowsTellRefunds
      <4> QED
        BY <1>t, <2>0, <3>1, <3>2, <3>4, <4>2, <4>3, <4>4 DEF RowsTellRefunds, Recorded,
           At, PaidBack, Working
    <3>6. CASE ~Revert(a)
      <4>1. rows'[click[a].row].refunded
        BY <2>0, <2>3, <3>3, <3>6, ClickRows DEF Confirm, ClickCrash, table, Row1
      <4>2. \A c \in Runs : rows'[c] = rows[c] \/ (rows'[c].refunded /\ rows[c].refunded
                                                /\ ~Claimable(rows'[c]))
        BY <3>3, <3>4, <4>1 DEF Claimable
      <4>3. \A r \in Runs : act[r].pc \in Working => act[r].key \in Runs
        BY RunKey DEF Billed
      <4> QED
        BY <1>t, <2>0, <3>1, <3>2, <4>2, <4>3 DEF RowsTellRefunds, Recorded, At, PaidBack,
           Working
    <3> QED
      BY <3>5, <3>6
  <2> QED
    BY <1>3, <2>1, <2>2, <2>3 DEF ClickStep
<1>4. CASE UNCHANGED <<rows, bill, click, act>>
  BY <1>t, <1>4 DEF RowsTellRefunds, Recorded, At, PaidBack
<1> QED
  BY <1>1, <1>2, <1>3, <1>4 DEF Next, SkipDone, RefusePlan, Edit, Sweep, table, money, vars

-----------------------------------------------------------------------------
(* A charge is returned once *)

LEMMA ReturnedOnceStep ==
  ASSUME TypeOK, Base, ReturnedOnce, RowsTellRefunds, Base', [Next]_vars
  PROVE  ReturnedOnce'
<1> USE DEF Base
<1>0. /\ bill \in [Payers -> [charge : MaybeRun, amount : Nat]] /\ None \notin Runs
      /\ \A p \in Runs \cup Clicks : p \in Payers
  BY SyncChargeAssumption DEF TypeOK, Payers
<1>t. trouble' = trouble
  BY Frame
<1>a. (\A p \in Payers : Paid(p) => bill[p].amount = charged[bill[p].charge])'
  BY DEF Bills
<1> SUFFICES ASSUME Recorded
             PROVE  (\A p, q \in Payers :
                       p # q /\ Paid(p) /\ Paid(q) => bill[p].charge # bill[q].charge)'
  BY <1>t, <1>a DEF ReturnedOnce, Recorded
<1>o. \A p, q \in Payers : p # q /\ Paid(p) /\ Paid(q) => bill[p].charge # bill[q].charge
  BY DEF ReturnedOnce, Recorded
<1>w. ASSUME NEW p \in Payers, NEW c \in Runs, NEW n,
             bill' = [bill EXCEPT ![p] = [charge |-> c, amount |-> n]], ~PaidBack(c)
      PROVE  (\A x, q \in Payers :
                x # q /\ Paid(x) /\ Paid(q) => bill[x].charge # bill[q].charge)'
  <2>1. bill'[p].charge = c /\ \A q \in Payers \ {p} : bill'[q] = bill[q] /\ bill[q].charge # c
    BY <1>0, <1>w DEF PaidBack
  <2> QED
    BY <1>o, <2>1 DEF Paid
<1>1. ASSUME NEW r \in Runs, Pay(r), bill' # bill
      PROVE  (\A p, q \in Payers :
                p # q /\ Paid(p) /\ Paid(q) => bill[p].charge # bill[q].charge)'
  <2>1. At(r, "pay") /\ bill' = [bill EXCEPT ![r] = [charge |-> act[r].key, amount |-> act[r].amount]]
    BY <1>1 DEF Pay, Returned
  <2>2. act[r].key \in Runs /\ ~rows[act[r].key].refunded
    BY <2>1, RunKey DEF At, Billed, Working, RowsTellRefunds
  <2>3. \A q \in Runs : ~At(q, "recordRefund")
    BY <2>1, Alone DEF At, Alive
  <2>4. ~PaidBack(act[r].key)
    BY <2>2, <2>3 DEF RowsTellRefunds
  <2> QED
    BY <1>0, <1>w, <2>1, <2>2, <2>4
<1>2. ASSUME NEW a \in Clicks, ClickPay(a), bill' # bill
      PROVE  (\A p, q \in Payers :
                p # q /\ Paid(p) /\ Paid(q) => bill[p].charge # bill[q].charge)'
  <2>1. /\ click[a].pc = "paying"
        /\ bill' = [bill EXCEPT ![a] = [charge |-> click[a].row, amount |-> charged[click[a].row]]]
    BY <1>2 DEF ClickPay, Returned, OnRow
  <2>2. click[a].row \in Runs /\ ~PaidBack(click[a].row)
    BY <2>1 DEF ClicksHold, Occupied, RowsTellRefunds
  <2> QED
    BY <1>0, <1>w, <2>1, <2>2
<1>3. CASE bill' = bill
  BY <1>o, <1>3 DEF Paid
<1>4. CASE \E r \in Runs : RunStep(r) /\ ~Pay(r)
  BY <1>3, <1>4, RunMoney
<1> QED
  BY <1>1, <1>2, <1>3, <1>4 DEF Next, ClickStep, Start, Crash, Claim, Revert, Confirm,
     ClickCrash,
     SkipDone, RefusePlan, Edit, Sweep, money, vars

-----------------------------------------------------------------------------
(* While a run is not repeated after its settlement: the rows follow the runs *)

\* A write into a fresh row, or one still "submitted", is seen as it was made.
LEMMA FixedWrite ==
  ASSUME TypeOK, RowsAreTrue, trouble # "record", NEW c \in Runs, NEW s \in Statuses, NEW b \in BOOLEAN,
         Write(c, s, b), Fixed(rows[c]) \/ rows[c] = NoRow
  PROVE  rows'[c] = Row1(s, b)
<1>0. Row1(s, b) = [status |-> s, refunded |-> b, task |-> None] /\ rows' \in [Runs -> Row({})]
  BY WriteEffect DEF Row1
<1>1. CASE rows[c] = NoRow
  <2>1. ~Exists(rows[c])
    BY <1>1 DEF NoRow, Exists
  <2> QED
    BY <2>1, WriteRow
<1>2. CASE Fixed(rows[c])
  <2>1. Exists(rows[c]) /\ Writable(rows[c], s) /\ rows[c].refunded = FALSE
    BY <1>2 DEF Fixed, Row1, Exists, Writable
  <2>2. rows'[c].status = s /\ rows'[c].refunded = (rows[c].refunded \/ b)
    BY <2>1, WriteRow
  <2>3. rows'[c].refunded = b
    BY <2>1, <2>2
  <2> QED
    BY <1>0, <2>2, <2>3, RowFields
<1> QED
  BY <1>1, <1>2

LEMMA FixedWrites ==
  ASSUME TypeOK, Base, RowsFollowRuns, NotRepeated, NEW r \in Runs, WriteStep(r)
  PROVE  /\ act[r].key \in Runs
         /\ Fixed(rows[act[r].key]) \/ (rows[act[r].key] = NoRow /\ act[r].key = r)
         /\ \A d \in Runs \ {act[r].key} : rows'[d] = rows[d]
         /\ At(r, "submit") => Fixed(rows'[act[r].key])
         /\ At(r, "review") => rows'[act[r].key] = Row1("pending_review", FALSE)
         /\ At(r, "deliver") => rows'[act[r].key] = Row1("delivered", FALSE)
<1> USE DEF Base
<1> DEFINE c == act[r].key
<1>1. trouble # "record" /\ RunFollowed(r) /\ c \in Runs
  BY RunKey DEF RowsFollowRuns, NotRepeated, WriteStep, At, Billed, Working
<1>2. Fixed(rows[c]) \/ (rows[c] = NoRow /\ c = r)
  BY <1>1 DEF RunFollowed, WriteStep, At, Working
<1>w. WriteStep(r) /\ (At(r, "submit") => Write(c, "submitted", FALSE))
        /\ (At(r, "review") => Write(c, "pending_review", FALSE))
        /\ (At(r, "deliver") => Write(c, "delivered", FALSE))
  BY DEF WriteStep, At
<1>3. \A d \in Runs \ {c} : rows'[d] = rows[d]
  BY <1>1, RunWrites
<1> HIDE DEF c
<1>4. At(r, "submit") => Fixed(rows'[c])
  BY <1>1, <1>2, <1>w, FixedWrite DEF Fixed, Statuses
<1>5. At(r, "review") => rows'[c] = Row1("pending_review", FALSE)
  BY <1>1, <1>2, <1>w, FixedWrite DEF Statuses
<1>6. At(r, "deliver") => rows'[c] = Row1("delivered", FALSE)
  BY <1>1, <1>2, <1>w, FixedWrite DEF Statuses
<1> QED
  BY <1>1, <1>2, <1>3, <1>4, <1>5, <1>6 DEF c

\* Run r alone, and the row of its key alone, moved.
LEMMA RowsFollowRun ==
  ASSUME TypeOK, Base, RowsFollowRuns, NotRepeated, NEW r \in Runs, RunStep(r)
  PROVE  RunFollowed(r)'
<1> USE DEF Base
<1>0. trouble # "record" /\ Alive(r) /\ RunFollowed(r)
  BY RunMoves DEF NotRepeated, RowsFollowRuns
<1>n. act[r].pc \notin {"history", "handed", "ended"} => AllFixed
  BY <1>0 DEF RowsFollowRuns, NotRepeated, Finishing, At
<1>1. ASSUME act'[r].pc = "submit"
      PROVE  RunFollowed(r)'
  <2>1. CASE Check(r)
    <3>1. act'[r].key \in Runs /\ Reusable(act'[r].key) /\ rows' = rows
      BY <1>1, <2>1, CheckKey DEF Check, table
    <3>2. Fixed(rows[act'[r].key])
      BY <1>n, <2>1, <3>1, ReusableRow DEF Check, At, AllFixed
    <3> QED
      BY <1>1, <3>1, <3>2 DEF RunFollowed, At, Working, Fixed
  <2>2. CASE Charge(r)
    <3>1. act'[r].key = r /\ rows[r] = NoRow /\ rows' = rows
      BY <1>1, <2>2, ChargeKey DEF Charge, At, Fresh, Early, table
    <3> QED
      BY <1>1, <3>1 DEF RunFollowed, At, Working
  <2> QED
    BY <1>1, <2>1, <2>2, SubmitKey
<1>2. ASSUME act'[r].pc \in Working
      PROVE  RunFollowed(r)'
  <2>0. act[r].pc \in Working \cup {"submit"} /\ act'[r].key = act[r].key /\ act[r].key \in Runs
    BY <1>2, RunMoves, RunKey DEF Working, Billed, Early, Alive, RunStates, RunLabels,
       TypeOK, At
  <2>1. Fixed(rows'[act[r].key])
    <3>1. CASE act[r].pc = "submit"
      <4>1. WriteStep(r)
        BY <3>1 DEF RunStep, ReadNode, Check, Charge, Submit, Call, Store, Settle, Pay,
           Review,
             RecordRefund, Deliver, RecordGeneration, Hand, Fail, At, WriteStep
      <4> QED
        BY <3>1, <4>1, FixedWrites DEF At
    <3>2. CASE act[r].pc \in Working
      <4>1. act[r].pc \notin {"recordRefund", "review", "deliver", "submit"}
        BY <1>2, <3>2, RunMoves DEF Working
      <4>2. rows' = rows
        BY <4>1, RunTable DEF WriteStep, At
      <4> QED
        BY <1>0, <3>2, <4>2 DEF RunFollowed
    <3> QED
      BY <2>0, <3>1, <3>2
  <2>2. act'[r].pc = "recordRefund" => PaidBack(act[r].key)'
    <3>1. CASE act[r].pc = "settle"
      <4>1. Settle(r)
        BY <3>1 DEF RunStep, ReadNode, Check, Charge, Submit, Call, Store, Pay, Review,
             RecordRefund, Deliver, RecordGeneration, Hand, Fail, At
      <4>2. ~AlreadyRefunded(rows[act[r].key])
        BY <1>0, <3>1 DEF RunFollowed, Working, Fixed, AlreadyRefunded, Row1
      <4>3. CASE Goto(r, "review") \/ Goto(r, "pay")
        BY <4>3, GotoType DEF TypeOK, RunLabels
      <4>4. CASE act' = [act EXCEPT ![r] = [@ EXCEPT !.pc = "review", !.final = TRUE]]
        BY <4>4, FinalType DEF TypeOK
      <4> QED
        BY <4>1, <4>2, <4>3, <4>4 DEF Settle
    <3>2. CASE act[r].pc = "pay"
      <4>1. Pay(r)
        BY <3>2 DEF RunStep, ReadNode, Check, Charge, Submit, Call, Store, Settle, Review,
             RecordRefund, Deliver, RecordGeneration, Hand, Fail, At
      <4>2. CASE act' = [act EXCEPT ![r] = [@ EXCEPT !.pc = "review", !.final = TRUE]]
        BY <4>2, FinalType DEF TypeOK
      <4>3. CASE bill' = [bill EXCEPT ![r] = [charge |-> act[r].key, amount |-> act[r].amount]]
        <5>1. r \in Payers /\ bill'[r].charge = act[r].key
          BY <4>3 DEF TypeOK, Payers
        <5> QED
          BY <2>0, <5>1 DEF PaidBack
      <4> QED
        BY <4>1, <4>2, <4>3 DEF Pay, Returned
    <3>3. act'[r].pc = "recordRefund" => act[r].pc \in {"settle", "pay"}
      BY <2>0, RunMoves DEF Working
    <3> QED
      BY <3>1, <3>2, <3>3
  <2> QED
    BY <1>2, <2>0, <2>1, <2>2 DEF RunFollowed, At, Working, Fixed, PaidBack
<1>3. ASSUME act'[r].pc \in {"history", "handed"}
      PROVE  RunFollowed(r)'
  <2>0. act[r].pc \in {"read", "deliver", "history"} /\ act'[r].key = act[r].key
    BY <1>3, RunMoves DEF Working, Billed, Early, Alive, RunStates, RunLabels, TypeOK, At
  <2>1. CASE act[r].pc = "read"
    <3>1. act[r].key = None /\ act'[r].pc = "handed"
      BY <1>3, <2>1, RunMoves DEF Fresh, Early, NoRun
    <3> QED
      BY <2>0, <3>1 DEF RunFollowed, At, Working
  <2>2. CASE act[r].pc = "deliver"
    <3>1. WriteStep(r)
      BY <2>2 DEF RunStep, ReadNode, Check, Charge, Submit, Call, Store, Settle, Pay,
         Review,
           RecordRefund, Deliver, RecordGeneration, Hand, Fail, At, WriteStep
    <3>2. rows'[act[r].key] = Row1("delivered", FALSE)
      BY <2>2, <3>1, FixedWrites DEF At
    <3> QED
      BY <1>3, <2>0, <3>2 DEF RunFollowed, At, Working, Row1
  <2>3. CASE act[r].pc = "history"
    <3>1. rows' = rows
      BY <2>3, RunTable DEF WriteStep, At
    <3> QED
      BY <1>0, <1>3, <2>0, <2>3, <3>1 DEF RunFollowed, At, Working, Row1
  <2> QED
    BY <2>0, <2>1, <2>2, <2>3
<1>4. CASE act'[r].pc \notin Working \cup {"submit", "history", "handed"}
  BY <1>4 DEF RunFollowed, At, Working
<1> QED
  BY <1>1, <1>2, <1>3, <1>4

\* A click changes one row, and never one the runs still count on.
LEMMA RowsFollowClick ==
  ASSUME TypeOK, Holding, RowsFollowRuns, NotRepeated, NEW d \in Runs,
         rows[d].status = "pending_review",
         \A c \in Runs \ {d} : rows'[c] = rows[c], UNCHANGED <<act, charged, msg>>,
         \A c \in Runs : PaidBack(c) => PaidBack(c)'
  PROVE  (AllFixed \/ Finishing)' /\ \A r \in Runs : RunFollowed(r)'
<1>0. rows[d] # NoRow /\ ~Fixed(rows[d]) /\ rows[d] # Row1("delivered", FALSE)
  BY DEF NoRow, Fixed, Row1
<1>1. (AllFixed \/ Finishing)'
  <2>1. Exists(rows[d])
    BY DEF Exists
  <2>2. CASE Finishing
    BY <2>2 DEF Finishing, Alive, At
  <2>3. CASE AllFixed
    <3>1. ~(charged[d] > 0)
      BY <1>0, <2>1, <2>3 DEF AllFixed
    <3> QED
      BY <2>3, <3>1 DEF AllFixed, Fixed
  <2> QED
    BY <2>2, <2>3 DEF RowsFollowRuns
<1>2. ASSUME NEW r \in Runs
      PROVE  RunFollowed(r)'
  <2>1. RunFollowed(r)
    BY DEF RowsFollowRuns
  <2>2. act[r].pc \in Billed \/ (act[r].pc = "handed" /\ act[r].key # None) => act[r].key \in Runs
    BY DEF Holding, HoldsCharge
  <2>3. CASE act[r].pc = "recordRefund"
    <3>1. PaidBack(act[r].key) /\ act[r].key \in Runs /\ Fixed(rows[act[r].key])
      BY <2>1, <2>2, <2>3 DEF RunFollowed, At, Billed, Working
    <3>2. \A c \in Runs : PaidBack(c) => \E p \in Payers : bill'[p].charge = c
      BY DEF PaidBack
    <3>3. \E p \in Payers : bill'[p].charge = act'[r].key
      BY <3>1, <3>2
    <3>4. Fixed(rows'[act'[r].key])
      BY <1>0, <3>1
    <3> QED
      BY <2>3, <3>3, <3>4 DEF RunFollowed, At, Working, PaidBack, Fixed
  <2>4. CASE act[r].pc = "submit"
    BY <1>0, <2>1, <2>2, <2>4 DEF RunFollowed, At, Working, Billed, Fixed
  <2>5. CASE act[r].pc \in Working \ {"recordRefund"}
    BY <1>0, <2>1, <2>2, <2>5 DEF RunFollowed, At, Working, Billed, Fixed
  <2>6. CASE act[r].pc \in {"history", "handed"}
    BY <1>0, <2>1, <2>2, <2>6 DEF RunFollowed, At, Working, Billed, Fixed
  <2>7. CASE act[r].pc \notin Working \cup {"submit", "history", "handed"}
    BY <2>7 DEF RunFollowed, At, Working
  <2> QED
    BY <2>3, <2>4, <2>5, <2>6, <2>7
<1> QED
  BY <1>1, <1>2

\* Once a charge is settled no run follows: the one that is left ends for good.
LEMMA FinishingRun ==
  ASSUME TypeOK, Base, RowsFollowRuns, NotRepeated, NEW r \in Runs, RunStep(r)
  PROVE  (AllFixed \/ Finishing)'
<1> USE DEF Base
<1>0. /\ trouble # "record" /\ Alive(r) /\ charged \in [Runs -> Nat]
      /\ \A q \in Runs \ {r} : act'[q] = act[q] /\ act[q].pc \in {"idle", "over"}
  BY RunMoves, RunFrame, Alone DEF NotRepeated, TypeOK
<1>m. msg \in {"taken", "gone"}
  BY <1>0 DEF Serial
<1>n. act[r].pc \notin {"history", "handed", "ended"} => AllFixed
  BY <1>0 DEF RowsFollowRuns, NotRepeated, Finishing, At
<1>c. \A c \in Runs : Exists(rows[c]) => charged'[c] = charged[c]
  <2>1. CASE Charge(r)
    <3>1. rows[r] = NoRow
      BY <2>1 DEF Charge, At, Fresh, Early
    <3>2. ~Exists(rows[r])
      BY <3>1 DEF NoRow, Exists
    <3>3. charged' = charged \/ charged' = [charged EXCEPT ![r] = Cost]
      BY <2>1 DEF Charge
    <3> QED
      BY <1>0, <3>2, <3>3
  <2> QED
    BY <2>1, RunMoney
<1>1. CASE UNCHANGED <<rows, order>> /\ AllFixed
  BY <1>1, <1>c DEF AllFixed, Fixed
<1>2. CASE At(r, "submit") /\ WriteStep(r)
  <2>1. AllFixed /\ charged' = charged
    BY <1>2, <1>n, RunMoney DEF At, Charge
  <2> QED
    BY <1>2, <2>1, FixedWrites DEF AllFixed, Fixed
<1>3. CASE act[r].pc \in {"recordRefund", "deliver"}
  <2>1. act'[r].pc \in {"history", "handed"} \/ (act'[r].pc = "ended" /\ act'[r].final)
    <3>1. CASE act[r].pc = "recordRefund"
      <4>1. RecordRefund(r)
        BY <3>1 DEF RunStep, ReadNode, Check, Charge, Submit, Call, Store, Settle, Pay,
           Review,
             Deliver, RecordGeneration, Hand, Fail, At
      <4> QED
        BY <4>1, EndFinalType DEF RecordRefund, TypeOK
    <3> QED
      BY <1>3, <3>1, RunMoves
  <2>2. msg' = msg
    BY <1>3, RunMoves
  <2> QED
    BY <1>0, <1>m, <2>1, <2>2 DEF Finishing, Alive, At
<1>4. CASE act[r].pc = "review"
  <2>1. Review(r)
    BY <1>4 DEF RunStep, ReadNode, Check, Charge, Submit, Call, Store, Settle, Pay,
       RecordRefund,
         Deliver, RecordGeneration, Hand, Fail, At
  <2>2. act'[r].pc = "ended" /\ act'[r].final = act[r].final /\ msg' = msg /\ charged' = charged
    BY <2>1, GotoType DEF Review, TypeOK, RunLabels, sched, money
  <2>3. CASE act[r].final
    BY <1>0, <1>m, <2>2, <2>3 DEF Finishing, Alive, At
  <2>4. CASE act[r].amount = 0
    <3>1. ~(unit > 0)
      BY <1>4, <2>4 DEF Holding, HoldsCharge, Billed, Working
    <3>2. \A c \in Runs : ~(charged[c] > 0)
      BY <3>1 DEF RowsAreTrue
    <3> QED
      BY <2>2, <3>2 DEF AllFixed
  <2> QED
    BY <1>4, <2>3, <2>4 DEF Holding
<1>5. CASE act[r].pc \in {"history", "handed", "ended"}
  <2>1. UNCHANGED <<rows, order>>
    BY <1>5, RunTable DEF WriteStep, At
  <2>2. CASE AllFixed
    BY <1>1, <2>1, <2>2
  <2>3. CASE Finishing
    <3>1. act'[r].pc = "handed" \/ ~Alive(r)'
      BY <1>5, RunMoves
    <3>2. msg' \in {"taken", "gone"}
      <4>1. CASE act[r].pc = "ended"
        <5>1. Fail(r) /\ act[r].final
          BY <1>0, <2>3, <4>1 DEF Finishing, At, RunStep, ReadNode, Check, Charge, Submit,
             Call, Store,
             Settle, Pay, RecordRefund, Review, Deliver, RecordGeneration, Hand
        <5> QED
          BY <5>1 DEF Fail
      <4>2. CASE act[r].pc = "handed"
        <5>1. Hand(r)
          BY <4>2 DEF At, RunStep, ReadNode, Check, Charge, Submit, Call, Store,
             Settle, Pay, RecordRefund, Review, Deliver, RecordGeneration, Fail
        <5> QED
          BY <5>1 DEF Hand
      <4>3. CASE act[r].pc = "history"
        BY <1>m, <4>3, RunMoves
      <4> QED
        BY <1>5, <4>1, <4>2, <4>3
    <3> QED
      BY <1>0, <3>1, <3>2 DEF Finishing, Alive, At
  <2> QED
    BY <2>2, <2>3 DEF RowsFollowRuns
<1>6. CASE act[r].pc \notin {"submit", "recordRefund", "deliver", "review", "history", "handed", "ended"}
  <2>1. UNCHANGED <<rows, order>>
    BY <1>6, RunTable DEF WriteStep, At
  <2> QED
    BY <1>1, <1>6, <1>n, <2>1
<1>7. At(r, "submit") => WriteStep(r)
  BY DEF RunStep, ReadNode, Check, Charge, Submit, Call, Store, Settle, Pay, RecordRefund,
     Review,
     Deliver, RecordGeneration, Hand, Fail, At, WriteStep
<1> QED
  BY <1>2, <1>3, <1>4, <1>5, <1>6, <1>7 DEF At

LEMMA RowsFollowRunsStep ==
  ASSUME TypeOK, Base, RowsFollowRuns, [Next]_vars
  PROVE  RowsFollowRuns'
<1> USE DEF Base
<1>t. trouble' = trouble
  BY Frame
<1> SUFFICES ASSUME NotRepeated
             PROVE  /\ (\A a \in Clicks : Occupied(a) => rows[click[a].row].status = "pending_review")'
                    /\ (AllFixed \/ Finishing)' /\ \A r \in Runs : RunFollowed(r)'
  BY <1>t DEF RowsFollowRuns, NotRepeated
<1>o. /\ \A a \in Clicks : Occupied(a) => rows[click[a].row].status = "pending_review"
      /\ AllFixed \/ Finishing
      /\ \A r \in Runs : RunFollowed(r)
  BY DEF RowsFollowRuns
<1>p. \A c \in Runs : PaidBack(c) => PaidBack(c)'
  BY PaidBackStays
<1>1. ASSUME NEW r \in Runs, RunStep(r)
      PROVE  /\ (\A a \in Clicks : Occupied(a) => rows[click[a].row].status = "pending_review")'
             /\ (AllFixed \/ Finishing)' /\ \A q \in Runs : RunFollowed(q)'
  <2>1. \A q \in Runs \ {r} : act'[q] = act[q] /\ act[q].pc \in {"idle", "over"}
    BY <1>1, RunFrame, RunMoves, Alone
  <2>2. \A q \in Runs : RunFollowed(q)'
    BY <1>1, <2>1, RowsFollowRun DEF RunFollowed, At, Working
  <2>3. \A a \in Clicks : Occupied(a) => rows'[click[a].row] = rows[click[a].row]
    <3> SUFFICES ASSUME NEW a \in Clicks, Occupied(a)
                 PROVE  rows'[click[a].row] = rows[click[a].row]
      OBVIOUS
    <3>1. /\ click[a].row \in Runs /\ ~Fixed(rows[click[a].row]) /\ rows[click[a].row] # NoRow
      BY <1>o DEF ClicksHold, Fixed, Row1, NoRow
    <3>2. CASE WriteStep(r)
      BY <3>1, <3>2, FixedWrites
    <3> QED
      BY <1>1, <3>2, RunTable
  <2>4. click' = click
    BY <1>1, RunFrame
  <2> QED
    BY <1>1, <1>o, <2>2, <2>3, <2>4, FinishingRun DEF Occupied
<1>2. ASSUME NEW r \in Runs, Start(r) \/ Crash(r)
      PROVE  /\ (\A a \in Clicks : Occupied(a) => rows[click[a].row].status = "pending_review")'
             /\ (AllFixed \/ Finishing)' /\ \A q \in Runs : RunFollowed(q)'
  <2>1. UNCHANGED <<rows, charged, bill, click>> /\ \A q \in Runs \ {r} : act'[q] = act[q]
    BY <1>2, RunFrame DEF Start, Crash, table, money
  <2>2. act'[r].pc \in {"read", "over"}
    BY <1>2, GotoType, LeaveType DEF Start, Crash, TypeOK, RunLabels
  <2>3. ~Finishing
    <3>1. CASE Start(r)
      BY <3>1 DEF Start, Finishing
    <3>2. CASE Crash(r)
      BY <3>2 DEF Crash, Finishing, Strikes, NotRepeated, At
    <3> QED
      BY <1>2, <3>1, <3>2
  <2>4. AllFixed'
    BY <1>o, <2>1, <2>3 DEF AllFixed, Fixed
  <2>5. \A q \in Runs : RunFollowed(q)'
    BY <1>o, <2>1, <2>2 DEF RunFollowed, At, Working, Fixed, PaidBack
  <2> QED
    BY <1>o, <2>1, <2>4, <2>5 DEF Occupied
<1>3. ASSUME NEW a \in Clicks, Claim(a)
      PROVE  /\ (\A b \in Clicks : Occupied(b) => rows[click[b].row].status = "pending_review")'
             /\ (AllFixed \/ Finishing)' /\ \A q \in Runs : RunFollowed(q)'
  <2>1. PICK c \in Runs :
          /\ Claimable(rows[c]) /\ rows' = [rows EXCEPT ![c] = ClaimForRefund(@)]
          /\ click' = [click EXCEPT ![a] =
                         [pc |-> IF charged[c] = 0 THEN "reverting" ELSE "paying", row |-> c]]
    BY <1>3 DEF Claim
  <2>2. rows'[c] = [status |-> rows[c].status, refunded |-> TRUE, task |-> None]
    BY <2>1, ClickRows DEF TypeOK
  <2>3. rows[c].status = "pending_review" /\ ~rows[c].refunded
    BY <2>1 DEF Claimable, RowsAreTrue
  <2>4. /\ \A d \in Runs \ {c} : rows'[d] = rows[d]
        /\ click'[a].row = c /\ \A b \in Clicks \ {a} : click'[b] = click[b]
    BY <2>1 DEF TypeOK
  <2>5. UNCHANGED <<act, charged, msg>>
    BY <1>3 DEF Claim, money, sched
  <2>6. (AllFixed \/ Finishing)' /\ \A q \in Runs : RunFollowed(q)'
    BY <1>p, <2>3, <2>4, <2>5, RowsFollowClick
  <2>7. \A b \in Clicks \ {a} : Occupied(b) => click[b].row \in Runs \ {c}
    BY <2>3 DEF ClicksHold
  <2> QED
    BY <1>o, <2>2, <2>3, <2>4, <2>6, <2>7 DEF Occupied
<1>4. ASSUME NEW a \in Clicks, Revert(a) \/ Confirm(a)
      PROVE  /\ (\A b \in Clicks : Occupied(b) => rows[click[b].row].status = "pending_review")'
             /\ (AllFixed \/ Finishing)' /\ \A q \in Runs : RunFollowed(q)'
  <2>1. click'[a].pc = "done" /\ Occupied(a) /\ \A b \in Clicks \ {a} : click'[b] = click[b]
    BY <1>4, MoveType DEF Revert, Confirm, OnRow, Occupied, TypeOK
  <2>2. click[a].row \in Runs /\ rows[click[a].row].status = "pending_review"
    BY <1>o, <2>1 DEF ClicksHold
  <2>3. \A d \in Runs : d # click[a].row => rows'[d] = rows[d]
    BY <1>4, <2>2 DEF Revert, Confirm, TypeOK
  <2>4. UNCHANGED <<act, charged, msg>>
    BY <1>4 DEF Revert, Confirm, money, sched
  <2>5. (AllFixed \/ Finishing)' /\ \A q \in Runs : RunFollowed(q)'
    <3>1. \A d \in Runs \ {click[a].row} : rows'[d] = rows[d]
      BY <2>3
    <3>2. ASSUME NEW d \in Runs, d = click[a].row
          PROVE  (AllFixed \/ Finishing)' /\ \A q \in Runs : RunFollowed(q)'
      BY <1>p, <2>2, <2>4, <3>1, <3>2, RowsFollowClick
    <3> QED
      BY <2>2, <3>2
  <2>6. \A b \in Clicks \ {a} : Occupied(b) => click[b].row \in Runs /\ click[b].row # click[a].row
    BY <2>1 DEF ClicksHold
  <2> QED
    BY <1>o, <2>1, <2>3, <2>5, <2>6 DEF Occupied
<1>5. ASSUME NEW a \in Clicks, ClickPay(a) \/ ClickCrash(a)
      PROVE  /\ (\A b \in Clicks : Occupied(b) => rows[click[b].row].status = "pending_review")'
             /\ (AllFixed \/ Finishing)' /\ \A q \in Runs : RunFollowed(q)'
  <2>1. UNCHANGED <<act, charged, msg, rows>>
    BY <1>5 DEF ClickPay, ClickCrash, money, sched, table
  <2>2. \A b \in Clicks : (Occupied(b))' => Occupied(b) /\ click'[b].row = click[b].row
    <3>1. \A b \in Clicks \ {a} : click'[b] = click[b]
      BY <1>5, MoveType DEF ClickPay, ClickCrash, TypeOK
    <3>2. click'[a].row = click[a].row /\ (Occupied(a) \/ click'[a].pc = "done")
      BY <1>5, MoveType DEF ClickPay, ClickCrash, TypeOK, OnRow, Occupied
    <3> QED
      BY <3>1, <3>2 DEF Occupied
  <2>3. \A b \in Clicks : click'[b].pc \in {"paying", "reverting", "confirming"} =>
          rows'[click'[b].row].status = "pending_review"
    BY <1>o, <2>1, <2>2 DEF Occupied
  <2>4. (AllFixed \/ Finishing)'
    BY <1>o, <2>1 DEF AllFixed, Finishing, Alive, At, Fixed
  <2>5. \A q \in Runs : RunFollowed(q)'
    <3> SUFFICES ASSUME NEW q \in Runs
                 PROVE  RunFollowed(q)'
      OBVIOUS
    <3>1. act[q].pc = "recordRefund" => \E p \in Payers : bill'[p].charge = act'[q].key
      <4>1. \A c \in Runs : PaidBack(c) => \E p \in Payers : bill'[p].charge = c
        BY <1>p DEF PaidBack
      <4>2. act[q].pc = "recordRefund" => act[q].key \in Runs /\ PaidBack(act[q].key)
        BY <1>o, RunKey DEF RunFollowed, At, Billed, Working
      <4> QED
        BY <2>1, <4>1, <4>2
    <3> QED
      BY <1>o, <2>1, <3>1 DEF RunFollowed, At, Fixed, PaidBack
  <2> QED
    BY <2>3, <2>4, <2>5 DEF Occupied
<1>6. CASE SkipDone \/ RefusePlan \/ Edit \/ Sweep \/ UNCHANGED vars
  <2>1. UNCHANGED <<act, charged, rows, bill, click>> /\ (msg' = msg \/ ~Finishing)
    BY <1>6 DEF SkipDone, RefusePlan, Edit, Sweep, vars, money, sched, table, Finishing
  <2> QED
    BY <1>o, <2>1 DEF AllFixed, Finishing, Alive, At, Fixed, RunFollowed, PaidBack, Occupied
<1> QED
  BY <1>1, <1>2, <1>3, <1>4, <1>5, <1>6 DEF Next, ClickStep

LEMMA GivenStaysStep ==
  ASSUME TypeOK, Base, RowsFollowRuns, GivenStays, [Next]_vars
  PROVE  GivenStays'
<1> USE DEF Base
<1>t. trouble' = trouble
  BY Frame
<1> SUFFICES ASSUME NotRepeated
             PROVE  /\ \A c \in given' : rows'[c] = Row1("delivered", FALSE)
                    /\ given' # {} =>
                         /\ msg' \in {"taken", "gone"}
                         /\ \A r \in Runs : Alive(r)' => At(r, "handed")'
  BY <1>t DEF GivenStays, NotRepeated
<1>o. /\ \A c \in given : rows[c] = Row1("delivered", FALSE)
      /\ given # {} => msg \in {"taken", "gone"} /\ \A r \in Runs : Alive(r) => At(r, "handed")
      /\ given \subseteq Runs /\ \A r \in Runs : RunFollowed(r)
      /\ \A a \in Clicks : Occupied(a) => rows[click[a].row].status = "pending_review"
  BY DEF GivenStays, TypeOK, RowsFollowRuns
<1>d. Row1("delivered", FALSE).status = "delivered"
  BY DEF Row1
<1>1. ASSUME NEW r \in Runs, RunStep(r)
      PROVE  /\ \A c \in given' : rows'[c] = Row1("delivered", FALSE)
             /\ given' # {} =>
                  /\ msg' \in {"taken", "gone"}
                  /\ \A q \in Runs : Alive(q)' => At(q, "handed")'
  <2>1. Alive(r) /\ \A q \in Runs \ {r} : act'[q] = act[q] /\ act[q].pc \in {"idle", "over"}
    BY <1>1, RunFrame, RunMoves, Alone
  <2>2. CASE RecordGeneration(r)
    <3>1. given = {} /\ given' = {act[r].key} /\ rows' = rows /\ msg' = msg
      BY <1>o, <2>1, <2>2 DEF RecordGeneration, table, sched, At
    <3>2. act'[r].pc = "handed"
      BY <2>2, GotoType DEF RecordGeneration, TypeOK, RunLabels
    <3>3. rows[act[r].key] = Row1("delivered", FALSE)
      BY <1>o, <2>2 DEF RecordGeneration, RunFollowed
    <3>4. msg \in {"taken", "gone"}
      BY <2>1 DEF Serial
    <3> QED
      BY <2>1, <3>1, <3>2, <3>3, <3>4 DEF At, Alive
  <2>3. CASE Hand(r)
    <3>1. /\ given' = given \/ (act[r].key # None /\ given' = given \cup {act[r].key})
          /\ rows' = rows /\ msg' = "gone"
      BY <2>3 DEF Hand, table
    <3>2. act[r].key # None => rows[act[r].key] = Row1("delivered", FALSE)
      BY <1>o, <2>3 DEF Hand, RunFollowed
    <3>3. act'[r].pc = "over"
      BY <2>3, LeaveType DEF Hand, TypeOK
    <3> QED
      BY <1>o, <2>1, <3>1, <3>2, <3>3 DEF At, Alive
  <2>4. CASE ~RecordGeneration(r) /\ ~Hand(r)
    <3>1. given' = given
      BY <1>1, <2>4 DEF RunStep, ReadNode, Check, Charge, Submit, Call, Store, Settle, Pay,
         RecordRefund, Review, Deliver, Fail
    <3>2. ~At(r, "handed")
      BY <1>1, <2>4 DEF RunStep, ReadNode, Check, Charge, Submit, Call, Store, Settle, Pay,
         RecordRefund, Review, Deliver, Fail, At
    <3> QED
      BY <1>o, <2>1, <3>1, <3>2
  <2> QED
    BY <2>2, <2>3, <2>4
<1>2. ASSUME NEW r \in Runs, Start(r) \/ Crash(r)
      PROVE  given = {} /\ given' = given
  <2>1. CASE Start(r)
    BY <1>o, <2>1 DEF Start
  <2>2. CASE Crash(r)
    BY <1>o, <2>2 DEF Crash, Strikes, NotRepeated, At
  <2> QED
    BY <1>2, <2>1, <2>2
<1>3. ASSUME NEW a \in Clicks, ClickStep(a)
      PROVE  /\ \A c \in given' : rows'[c] = Row1("delivered", FALSE)
             /\ given' # {} =>
                  /\ msg' \in {"taken", "gone"}
                  /\ \A q \in Runs : Alive(q)' => At(q, "handed")'
  <2>1. UNCHANGED <<act, msg, given>>
    BY <1>3 DEF ClickStep, Claim, ClickPay, Revert, Confirm, ClickCrash, sched
  <2>2. \A c \in given : rows'[c] = rows[c]
    <3>1. CASE Claim(a)
      <4>1. PICK c \in Runs : Claimable(rows[c]) /\ rows' = [rows EXCEPT ![c] = ClaimForRefund(@)]
        BY <3>1 DEF Claim
      <4>2. c \notin given
        BY <1>o, <1>d, <4>1 DEF Claimable
      <4> QED
        BY <1>o, <4>1, <4>2 DEF TypeOK
    <3>2. CASE Revert(a) \/ Confirm(a)
      <4>1. Occupied(a) /\ click[a].row \in Runs
        BY <3>2 DEF Revert, Confirm, OnRow, Occupied, ClicksHold
      <4>2. click[a].row \notin given
        BY <1>o, <1>d, <4>1
      <4> QED
        BY <1>o, <3>2, <4>1, <4>2 DEF Revert, Confirm, TypeOK
    <3> QED
      BY <1>3, <3>1, <3>2 DEF ClickStep, ClickPay, ClickCrash, table
  <2> QED
    BY <1>o, <2>1, <2>2 DEF Alive, At
<1>4. CASE SkipDone \/ RefusePlan \/ Edit \/ Sweep \/ UNCHANGED vars
  BY <1>o, <1>4 DEF SkipDone, RefusePlan, Edit, Sweep, vars, sched, table, Alive, At
<1> QED
  BY <1>1, <1>2, <1>3, <1>4 DEF Next

-----------------------------------------------------------------------------
(* While every charge has its row: the user pays once *)

LEMMA ChargesKnownStep ==
  ASSUME TypeOK, Base, ChargesKnown, [Next]_vars
  PROVE  ChargesKnown'
<1> USE DEF Base
<1>t. trouble' = trouble
  BY Frame
<1> SUFFICES ASSUME EveryChargeHasRow, NEW c \in Runs, charged'[c] > 0, ~Exists(rows'[c])
             PROVE  At(c, "submit")' /\ act'[c].key = c
  BY <1>t DEF ChargesKnown, EveryChargeHasRow
<1>0. ~Exists(rows[c])
  BY RowsStay
<1>1. ASSUME charged[c] > 0
      PROVE  At(c, "submit")' /\ act'[c].key = c
  <2>1. act[c].pc = "submit" /\ act[c].key = c /\ Alive(c)
    BY <1>0, <1>1 DEF ChargesKnown, At, Alive
  <2>2. ASSUME NEW r \in Runs, RunStep(r)
        PROVE  FALSE
    <3>1. r = c
      BY <2>1, <2>2, RunMoves DEF Serial
    <3>2. WriteStep(c)
      BY <2>1, <2>2, <3>1 DEF RunStep, ReadNode, Check, Charge, Call, Store, Settle, Pay,
         RecordRefund,
         Review, Deliver, RecordGeneration, Hand, Fail, At, Submit, WriteStep
    <3> QED
      BY <1>0, <2>1, <3>2, RunWrites DEF EveryChargeHasRow
  <2>3. ASSUME NEW r \in Runs, Start(r) \/ Crash(r)
        PROVE  act'[c] = act[c]
    <3>1. r # c
      BY <2>1, <2>3 DEF Start, Crash, At, Strikes, EveryChargeHasRow
    <3> QED
      BY <2>3, <3>1, RunFrame
  <2>4. CASE act' = act
    BY <2>1, <2>4 DEF At
  <2> QED
    BY <2>1, <2>2, <2>3, <2>4 DEF Next, ClickStep, Claim, ClickPay, Revert, Confirm,
       ClickCrash,
       SkipDone, RefusePlan, Edit, Sweep, vars, At
<1>2. ASSUME ~(charged[c] > 0)
      PROVE  At(c, "submit")' /\ act'[c].key = c
  <2>1. ASSUME NEW r \in Runs, Charge(r)
        PROVE  At(c, "submit")' /\ act'[c].key = c
    <3>1. act'[r].pc \in {"submit", "ended"}
      BY <2>1, RunMoves DEF RunStep, Charge, At
    <3>2. charged' # charged
      BY <1>2
    <3>3. charged' = [charged EXCEPT ![r] = Cost]
          /\ act' = [act EXCEPT ![r] = [@ EXCEPT !.pc = "submit", !.key = r, !.amount = Cost]]
      BY <2>1, <3>2 DEF Charge
    <3>4. act'[r].pc = "submit"
      BY <3>3, CostNat, ChargeType DEF TypeOK
    <3>5. r = c
      BY <1>2, <3>3 DEF TypeOK
    <3> QED
      BY <2>1, <3>4, <3>5, ChargeKey DEF At
  <2>2. CASE charged' = charged
    BY <1>2, <2>2
  <2> QED
    BY <2>1, <2>2, RunMoney DEF Next, ClickStep, Claim, ClickPay, Revert, Confirm,
       ClickCrash,
       SkipDone, RefusePlan, Edit, Sweep, vars, money, Start, Crash
<1> QED
  BY <1>1, <1>2

\* chargeAlreadyDone finds the charge that stands.
LEMMA StandingReusable ==
  ASSUME TypeOK, Base, RowsFollowRuns, ChargesKnown, OneStands, EveryChargeHasRow,
         NEW r \in Runs, At(r, "check"), NEW c \in Runs, Standing(c)
  PROVE  Reusable(c)
<1> USE DEF Base
<1>0. Alive(r) /\ charged[c] > 0 /\ unit > 0
  BY DEF At, Alive, Standing, RowsAreTrue
<1>1. Exists(rows[c])
  <2>1. ~At(c, "submit")
    BY <1>0, Alone DEF At
  <2> QED
    BY <1>0, <2>1 DEF ChargesKnown
<1>2. \A d \in Runs : Outstanding(rows[d]) => Standing(d)
  BY <1>0 DEF Outstanding, Standing, RowsAreTrue
<1>3. Outstanding(rows[c])
  <2>1. CASE trouble = "unacked"
    <3>1. ~rows[c].refunded
      BY <2>1 DEF Standing
    <3> QED
      BY <1>1, <3>1 DEF RowsAreTrue, Outstanding
  <2>2. CASE trouble # "unacked"
    <3>1. AllFixed
      BY <1>0, <2>2 DEF RowsFollowRuns, NotRepeated, EveryChargeHasRow, Finishing, At
    <3>2. rows[c] = Row1("submitted", FALSE)
      BY <1>0, <1>1, <3>1 DEF AllFixed, Fixed
    <3> QED
      BY <3>2 DEF Row1, Outstanding, Exists
  <2> QED
    BY <2>1, <2>2
<1>4. PICK i \in DOMAIN order : order[i] = c
  BY <1>1 DEF Listed
<1>5. ASSUME NEW j \in DOMAIN order, j > i, Outstanding(rows[order[j]])
      PROVE  FALSE
  <2>1. order[j] \in Runs /\ i \in Nat /\ j \in Nat
    BY DEF TypeOK
  <2>2. order[j] = c
    BY <1>2, <1>5, <2>1 DEF OneStands
  <2>3. j = i
    BY <1>4, <2>2 DEF Listed
  <2> QED
    BY <1>5, <2>1, <2>3
<1> QED
  BY <1>0, <1>3, <1>4, <1>5 DEF Reusable, IsNewestOutstanding

LEMMA OneStandsStep ==
  ASSUME TypeOK, Base, RowsFollowRuns, ChargesKnown, OneStands, [Next]_vars
  PROVE  OneStands'
<1> USE DEF Base
<1>t. trouble' = trouble
  BY Frame
<1> SUFFICES ASSUME EveryChargeHasRow
             PROVE  /\ \A c, d \in Runs : Standing(c)' /\ Standing(d)' => c = d
                    /\ (\E r \in Runs : At(r, "charge")') => \A c \in Runs : ~Standing(c)'
  BY <1>t DEF OneStands, EveryChargeHasRow
<1>o. /\ \A c, d \in Runs : Standing(c) /\ Standing(d) => c = d
      /\ (\E r \in Runs : At(r, "charge")) => \A c \in Runs : ~Standing(c)
  BY DEF OneStands
<1>1. ASSUME NEW r \in Runs, RunStep(r)
      PROVE  /\ \A c, d \in Runs : Standing(c)' /\ Standing(d)' => c = d
             /\ (\E q \in Runs : At(q, "charge")') => \A c \in Runs : ~Standing(c)'
  <2>1. Alive(r) /\ \A q \in Runs \ {r} : act'[q] = act[q] /\ act[q].pc \in {"idle", "over"}
    BY <1>1, RunFrame, RunMoves, Alone
  <2>2. \A c \in Runs : rows[c].refunded => rows'[c].refunded
    BY <1>1, RunKeepsRefunds
  <2>3. CASE Charge(r)
    <3>1. \A c \in Runs : ~Standing(c)
      BY <1>o, <2>3 DEF Charge
    <3>2. rows' = rows /\ \A c \in Runs \ {r} : charged'[c] = charged[c]
      BY <2>3 DEF Charge, table, TypeOK
    <3>3. \A c \in Runs \ {r} : ~Standing(c)'
      BY <1>t, <3>1, <3>2 DEF Standing
    <3>4. act'[r].pc # "charge"
      BY <2>3, RunMoves DEF RunStep, Charge, At
    <3> QED
      BY <2>1, <3>3, <3>4 DEF At
  <2>4. CASE ~Charge(r)
    <3>1. \A c \in Runs : Standing(c)' => Standing(c)
      BY <1>1, <1>t, <2>2, <2>4, RunMoney DEF Standing
    <3>2. ASSUME act'[r].pc = "charge"
          PROVE  \A c \in Runs : ~Standing(c)
      <4>1. act[r].pc = "check"
        BY <1>1, <2>1, <3>2, RunMoves DEF Alive, RunStates, RunLabels, TypeOK, Early, At,
           Working
      <4>2. Check(r)
        BY <1>1, <4>1 DEF RunStep, ReadNode, Submit, Charge, Call, Store, Settle, Pay,
           RecordRefund,
           Review, Deliver, RecordGeneration, Hand, Fail, At
      <4>3. \A c \in Runs : ~Reusable(c)
        <5>1. ASSUME NEW c \in Runs,
                     act' = [act EXCEPT ![r] = [@ EXCEPT !.pc = "submit", !.key = c,
                                                         !.amount = charged[c]]]
              PROVE  FALSE
          <6>1. charged[c] \in Nat /\ act \in [Runs -> RunStates]
            BY DEF TypeOK
          <6> DEFINE s == [act[r] EXCEPT !.pc = "submit", !.key = c, !.amount = charged[c]]
          <6>2. act'[r] = s
            BY <5>1, <6>1
          <6>3. s.pc = "submit"
            BY <6>1 DEF RunStates
          <6> QED
            BY <3>2, <6>2, <6>3
        <5> QED
          BY <4>2, <5>1 DEF Check
      <4> QED
        BY <4>1, <4>3, StandingReusable DEF At
    <3> QED
      BY <1>o, <2>1, <3>1, <3>2 DEF At
  <2> QED
    BY <2>3, <2>4
<1>2. ASSUME NEW r \in Runs, Start(r) \/ Crash(r)
      PROVE  /\ \A c, d \in Runs : Standing(c)' /\ Standing(d)' => c = d
             /\ (\E q \in Runs : At(q, "charge")') => \A c \in Runs : ~Standing(c)'
  <2>1. UNCHANGED <<rows, charged>> /\ \A q \in Runs \ {r} : act'[q] = act[q]
    BY <1>2, RunFrame DEF Start, Crash, table, money
  <2>2. act'[r].pc \in {"read", "over"}
    BY <1>2, GotoType, LeaveType DEF Start, Crash, TypeOK, RunLabels
  <2>3. \A c \in Runs : Standing(c)' => Standing(c)
    BY <1>t, <2>1 DEF Standing
  <2>4. (\E q \in Runs : At(q, "charge")') => \E q \in Runs : At(q, "charge")
    BY <2>1, <2>2 DEF At
  <2> QED
    BY <1>o, <2>3, <2>4
<1>3. ASSUME NEW a \in Clicks, ClickStep(a)
      PROVE  act' = act /\ \A c \in Runs : Standing(c)' => Standing(c)
  <2>1. act' = act /\ charged' = charged
    BY <1>3 DEF ClickStep, Claim, ClickPay, Revert, Confirm, ClickCrash, money
  <2>2. CASE Claim(a)
    <3>1. PICK c \in Runs : Claimable(rows[c]) /\ rows' = [rows EXCEPT ![c] = ClaimForRefund(@)]
      BY <2>2 DEF Claim
    <3>2. rows'[c] = [status |-> rows[c].status, refunded |-> TRUE, task |-> None]
      BY <3>1, ClickRows DEF TypeOK
    <3>3. rows'[c].refunded /\ \A d \in Runs \ {c} : rows'[d] = rows[d]
      BY <3>1, <3>2 DEF TypeOK
    <3> QED
      BY <1>t, <2>1, <3>3 DEF Standing
  <2>3. CASE Revert(a)
    <3>1. click[a].row \in Runs /\ (trouble = "unacked" => charged[click[a].row] = 0)
      BY <2>3 DEF Revert, OnRow, ClicksHold, Occupied
    <3>2. \A d \in Runs : d # click[a].row => rows'[d] = rows[d]
      BY <2>3, <3>1 DEF Revert, TypeOK
    <3> QED
      BY <1>t, <2>1, <3>1, <3>2 DEF Standing
  <2>4. CASE Confirm(a)
    <3>1. click[a].row \in Runs
      BY <2>4 DEF Confirm, OnRow, ClicksHold, Occupied
    <3>2. rows' = rows \/ rows' = [rows EXCEPT ![click[a].row] = MarkRefundedFromClaim(@)]
      BY <2>4 DEF Confirm
    <3>3. rows' = rows \/ rows'[click[a].row] = Row1("refunded", TRUE)
      BY <3>1, <3>2, ClickRows DEF TypeOK
    <3>4. rows' = rows \/ rows'[click[a].row].refunded
      BY <3>3 DEF Row1
    <3>5. \A d \in Runs : d # click[a].row => rows'[d] = rows[d]
      BY <3>1, <3>2 DEF TypeOK
    <3> QED
      BY <1>t, <2>1, <3>4, <3>5 DEF Standing
  <2>5. CASE rows' = rows
    BY <1>t, <2>1, <2>5 DEF Standing
  <2> QED
    BY <1>3, <2>1, <2>2, <2>3, <2>4, <2>5 DEF ClickStep, ClickPay, ClickCrash, table
<1>4. CASE UNCHANGED <<rows, charged, act>>
  BY <1>o, <1>t, <1>4 DEF Standing, At
<1> QED
  BY <1>o, <1>1, <1>2, <1>3, <1>4 DEF Next, SkipDone, RefusePlan, Edit, Sweep, vars, money,
     table, At

LEMMA GoesBackStays ==
  ASSUME TypeOK, Base, trouble = "unacked", [Next]_vars
  PROVE  \A c \in Runs : GoesBack(c) => GoesBack(c)'
<1> USE DEF Base
<1> SUFFICES ASSUME NEW c \in Runs, GoesBack(c)
             PROVE  GoesBack(c)'
  OBVIOUS
<1>1. CASE PaidBack(c)
  <2>1. PaidBack(c)'
    BY <1>1, PaidBackStays
  <2> QED
    BY <2>1 DEF GoesBack, PaidBack
<1>2. CASE \E a \in Clicks : click[a] = [pc |-> "paying", row |-> c]
  <2>1. PICK a \in Clicks : click[a] = [pc |-> "paying", row |-> c]
    BY <1>2
  <2>2. CASE click'[a] = click[a]
    <3>1. \E b \in Clicks : click'[b] = [pc |-> "paying", row |-> c]
      BY <2>1, <2>2
    <3> QED
      BY <3>1 DEF GoesBack
  <2>3. CASE ClickPay(a)
    <3>1. bill' = [bill EXCEPT ![a] = [charge |-> click[a].row, amount |-> charged[click[a].row]]]
      BY <2>3 DEF ClickPay, Returned, Strikes
    <3>2. a \in Payers /\ bill'[a].charge = c
      BY <2>1, <3>1 DEF TypeOK, Payers
    <3> QED
      BY <3>2 DEF GoesBack, PaidBack
  <2>4. ASSUME NEW b \in Clicks, ClickStep(b), click'[a] # click[a]
        PROVE  ClickPay(a)
    <3>1. b = a
      BY <2>4, MoveType DEF ClickStep, Claim, ClickPay, Revert, Confirm, ClickCrash, TypeOK
    <3>2. ~ClickCrash(a)
      BY DEF ClickCrash, Strikes
    <3> QED
      BY <2>1, <2>4, <3>1, <3>2 DEF ClickStep, Claim, Revert, Confirm, OnRow
  <2>5. CASE click' = click
    BY <2>2, <2>5
  <2>6. ASSUME NEW r \in Runs, RunStep(r) \/ Start(r) \/ Crash(r)
        PROVE  click' = click
    BY <2>6, RunFrame
  <2> QED
    BY <2>2, <2>3, <2>4, <2>5, <2>6 DEF Next, SkipDone, RefusePlan, Edit, Sweep, vars
<1> QED
  BY <1>1, <1>2 DEF GoesBack

LEMMA RefundsArriveStep ==
  ASSUME TypeOK, Base, RefundsArrive, [Next]_vars
  PROVE  RefundsArrive'
<1> USE DEF Base
<1>t. trouble' = trouble
  BY Frame
<1> SUFFICES ASSUME trouble = "unacked"
             PROVE  /\ \A c \in Runs : charged'[c] > 0 /\ rows'[c].refunded => GoesBack(c)'
                    /\ \A r \in Runs : At(r, "recordRefund")' => GoesBack(act[r].key)'
  BY <1>t DEF RefundsArrive
<1>o. /\ \A c \in Runs : charged[c] > 0 /\ rows[c].refunded => GoesBack(c)
      /\ \A r \in Runs : At(r, "recordRefund") => GoesBack(act[r].key)
  BY DEF RefundsArrive
<1>g. \A c \in Runs : GoesBack(c) => GoesBack(c)'
  BY GoesBackStays
<1>k. ASSUME UNCHANGED <<rows, charged>>
      PROVE  \A c \in Runs : charged'[c] > 0 /\ rows'[c].refunded => GoesBack(c)'
  BY <1>o, <1>g, <1>k
\* GoesBack of the key a run has after the step, as the definition reads then.
<1>h. \A c \in Runs : GoesBack(c)' <=>
        (\/ \E p \in Payers : bill'[p].charge = c
         \/ \E a \in Clicks : click'[a] = [pc |-> "paying", row |-> c])
  BY DEF GoesBack, PaidBack
<1>1. ASSUME NEW r \in Runs, RunStep(r)
      PROVE  /\ \A c \in Runs : charged'[c] > 0 /\ rows'[c].refunded => GoesBack(c)'
             /\ \A q \in Runs : At(q, "recordRefund")' => GoesBack(act[q].key)'
  <2>1. Alive(r) /\ \A q \in Runs \ {r} : act'[q] = act[q] /\ act[q].pc \in {"idle", "over"}
    BY <1>1, RunFrame, RunMoves, Alone
  <2>2. CASE Charge(r)
    <3>1. rows' = rows /\ (\A c \in Runs \ {r} : charged'[c] = charged[c]) /\ ~rows[r].refunded
      BY <2>2 DEF Charge, table, TypeOK, At, Fresh, Early, NoRow
    <3>2. act'[r].pc # "recordRefund"
      BY <2>2, RunMoves DEF RunStep, Charge, At
    <3> QED
      BY <1>o, <1>g, <2>1, <3>1, <3>2 DEF At
  <2>3. CASE ~Charge(r)
    <3>1. charged' = charged
      BY <1>1, <2>3, RunMoney
    <3>2. \A c \in Runs : charged'[c] > 0 /\ rows'[c].refunded => GoesBack(c)'
      <4>1. CASE UNCHANGED <<rows, order>>
        BY <1>k, <3>1, <4>1
      <4>2. CASE At(r, "recordRefund") /\ WriteStep(r)
        <5>1. /\ act[r].key \in Runs /\ GoesBack(act[r].key)
              /\ \A d \in Runs \ {act[r].key} : rows'[d] = rows[d]
          BY <1>o, <4>2, RunWrites DEF At
        <5> QED
          BY <1>o, <1>g, <3>1, <5>1
      <4>3. ASSUME NEW s \in Statuses, Write(act[r].key, s, FALSE), act[r].pc \in Billed
            PROVE  \A c \in Runs : rows'[c].refunded => rows[c].refunded
        <5>1. act[r].key \in Runs
          BY <4>3, RunKey
        <5> DEFINE k == act[r].key
        <5>2. k \in Runs /\ Write(k, s, FALSE)
          BY <4>3, <5>1
        <5> HIDE DEF k
        <5>3. CASE rows'[k] = Row1(s, FALSE)
          <6>1. ~rows'[k].refunded
            BY <5>3 DEF Row1
          <6>2. \A d \in Runs \ {k} : rows'[d] = rows[d]
            BY <4>3, <5>2, WriteRow
          <6> QED
            BY <6>1, <6>2
        <5>4. CASE rows'[k].refunded = (rows[k].refunded \/ FALSE)
          BY <4>3, <5>2, <5>4, WriteRow
        <5>5. CASE rows'[k] = rows[k]
          BY <4>3, <5>2, <5>5, WriteRow
        <5> QED
          BY <4>3, <5>2, <5>3, <5>4, <5>5, WriteRow
      <4>4. CASE ~At(r, "recordRefund") /\ WriteStep(r)
        <5>1. \A c \in Runs : rows'[c].refunded => rows[c].refunded
          BY <4>3, <4>4 DEF WriteStep, At, Billed, Working, Statuses
        <5> QED
          BY <1>o, <1>g, <3>1, <5>1
      <4> QED
        BY <1>1, <4>1, <4>2, <4>4, RunTable
    <3>3. ASSUME act'[r].pc = "recordRefund"
          PROVE  GoesBack(act[r].key)'
      <4>1. act[r].pc \in {"settle", "pay"} /\ act'[r].key = act[r].key /\ act[r].key \in Runs
        BY <1>1, <3>3, RunMoves, RunKey DEF Working, Billed, Early, Alive, RunStates,
           RunLabels,
           TypeOK, At
      <4>2. CASE act[r].pc = "settle"
        <5>1. Settle(r)
          BY <1>1, <4>2 DEF RunStep, ReadNode, Check, Charge, Submit, Call, Store, Pay,
             Review,
             RecordRefund, Deliver, RecordGeneration, Hand, Fail, At
        <5>2. ~(act' = [act EXCEPT ![r] = [@ EXCEPT !.pc = "review", !.final = TRUE]])
          BY <3>3, FinalType DEF TypeOK
        <5>3. ~Goto(r, "review") /\ ~Goto(r, "pay")
          BY <3>3, GotoType DEF TypeOK, RunLabels
        <5>4. AlreadyRefunded(rows[act[r].key]) /\ act[r].amount > 0
          <6>1. act[r].amount > 0
            BY <5>1, <5>2, <5>3 DEF Settle
          <6>2. Goto(r, IF AlreadyRefunded(rows[act[r].key]) THEN "recordRefund" ELSE "pay")
            BY <5>1, <5>2, <5>3 DEF Settle
          <6>3. CASE ~AlreadyRefunded(rows[act[r].key])
            BY <5>3, <6>2, <6>3
          <6> QED
            BY <6>1, <6>3
        <5>5. rows[act[r].key].refunded /\ charged[act[r].key] > 0
          BY <4>1, <4>2, <5>4 DEF AlreadyRefunded, RowsAreTrue, Holding, HoldsCharge,
             Billed, Working
        <5>6. GoesBack(act[r].key)
          BY <1>o, <4>1, <5>5
        <5>7. \/ \E p \in Payers : bill'[p].charge = act[r].key
              \/ \E a \in Clicks : click'[a] = [pc |-> "paying", row |-> act[r].key]
          BY <1>g, <1>h, <4>1, <5>6
        <5> QED
          BY <4>1, <5>7 DEF GoesBack, PaidBack
      <4>3. CASE act[r].pc = "pay"
        <5>1. Pay(r)
          BY <1>1, <4>3 DEF RunStep, ReadNode, Check, Charge, Submit, Call, Store, Settle,
             Review,
             RecordRefund, Deliver, RecordGeneration, Hand, Fail, At
        <5>2. bill' = [bill EXCEPT ![r] = [charge |-> act[r].key, amount |-> act[r].amount]]
          BY <5>1 DEF Pay, Strikes, Returned
        <5>3. r \in Payers /\ bill'[r].charge = act[r].key
          BY <5>2 DEF TypeOK, Payers
        <5> QED
          BY <4>1, <5>3 DEF GoesBack, PaidBack
      <4> QED
        BY <4>1, <4>2, <4>3
    <3> QED
      BY <2>1, <3>2, <3>3 DEF At
  <2> QED
    BY <2>2, <2>3
<1>2. ASSUME UNCHANGED <<rows, charged>>,
             \A q \in Runs : At(q, "recordRefund")' => At(q, "recordRefund") /\ act'[q].key = act[q].key
      PROVE  /\ \A c \in Runs : charged'[c] > 0 /\ rows'[c].refunded => GoesBack(c)'
             /\ \A q \in Runs : At(q, "recordRefund")' => GoesBack(act[q].key)'
  <2> SUFFICES ASSUME NEW q \in Runs, At(q, "recordRefund")'
               PROVE  GoesBack(act[q].key)'
    BY <1>2, <1>k
  <2>1. act'[q].key = act[q].key /\ act[q].key \in Runs /\ GoesBack(act[q].key)
    BY <1>2, <1>o, RunKey DEF At, Billed, Working
  <2>2. \/ \E p \in Payers : bill'[p].charge = act[q].key
        \/ \E a \in Clicks : click'[a] = [pc |-> "paying", row |-> act[q].key]
    BY <1>g, <1>h, <2>1
  <2> QED
    BY <2>1, <2>2 DEF GoesBack, PaidBack
<1>3. ASSUME NEW r \in Runs, Start(r) \/ Crash(r)
      PROVE  /\ \A c \in Runs : charged'[c] > 0 /\ rows'[c].refunded => GoesBack(c)'
             /\ \A q \in Runs : At(q, "recordRefund")' => GoesBack(act[q].key)'
  <2>1. UNCHANGED <<rows, charged>> /\ \A q \in Runs \ {r} : act'[q] = act[q]
    BY <1>3, RunFrame DEF Start, Crash, table, money
  <2>2. act'[r].pc \in {"read", "over"}
    BY <1>3, GotoType, LeaveType DEF Start, Crash, TypeOK, RunLabels
  <2>3. \A q \in Runs : At(q, "recordRefund")' => At(q, "recordRefund") /\ act'[q].key = act[q].key
    BY <2>1, <2>2 DEF At
  <2> QED
    BY <1>2, <2>1, <2>3
<1>4. ASSUME NEW a \in Clicks, ClickStep(a)
      PROVE  /\ \A c \in Runs : charged'[c] > 0 /\ rows'[c].refunded => GoesBack(c)'
             /\ \A q \in Runs : At(q, "recordRefund")' => GoesBack(act[q].key)'
  <2>1. act' = act /\ charged' = charged
    BY <1>4 DEF ClickStep, Claim, ClickPay, Revert, Confirm, ClickCrash, money
  <2>2. \A q \in Runs : At(q, "recordRefund")' => GoesBack(act[q].key)'
    <3> SUFFICES ASSUME NEW q \in Runs, At(q, "recordRefund")'
                 PROVE  GoesBack(act[q].key)'
      OBVIOUS
    <3>1. act'[q].key = act[q].key /\ act[q].key \in Runs /\ GoesBack(act[q].key)
      BY <2>1, <1>o, RunKey DEF At, Billed, Working
    <3>2. \/ \E p \in Payers : bill'[p].charge = act[q].key
          \/ \E b \in Clicks : click'[b] = [pc |-> "paying", row |-> act[q].key]
      BY <1>g, <1>h, <3>1
    <3> QED
      BY <3>1, <3>2 DEF GoesBack, PaidBack
  <2>3. \A c \in Runs : charged'[c] > 0 /\ rows'[c].refunded => GoesBack(c)'
    <3>1. CASE Claim(a)
      <4>1. PICK c \in Runs :
              /\ Claimable(rows[c]) /\ rows' = [rows EXCEPT ![c] = ClaimForRefund(@)]
              /\ click' = [click EXCEPT ![a] =
                             [pc |-> IF charged[c] = 0 THEN "reverting" ELSE "paying", row |-> c]]
        BY <3>1 DEF Claim
      <4>2. \A d \in Runs \ {c} : rows'[d] = rows[d]
        BY <4>1 DEF TypeOK
      <4>3. charged[c] > 0 => click'[a] = [pc |-> "paying", row |-> c]
        BY <4>1 DEF TypeOK
      <4>4. charged[c] > 0 => GoesBack(c)'
        BY <1>h, <4>3
      <4> QED
        BY <1>o, <1>g, <2>1, <4>2, <4>4
    <3>2. CASE Revert(a) \/ Confirm(a)
      <4>1. click[a].row \in Runs /\ rows[click[a].row].refunded
        BY <3>2 DEF Revert, Confirm, OnRow, ClicksHold, Occupied
      <4>2. \A d \in Runs : d # click[a].row => rows'[d] = rows[d]
        BY <3>2, <4>1 DEF Revert, Confirm, TypeOK
      <4>3. \A c \in Runs : rows'[c].refunded => rows[c].refunded
        BY <4>1, <4>2
      <4> QED
        BY <1>o, <1>g, <2>1, <4>3
    <3>3. CASE rows' = rows
      BY <1>k, <2>1, <3>3
    <3> QED
      BY <1>4, <3>1, <3>2, <3>3 DEF ClickStep, ClickPay, ClickCrash, table
  <2> QED
    BY <2>2, <2>3
<1>5. CASE UNCHANGED <<rows, charged, act>>
  BY <1>2, <1>5 DEF At
<1> QED
  BY <1>1, <1>3, <1>4, <1>5 DEF Next, SkipDone, RefusePlan, Edit, Sweep, vars, money, table

-----------------------------------------------------------------------------
(* Undisturbed, nothing that was charged is forgotten *)

\* A run hands its charge on, settles it, or opens it to the administrator.
LEMMA HeldRunStep ==
  ASSUME TypeOK, Base, RowsFollowRuns, NotRepeated, NEW r \in Runs, RunStep(r), NEW c \in Runs,
         act[r].pc \in Billed \cup {"handed"}, act[r].key = c
  PROVE  HeldByRun(c)' \/ Settled(c)'
<1> USE DEF Base
<1>0. RunFollowed(r)
  BY DEF RowsFollowRuns
<1>1. CASE act[r].pc = "recordRefund"
  <2>1. PaidBack(c)
    BY <1>0, <1>1 DEF RunFollowed, At
  <2>2. PaidBack(c)'
    BY <2>1, PaidBackStays DEF Next
  <2> QED
    BY <2>2 DEF Settled, PaidBack
<1>2. CASE act[r].pc = "review"
  <2>1. WriteStep(r)
    BY <1>2 DEF RunStep, ReadNode, Check, Charge, Submit, Call, Store, Settle, Pay,
       RecordRefund,
       Review, Deliver, RecordGeneration, Hand, Fail, At, WriteStep
  <2>2. rows'[c] = Row1("pending_review", FALSE)
    BY <1>2, <2>1, FixedWrites DEF At
  <2> QED
    BY <2>2 DEF Settled, Claimable, Row1
<1>3. CASE act[r].pc = "handed"
  <2>1. Hand(r)
    BY <1>3 DEF RunStep, ReadNode, Check, Charge, Submit, Call, Store, Settle, Pay,
       RecordRefund,
       Review, Deliver, RecordGeneration, Fail, At
  <2>2. c \in given'
    BY <2>1, SyncChargeAssumption DEF Hand, Payers
  <2> QED
    BY <2>2 DEF Settled
<1>4. CASE act[r].pc \notin {"recordRefund", "review", "handed"}
  <2>1. act'[r].pc \in Billed \cup {"handed"} /\ act'[r].key = c
    BY <1>4, RunMoves DEF Billed, Working
  <2> QED
    BY <2>1 DEF HeldByRun
<1> QED
  BY <1>1, <1>2, <1>3, <1>4

LEMMA VerdictStays ==
  ASSUME TypeOK, [Next]_vars, ~Edit
  PROVE  input'.verdict = input.verdict
<1>1. ASSUME NEW r \in Runs, Hand(r)
      PROVE  input'.verdict = input.verdict
  BY <1>1 DEF Hand, TypeOK, InputStates
<1>2. ASSUME NEW r \in Runs, RunStep(r), ~Hand(r)
      PROVE  input' = input
  BY <1>2 DEF RunStep, ReadNode, Check, Charge, Submit, Call, Store, Settle, Pay,
     RecordRefund,
     Review, Deliver, RecordGeneration, Fail, node
<1>3. CASE input' = input
  BY <1>3
<1> QED
  BY <1>1, <1>2, <1>3 DEF Next, ClickStep, Start, Crash, Claim, ClickPay, Revert, Confirm,
     ClickCrash,
     SkipDone, RefusePlan, Sweep, node, vars

LEMMA NothingForgottenStep ==
  ASSUME TypeOK, Base, RowsFollowRuns, ChargesKnown, OneStands, OneStands',
  NothingForgotten,
         [Next]_vars
  PROVE  NothingForgotten'
<1> USE DEF Base
<1>t. trouble' = trouble
  BY Frame
<1> SUFFICES ASSUME Undisturbed
             PROVE  /\ \A c \in Runs : charged'[c] > 0 =>
                         input'.verdict = "ready" /\ (Settled(c)' \/ Pending(c)')
                    /\ exec' = "done" => msg' = "gone"
                    /\ (\E r \in Runs : act'[r].pc \in {"check", "charge"}) =>
                         input'.verdict = "ready"
  BY <1>t DEF NothingForgotten, Undisturbed
<1>o. /\ \A c \in Runs : charged[c] > 0 =>
           input.verdict = "ready" /\ (Settled(c) \/ HeldByRun(c) \/ WaitsForRun(c) \/ HeldByClick(c))
      /\ exec = "done" => msg = "gone"
      /\ (\E r \in Runs : act[r].pc \in {"check", "charge"}) => input.verdict = "ready"
  BY DEF NothingForgotten, Pending
<1>u. /\ NotRepeated /\ EveryChargeHasRow /\ trouble # "unacked" /\ trouble # "direct"
      /\ trouble # "edit" /\ trouble # "gone" /\ trouble # "unread" /\ trouble # "click"
      /\ trouble # "stale" /\ trouble # "unrecorded"
  BY DEF Undisturbed, NotRepeated, EveryChargeHasRow
<1>v. input'.verdict = input.verdict
  BY <1>u, VerdictStays DEF Edit, Strikes
<1>p. \A c \in Runs : PaidBack(c) => PaidBack(c)'
  BY PaidBackStays
<1>s. ASSUME NEW c \in Runs, Settled(c), rows'[c] = rows[c], given \subseteq given'
      PROVE  Settled(c)'
  BY <1>p, <1>s DEF Settled, PaidBack
<1>m. msg # "direct"
  BY <1>u DEF Serial
<1>1. ASSUME NEW r \in Runs, RunStep(r)
      PROVE  /\ \A c \in Runs : charged'[c] > 0 =>
                  input'.verdict = "ready" /\ (Settled(c)' \/ Pending(c)')
             /\ exec' = "done" => msg' = "gone"
             /\ (\E q \in Runs : act'[q].pc \in {"check", "charge"}) => input'.verdict = "ready"
  <2>1. /\ Alive(r) /\ \A q \in Runs \ {r} : act'[q] = act[q] /\ act[q].pc \in {"idle", "over"}
        /\ click' = click /\ msg # "queued"
    BY <1>1, RunFrame, RunMoves, Alone DEF Serial
  <2>2. exec' = "done" => msg' = "gone"
    <3>1. ASSUME ~Hand(r), ~Fail(r)
          PROVE  exec' = exec /\ msg' = msg
      BY <1>1, <3>1 DEF RunStep, ReadNode, Check, Charge, Submit, Call, Store, Settle, Pay,
         RecordRefund, Review, Deliver, RecordGeneration, sched
    <3> QED
      BY <1>o, <3>1 DEF Hand, Fail
  <2>3. act'[r].pc \in {"check", "charge"} => input'.verdict = "ready"
    <3> SUFFICES ASSUME act'[r].pc \in {"check", "charge"}
                 PROVE  input.verdict = "ready"
      BY <1>v
    <3>1. act[r].pc \in {"read", "check"}
      BY <1>1, RunMoves DEF Alive, RunStates, RunLabels, TypeOK, Early, At, Working
    <3>2. CASE act[r].pc = "read"
      <4>1. ReadNode(r)
        BY <1>1, <3>2 DEF RunStep, Submit, Check, Charge, Call, Store, Settle, Pay,
           RecordRefund,
           Review, Deliver, RecordGeneration, Hand, Fail, At
      <4>2. ~Goto(r, "ended") /\ ~Goto(r, "handed")
        BY GotoType DEF TypeOK, RunLabels
      <4> QED
        BY <4>1, <4>2 DEF ReadNode, TypeOK, InputStates
    <3>3. CASE act[r].pc = "check"
      BY <1>o, <3>3
    <3> QED
      BY <3>1, <3>2, <3>3
  <2>4. ASSUME NEW c \in Runs, charged'[c] > 0
        PROVE  input'.verdict = "ready" /\ (Settled(c)' \/ Pending(c)')
    <3>1. CASE Charge(r)
      <4>1. \A d \in Runs : ~(charged[d] > 0)
        BY <1>u, <3>1 DEF OneStands, Standing, Charge
      <4>2. charged' # charged
        BY <2>4, <4>1
      <4>3. /\ charged' = [charged EXCEPT ![r] = Cost]
            /\ act' = [act EXCEPT ![r] = [@ EXCEPT !.pc = "submit", !.key = r, !.amount = Cost]]
        BY <3>1, <4>2 DEF Charge
      <4>4. act'[r].pc = "submit" /\ c = r
        BY <2>4, <4>1, <4>3, CostNat, ChargeType DEF TypeOK
      <4>5. act'[r].key = r
        BY <3>1, <4>4, ChargeKey
      <4>6. input.verdict = "ready"
        BY <1>o, <3>1 DEF Charge, At
      <4> QED
        BY <1>v, <4>4, <4>5, <4>6 DEF Pending, HeldByRun, Billed
    <3>2. CASE ~Charge(r)
      <4>0. charged[c] > 0 /\ input.verdict = "ready"
        BY <1>1, <1>o, <2>4, <3>2, RunMoney
      <4>1. CASE act[r].pc \in Billed \cup {"handed"} /\ act[r].key = c
        BY <1>1, <1>u, <1>v, <4>0, <4>1, HeldRunStep DEF Pending
      <4>2. CASE ~(act[r].pc \in Billed \cup {"handed"} /\ act[r].key = c)
        <5>1. rows'[c] = rows[c]
          <6>1. CASE WriteStep(r)
            <7>1. act[r].pc \in Billed
              BY <6>1 DEF WriteStep, At, Billed, Working
            <7> QED
              BY <1>u, <4>2, <6>1, <7>1, FixedWrites
          <6> QED
            BY <1>1, <6>1, RunTable
        <5>2. given \subseteq given'
          BY <1>1 DEF RunStep, ReadNode, Check, Charge, Submit, Call, Store, Settle, Pay,
             RecordRefund, Review, Deliver, RecordGeneration, Hand, Fail
        <5>3. CASE Settled(c)
          BY <1>s, <1>v, <4>0, <5>1, <5>2, <5>3
        <5>4. CASE HeldByClick(c)
          BY <1>v, <2>1, <4>0, <5>4 DEF HeldByClick, Pending
        <5>5. CASE HeldByRun(c)
          BY <2>1, <4>2, <5>5 DEF HeldByRun, Billed, Working
        <5>6. CASE WaitsForRun(c)
          <6>1. act[r].pc \in {"read", "check"} /\ Fixed(rows[c])
            BY <2>1, <5>6 DEF WaitsForRun
          <6>2. CASE act[r].pc = "read"
            <7>1. ReadNode(r)
              BY <1>1, <6>2 DEF RunStep, Submit, Check, Charge, Call, Store, Settle, Pay,
                 RecordRefund,
                 Review, Deliver, RecordGeneration, Hand, Fail, At
            <7>2. Goto(r, "check")
              BY <1>u, <4>0, <7>1 DEF ReadNode, Strikes
            <7>3. act'[r].pc = "check"
              BY <7>2, GotoType DEF TypeOK, RunLabels
            <7> QED
              BY <1>v, <4>0, <5>1, <6>1, <7>3 DEF Pending, WaitsForRun, Fixed
          <6>3. CASE act[r].pc = "check"
            <7>1. Check(r)
              BY <1>1, <6>3 DEF RunStep, Submit, ReadNode, Charge, Call, Store, Settle, Pay,
                 RecordRefund, Review, Deliver, RecordGeneration, Hand, Fail, At
            <7>2. act'[r].pc \in {"charge", "submit"}
              BY <1>1, <6>3, RunMoves
            <7>3. act'[r].pc # "charge"
              <8>1. Standing(c)'
                BY <1>t, <1>u, <2>4 DEF Standing
              <8>2. EveryChargeHasRow'
                BY <1>t, <1>u DEF EveryChargeHasRow
              <8> QED
                BY <8>1, <8>2 DEF OneStands, At
            <7>4. act'[r].pc = "submit" /\ act'[r].key \in Runs /\ charged[act'[r].key] > 0
              BY <7>1, <7>2, <7>3, CheckKey, ReusableRow
            <7>5. act'[r].key = c
              <8>1. \A d \in Runs : charged[d] > 0 => Standing(d)
                BY <1>u DEF Standing
              <8>2. \A d \in Runs : Standing(d) => d = c
                BY <1>u, <4>0, <8>1 DEF OneStands
              <8> QED
                BY <7>4, <8>1, <8>2
            <7> QED
              BY <1>v, <4>0, <7>4, <7>5 DEF Pending, HeldByRun, Billed
          <6> QED
            BY <6>1, <6>2, <6>3
        <5> QED
          BY <1>o, <4>0, <5>3, <5>4, <5>5, <5>6
      <4> QED
        BY <4>1, <4>2
    <3> QED
      BY <3>1, <3>2
  <2>5. \A q \in Runs : act'[q].pc \in {"check", "charge"} => q = r
    BY <2>1
  <2> QED
    BY <2>2, <2>3, <2>4, <2>5
<1>2. ASSUME NEW r \in Runs, Start(r)
      PROVE  /\ \A c \in Runs : charged'[c] > 0 =>
                  input'.verdict = "ready" /\ (Settled(c)' \/ Pending(c)')
             /\ exec' = "done" => msg' = "gone"
             /\ (\E q \in Runs : act'[q].pc \in {"check", "charge"}) => input'.verdict = "ready"
  <2>1. /\ UNCHANGED <<rows, charged, given, click>> /\ act'[r].pc = "read"
        /\ \A q \in Runs \ {r} : act'[q] = act[q]
        /\ \A q \in Runs : act[q].pc \in {"idle", "over"}
    BY <1>2, RunFrame, GotoType DEF Start, table, money, TypeOK, RunLabels, Alive
  <2>2. exec' # "done"
    BY <1>2, <1>m DEF Start
  <2>3. ASSUME NEW c \in Runs, charged'[c] > 0
        PROVE  input'.verdict = "ready" /\ (Settled(c)' \/ Pending(c)')
    <3>0. charged[c] > 0 /\ input.verdict = "ready"
      BY <1>o, <2>1, <2>3
    <3>1. CASE Settled(c)
      BY <1>s, <1>v, <2>1, <3>0, <3>1
    <3>2. CASE HeldByRun(c)
      BY <2>1, <3>2 DEF HeldByRun, Billed, Working
    <3>3. CASE WaitsForRun(c)
      BY <1>v, <2>1, <3>0, <3>3 DEF WaitsForRun, Pending, Fixed
    <3>4. CASE HeldByClick(c)
      BY <1>v, <2>1, <3>0, <3>4 DEF HeldByClick, Pending
    <3> QED
      BY <1>o, <3>0, <3>1, <3>2, <3>3, <3>4
  <2>4. \A q \in Runs : act'[q].pc \notin {"check", "charge"}
    BY <2>1
  <2> QED
    BY <2>2, <2>3, <2>4
<1>3. ASSUME NEW r \in Runs, Crash(r)
      PROVE  /\ \A c \in Runs : charged'[c] > 0 =>
                  input'.verdict = "ready" /\ (Settled(c)' \/ Pending(c)')
             /\ exec' = "done" => msg' = "gone"
             /\ (\E q \in Runs : act'[q].pc \in {"check", "charge"}) => input'.verdict = "ready"
  <2>1. /\ UNCHANGED <<rows, charged, given, click, exec>> /\ act'[r].pc = "over" /\ Alive(r)
        /\ \A q \in Runs \ {r} : act'[q] = act[q] /\ act[q].pc \in {"idle", "over"}
    BY <1>3, RunFrame, LeaveType, Alone DEF Crash, table, money, TypeOK
  <2>2. msg = "taken" /\ msg' = "queued"
    BY <1>3, <1>u, <2>1 DEF Crash, Serial
  <2>3. ASSUME NEW c \in Runs, charged'[c] > 0
        PROVE  input'.verdict = "ready" /\ (Settled(c)' \/ Pending(c)')
    <3>0. charged[c] > 0 /\ input.verdict = "ready"
      BY <1>o, <2>1, <2>3
    <3>1. CASE Settled(c)
      BY <1>s, <1>v, <2>1, <3>0, <3>1
    <3>2. CASE HeldByRun(c)
      <4>1. act[r].pc \in Billed \cup {"handed"} /\ act[r].key = c /\ RunFollowed(r)
        BY <1>u, <2>1, <3>2 DEF HeldByRun, Billed, Working, RowsFollowRuns
      <4>2. act[r].pc \notin {"history", "handed"} /\ ~(act[r].pc = "submit" /\ c = r)
        BY <1>3, <1>u, <4>1 DEF Crash, At, Strikes
      <4>3. Fixed(rows[c])
        BY <4>1, <4>2 DEF RunFollowed, At, Billed, Working
      <4> QED
        BY <1>v, <2>1, <2>2, <3>0, <4>3 DEF Pending, WaitsForRun, Fixed
    <3>3. CASE WaitsForRun(c)
      BY <1>v, <2>1, <2>2, <3>0, <3>3 DEF WaitsForRun, Pending, Fixed
    <3>4. CASE HeldByClick(c)
      BY <1>v, <2>1, <3>0, <3>4 DEF HeldByClick, Pending
    <3> QED
      BY <1>o, <3>0, <3>1, <3>2, <3>3, <3>4
  <2>4. \A q \in Runs : act'[q].pc \notin {"check", "charge"}
    BY <2>1
  <2> QED
    BY <1>o, <2>1, <2>2, <2>3, <2>4
<1>4. ASSUME NEW a \in Clicks, ClickStep(a)
      PROVE  /\ \A c \in Runs : charged'[c] > 0 =>
                  input'.verdict = "ready" /\ (Settled(c)' \/ Pending(c)')
             /\ exec' = "done" => msg' = "gone"
             /\ (\E q \in Runs : act'[q].pc \in {"check", "charge"}) => input'.verdict = "ready"
  <2>1. UNCHANGED <<act, charged, given, msg, exec>>
    BY <1>4 DEF ClickStep, Claim, ClickPay, Revert, Confirm, ClickCrash, money, sched
  <2>2. ASSUME NEW c \in Runs, rows'[c] = rows[c],
               \A b \in Clicks : click[b].pc \in {"paying", "reverting"} /\ click[b].row = c =>
                 click'[b].pc \in {"paying", "reverting"} /\ click'[b].row = c,
               charged[c] > 0
        PROVE  input'.verdict = "ready" /\ (Settled(c)' \/ Pending(c)')
    <3>0. input.verdict = "ready"
      BY <1>o, <2>2
    <3>1. CASE Settled(c)
      BY <1>s, <1>v, <2>1, <2>2, <3>0, <3>1
    <3>2. CASE HeldByRun(c)
      BY <1>v, <2>1, <3>0, <3>2 DEF HeldByRun, Pending
    <3>3. CASE WaitsForRun(c)
      BY <1>v, <2>1, <2>2, <3>0, <3>3 DEF WaitsForRun, Pending, Fixed
    <3>4. CASE HeldByClick(c)
      BY <1>v, <2>1, <2>2, <3>0, <3>4 DEF HeldByClick, Pending
    <3> QED
      BY <1>o, <2>2, <3>1, <3>2, <3>3, <3>4
  <2>3. ASSUME NEW c \in Runs, charged'[c] > 0
        PROVE  input'.verdict = "ready" /\ (Settled(c)' \/ Pending(c)')
    <3>0. charged[c] > 0 /\ input.verdict = "ready"
      BY <1>o, <2>1, <2>3
    <3>1. CASE Claim(a)
      <4>1. PICK d \in Runs :
              /\ rows' = [rows EXCEPT ![d] = ClaimForRefund(@)]
              /\ click' = [click EXCEPT ![a] =
                             [pc |-> IF charged[d] = 0 THEN "reverting" ELSE "paying", row |-> d]]
        BY <3>1 DEF Claim
      <4>2. /\ \A e \in Runs \ {d} : rows'[e] = rows[e]
            /\ click'[a].row = d /\ click'[a].pc \in {"paying", "reverting"}
            /\ \A b \in Clicks \ {a} : click'[b] = click[b]
            /\ click[a].pc = "idle"
        BY <3>1, <4>1 DEF TypeOK, Claim, OnRow
      <4>3. CASE c = d
        BY <1>v, <3>0, <4>2, <4>3 DEF HeldByClick, Pending
      <4>4. CASE c # d
        BY <2>2, <3>0, <4>2, <4>4
      <4> QED
        BY <4>3, <4>4
    <3>2. CASE ClickPay(a)
      <4>1. rows' = rows /\ \A b \in Clicks \ {a} : click'[b] = click[b]
        BY <3>2, MoveType DEF ClickPay, table, TypeOK
      <4>2. CASE click'[a].pc = "reverting" /\ click'[a].row = click[a].row
        BY <2>2, <3>0, <4>1, <4>2
      <4>3. CASE Move(a, "confirming")
        <5>1. click[a].row \in Runs
          BY <3>2 DEF ClickPay, OnRow, ClicksHold, Occupied
        <5>2. CASE bill' # bill /\ c = click[a].row
          <6>1. bill' = [bill EXCEPT ![a] = [charge |-> click[a].row,
                                             amount |-> charged[click[a].row]]]
            BY <3>2, <5>2 DEF ClickPay, Returned
          <6>2. a \in Payers /\ bill'[a].charge = c
            BY <5>2, <6>1 DEF TypeOK, Payers
          <6>3. PaidBack(c)'
            BY <6>2 DEF PaidBack
          <6> QED
            BY <1>v, <3>0, <6>3 DEF Settled, PaidBack
        <5>3. CASE c # click[a].row
          BY <2>2, <3>0, <4>1, <5>3
        <5>4. CASE bill' = bill /\ c = click[a].row
          <6>1. ~Paid(a)
            BY <3>2 DEF ClickPay, OnRow, Bills, Payers
          <6>2. click'[a].pc # "reverting"
            BY <4>3, MoveType DEF TypeOK
          <6>3. ~Move(a, "reverting")
            BY <6>2, MoveType DEF TypeOK
          <6>4. bill' = [bill EXCEPT ![a] = [charge |-> click[a].row,
                                             amount |-> charged[click[a].row]]]
            BY <3>2, <6>3 DEF ClickPay, Returned
          <6>5. bill'[a].charge = click[a].row
            BY <6>4 DEF TypeOK, Payers
          <6>6. click[a].row # None
            BY <5>1, SyncChargeAssumption DEF Payers
          <6> QED
            BY <5>4, <6>1, <6>5, <6>6 DEF Paid
        <5> QED
          BY <5>2, <5>3, <5>4
      <4> QED
        BY <3>2, <4>2, <4>3, MoveType DEF ClickPay, TypeOK
    <3>3. CASE Revert(a)
      <4>1. /\ click[a].row \in Runs /\ rows' = [rows EXCEPT ![click[a].row] = RevertRefund(@)]
            /\ \A b \in Clicks \ {a} : click'[b] = click[b]
        BY <3>3, MoveType DEF Revert, OnRow, ClicksHold, Occupied, TypeOK
      <4>2. CASE c = click[a].row
        <5>1. rows'[c] = Row1("pending_review", FALSE)
          BY <4>1, <4>2, ClickRows DEF TypeOK
        <5> QED
          BY <1>v, <3>0, <5>1 DEF Settled, Claimable, Row1
      <4>3. CASE c # click[a].row
        <5>1. rows'[c] = rows[c]
          BY <4>1, <4>3 DEF TypeOK
        <5> QED
          BY <2>2, <3>0, <4>1, <4>3, <5>1
      <4> QED
        BY <4>2, <4>3
    <3>4. CASE Confirm(a)
      <4>1. /\ click[a].row \in Runs /\ bill[a].charge = click[a].row
            /\ \A b \in Clicks \ {a} : click'[b] = click[b]
            /\ click[a].pc = "confirming"
        BY <3>4, MoveType DEF Confirm, OnRow, ClicksHold, Occupied, TypeOK
      <4>2. CASE c = click[a].row
        <5>1. PaidBack(c)'
          BY <1>p, <4>1, <4>2 DEF PaidBack, Payers
        <5> QED
          BY <1>v, <3>0, <5>1 DEF Settled, PaidBack
      <4>3. CASE c # click[a].row
        <5>1. rows'[c] = rows[c]
          BY <3>4, <4>1, <4>3 DEF TypeOK, Confirm
        <5> QED
          BY <2>2, <3>0, <4>1, <4>3, <5>1
      <4> QED
        BY <4>2, <4>3
    <3> QED
      BY <1>4, <1>u, <3>1, <3>2, <3>3, <3>4 DEF ClickStep, ClickCrash, Strikes
  <2> QED
    BY <1>o, <1>v, <2>1, <2>3
<1>5. CASE SkipDone \/ RefusePlan \/ Edit \/ Sweep
  BY <1>o, <1>u, <1>5 DEF SkipDone, RefusePlan, Edit, Sweep, Strikes
<1>6. CASE UNCHANGED vars
  BY <1>o, <1>6 DEF vars, Settled, Pending, HeldByRun, WaitsForRun, HeldByClick, PaidBack,
     Fixed
<1> QED
  BY <1>1, <1>2, <1>3, <1>4, <1>5, <1>6 DEF Next

-----------------------------------------------------------------------------
(* The invariant *)

LEMMA InitType ==
  ASSUME Init
  PROVE  TypeOK
<1>0. /\ 0 \in 0..MaxFaults /\ 0 \in 0..MaxRetry /\ 0 \in 0..MaxAsked
      /\ unit \in Units /\ credits \in Nat /\ None \notin Runs
  BY SyncChargeAssumption DEF Init, Payers
<1>1. input \in InputStates /\ kind \in Kinds
  BY ReadType DEF Init
<1>2. NoRun \in RunStates
  BY <1>0 DEF NoRun, RunStates, RunLabels, MaybeRun
<1>3. [pc |-> "idle", row |-> None] \in ClickStates
  BY DEF ClickStates, MaybeRun
<1>4. NoRow \in Row({})
  BY DEF NoRow, Row
<1>5. NoBill \in [charge : MaybeRun, amount : Nat]
  BY DEF NoBill, MaybeRun
<1>6. act \in [Runs -> RunStates] /\ click \in [Clicks -> ClickStates]
  BY <1>2, <1>3 DEF Init
<1>7. /\ charged \in [Runs -> Nat] /\ bill \in [Payers -> [charge : MaybeRun, amount : Nat]]
      /\ rows \in [Runs -> Row({})] /\ order \in Seq(Runs)
  BY <1>4, <1>5 DEF Init
<1>8. /\ msg \in {"queued", "direct", "taken", "gone"} /\ retries \in 0..MaxRetry
      /\ exec \in {"pending", "running", "done", "failed"} /\ closed \in BOOLEAN
      /\ given \subseteq Runs /\ trouble \in Troubles /\ faults \in 0..MaxFaults
  BY <1>0 DEF Init
<1> QED
  BY <1>0, <1>1, <1>6, <1>7, <1>8 DEF TypeOK

LEMMA InitInv ==
  ASSUME Init
  PROVE  IInv
<1>0. /\ None \notin Runs /\ None \notin Clicks /\ Payers = Runs \cup Clicks
      /\ \A r \in Runs : act[r] = NoRun /\ charged[r] = 0 /\ rows[r] = NoRow
      /\ \A a \in Clicks : click[a] = [pc |-> "idle", row |-> None]
      /\ \A p \in Payers : bill[p] = NoBill
      /\ order = <<>> /\ given = {} /\ exec = "pending"
      /\ msg = IF trouble = "direct" THEN "direct" ELSE "queued"
  BY SyncChargeAssumption DEF Init, Payers
<1>1. /\ \A r \in Runs : act[r].pc = "idle" /\ act[r].key = None
      /\ \A a \in Clicks : click[a].pc = "idle"
      /\ \A p \in Payers : bill[p].charge = None /\ ~Paid(p)
      /\ \A c \in Runs : ~PaidBack(c)
      /\ \A c \in Runs : rows[c].status = "absent" /\ ~rows[c].refunded /\ ~Exists(rows[c])
      /\ \A c \in Runs : ~Claimable(rows[c])
  BY <1>0 DEF NoRun, NoBill, NoRow, Paid, PaidBack, Exists, Claimable
<1>2. Base
  <2>1. Serial /\ Holding
    BY <1>0, <1>1 DEF Serial, Holding, Alive, Billed, Working, At
  <2>2. Fresh
    <3>1. ASSUME NEW r \in Runs
          PROVE  act[r] = [NoRun EXCEPT !.pc = act[r].pc]
      BY <1>0 DEF NoRun
    <3> QED
      BY <1>0, <3>1 DEF Fresh
  <2>3. Listed /\ RowsAreTrue
    BY <1>0, <1>1 DEF Listed, RowsAreTrue
  <2>4. Bills /\ ClicksHold
    BY <1>0, <1>1 DEF Bills, ClicksHold, Occupied
  <2> QED
    BY <2>1, <2>2, <2>3, <2>4 DEF Base
<1>3. ReturnedOnce
  BY <1>1 DEF ReturnedOnce
<1>4. RowsTellRefunds
  BY <1>0, <1>1 DEF RowsTellRefunds, Working, At
<1>5. RowsFollowRuns /\ GivenStays
  BY <1>0, <1>1 DEF RowsFollowRuns, GivenStays, Occupied, AllFixed, RunFollowed, At, Working
<1>6. ChargesKnown /\ OneStands /\ RefundsArrive /\ NothingForgotten
  BY <1>0, <1>1 DEF ChargesKnown, OneStands, Standing, RefundsArrive, NothingForgotten, At
<1> QED
  BY InitType, <1>2, <1>3, <1>4, <1>5, <1>6 DEF IInv

LEMMA InvStep ==
  ASSUME IInv, [Next]_vars
  PROVE  IInv'
<1>1. TypeOK' /\ Base'
  BY BaseStep DEF IInv
<1>2. RowsTellRefunds' /\ ReturnedOnce'
  BY <1>1, RowsTellRefundsStep, ReturnedOnceStep DEF IInv
<1>3. RowsFollowRuns' /\ GivenStays'
  BY RowsFollowRunsStep, GivenStaysStep DEF IInv
<1>4. ChargesKnown' /\ OneStands' /\ RefundsArrive'
  BY ChargesKnownStep, OneStandsStep, RefundsArriveStep DEF IInv
<1>5. NothingForgotten'
  BY <1>4, NothingForgottenStep DEF IInv
<1> QED
  BY <1>1, <1>2, <1>3, <1>4, <1>5 DEF IInv

\* The inductive invariant: one run at a time, its row and its charge in step
\* (executor.go:86 on, queue.go's lock on a message).
THEOREM InvHolds == Spec => []IInv
BY InitInv, InvStep, PTL DEF Spec

-----------------------------------------------------------------------------
(* What follows from it *)

\* Every variable keeps its type; the credits of the user never go below zero.
THEOREM TypeCorrect == Spec => []TypeOK
<1>1. IInv => TypeOK
  BY DEF IInv
<1> QED
  BY <1>1, InvHolds, PTL

\* settleFailure and RefundManually together return a charge at most once, whole,
\* and only what was taken, however often the execution is run and the button
\* pressed (billing/doc.go, first hard rule).
THEOREM RefundedAtMostOnce == Spec => []ReturnedOnce
<1>1. IInv => ReturnedOnce
  BY DEF IInv
<1> QED
  BY <1>1, InvHolds, PTL

\* A row that reads "delivered" is in nobody's way: no run repays it, no click
\* claims it.
LEMMA GivenIsPaid ==
  ASSUME IInv
  PROVE  DeliveredStaysPaid
<1> SUFFICES ASSUME trouble \notin {"unsettled", "unacked", "record"},
                    NEW c \in given, PaidBack(c)
             PROVE  FALSE
  BY DEF DeliveredStaysPaid
<1>1. c \in Runs /\ Recorded /\ NotRepeated
  BY DEF IInv, TypeOK, Recorded, NotRepeated
<1>2. rows[c] = Row1("delivered", FALSE) /\ \A r \in Runs : Alive(r) => At(r, "handed")
  BY <1>1 DEF IInv, GivenStays
<1>3. ~rows[c].refunded
  BY <1>2 DEF Row1
<1>4. \E r \in Runs : At(r, "recordRefund")
  BY <1>1, <1>3 DEF IInv, RowsTellRefunds
<1> QED
  BY <1>2, <1>4 DEF Alive, At

\* What the user received stays paid, unless a refund is cut off from its row, a
\* settled run is repeated, or the table loses a write (billing/doc.go, second
\* hard rule).
THEOREM WhatIsGivenStaysPaid == Spec => []DeliveredStaysPaid
<1>1. IInv => DeliveredStaysPaid
  BY GivenIsPaid
<1> QED
  BY <1>1, InvHolds, PTL

LEMMA OneIsCharged ==
  ASSUME IInv
  PROVE  ChargedOnce
<1> SUFFICES ASSUME trouble \notin {"unrecorded", "record"}, NEW c \in Runs, NEW d \in Runs,
                    c # d, charged[c] > 0, charged[d] > 0
             PROVE  trouble = "unacked" /\ (GoesBack(c) \/ GoesBack(d))
  BY DEF ChargedOnce
<1>1. ~(Standing(c) /\ Standing(d))
  BY DEF IInv, OneStands, EveryChargeHasRow
<1>2. trouble = "unacked" /\ (rows[c].refunded \/ rows[d].refunded)
  BY <1>1 DEF Standing
<1> QED
  BY <1>2 DEF IInv, RefundsArrive

\* chargeAlreadyDone: one click, one charge, however often the queue runs it; the
\* second charge of a run repeated after its settlement is only taken while the
\* first goes back.
THEOREM OneClickOneCharge == Spec => []ChargedOnce
<1>1. IInv => ChargedOnce
  BY OneIsCharged
<1> QED
  BY <1>1, InvHolds, PTL

LEMMA QuietIsSettled ==
  ASSUME IInv
  PROVE  SettledWhenQuiet
<1> SUFFICES ASSUME trouble \in {"none", "unsettled", "pay"}, Quiet,
                    NEW c \in Runs, charged[c] > 0, ~Settled(c)
             PROVE  FALSE
  BY DEF SettledWhenQuiet
<1>1. Pending(c)
  BY DEF IInv, NothingForgotten, Undisturbed
<1>2. ~HeldByRun(c)
  BY DEF Quiet, HeldByRun, Alive, Billed, Working
<1>3. ~WaitsForRun(c)
  BY DEF Quiet, WaitsForRun, Alive
<1>4. ~HeldByClick(c)
  BY DEF Quiet, HeldByClick
<1> QED
  BY <1>1, <1>2, <1>3, <1>4 DEF Pending

\* No charge is lost between the runs: once everything is still it was delivered,
\* returned, or waits on a row the administrator can refund (billing/policy.go).
THEOREM NoChargeIsForgotten == Spec => []SettledWhenQuiet
<1>1. IInv => SettledWhenQuiet
  BY QuietIsSettled
<1> QED
  BY <1>1, InvHolds, PTL

-----------------------------------------------------------------------------
(* The life of a charge *)

LEMMA FateOf ==
  ASSUME NEW c, Orderly
  PROVE  /\ charged[c] = 0 => StateOfCharge(c) = "none"
         /\ charged[c] > 0 /\ PaidBack(c) => StateOfCharge(c) = "returned"
         /\ charged[c] > 0 /\ ~PaidBack(c) /\ c \in given => StateOfCharge(c) = "delivered"
         /\ charged[c] > 0 /\ charged[c] # 0 /\ ~PaidBack(c) /\ c \notin given =>
              StateOfCharge(c) = "open"
BY DEF StateOfCharge

Paying == {p \in Payers : Paid(p)}
ChargedRuns == {c \in Runs : charged[c] > 0}
Fate == [c \in Runs |-> StateOfCharge(c)]

LEMMA FiniteMoney ==
  ASSUME IsFiniteSet(Runs), IsFiniteSet(Clicks)
  PROVE  /\ IsFiniteSet(Paying) /\ Cardinality(Paying) \in Nat
         /\ IsFiniteSet(ChargedRuns) /\ Cardinality(ChargedRuns) \in Nat
<1>1. IsFiniteSet(Payers)
  BY FS_Union DEF Payers
<1>2. Paying \in SUBSET Payers /\ ChargedRuns \in SUBSET Runs
  BY DEF Paying, ChargedRuns
<1>3. IsFiniteSet(Paying) /\ IsFiniteSet(ChargedRuns)
  BY <1>1, <1>2, FS_Subset
<1> QED
  BY <1>3, FS_CardinalityType

\* A charge that changes its fate alone changes the function of fates there.
LEMMA FateMoves ==
  ASSUME TypeOK, TypeOK', trouble' = trouble, Orderly, NEW c \in Runs,
         \A d \in Runs \ {c} : /\ PaidBack(d)' <=> PaidBack(d)
                               /\ d \in given' <=> d \in given
                               /\ charged'[d] = charged[d]
  PROVE  Fate' = [Fate EXCEPT ![c] = StateOfCharge(c)']
<1>1. ASSUME NEW d \in Runs \ {c}
      PROVE  StateOfCharge(d)' = StateOfCharge(d)
  <2>1. Orderly'
    BY DEF Orderly
  <2>2. charged[d] = 0 \/ charged[d] > 0
    BY DEF TypeOK
  <2>3. /\ charged'[d] = 0 => StateOfCharge(d)' = "none"
        /\ charged'[d] > 0 /\ PaidBack(d)' => StateOfCharge(d)' = "returned"
        /\ charged'[d] > 0 /\ ~PaidBack(d)' /\ d \in given' => StateOfCharge(d)' = "delivered"
        /\ charged'[d] > 0 /\ charged'[d] # 0 /\ ~PaidBack(d)' /\ d \notin given' =>
             StateOfCharge(d)' = "open"
    BY <2>1 DEF StateOfCharge
  <2>4. charged[d] > 0 => charged[d] # 0
    BY DEF TypeOK
  <2> QED
    BY <2>2, <2>3, <2>4, FateOf
<1> QED
  BY <1>1 DEF Fate

LEMMA SameFate ==
  ASSUME UNCHANGED <<charged, bill, given, trouble>>
  PROVE  Fate' = Fate /\ Balance' = Balance
BY DEF Fate, StateOfCharge, PaidBack, Balance, Paid, Orderly

\* Charge: the user pays; nothing else stands.
LEMMA ChargeTakes ==
  ASSUME IsFiniteSet(Runs), IsFiniteSet(Clicks), IInv, TypeOK', Orderly, trouble' = trouble,
         NEW r \in Runs, Charge(r), charged' # charged, Cost > 0
  PROVE  /\ Fate[r] = "none" /\ \A d \in Runs : Fate[d] \in {"none", "returned"}
         /\ Fate' = [Fate EXCEPT ![r] = "open"]
         /\ Balance' = Balance - 1
<1>0. TypeOK /\ Base /\ OneStands /\ GivenStays /\ RowsFollowRuns /\ None \notin Runs
  BY SyncChargeAssumption DEF IInv, Payers
<1>1. /\ At(r, "charge") /\ charged' = [charged EXCEPT ![r] = Cost]
      /\ UNCHANGED <<bill, given>>
  BY DEF Charge
<1>2. \A c \in Runs : charged[c] = 0
  <2>1. \A c \in Runs : ~(charged[c] > 0)
    BY <1>0, <1>1 DEF OneStands, EveryChargeHasRow, Standing, Orderly
  <2> QED
    BY <1>0, <2>1 DEF TypeOK
<1>3. \A d \in Runs : Fate[d] = "none"
  BY <1>2, FateOf DEF Fate
<1>4. charged'[r] = Cost /\ \A d \in Runs \ {r} : charged'[d] = charged[d]
  BY <1>0, <1>1 DEF TypeOK
<1>5. \A c \in Runs : PaidBack(c)' <=> PaidBack(c)
  BY <1>1 DEF PaidBack
<1>6. ~PaidBack(r)
  <2>1. \A p \in Payers : bill[p].charge = r => bill[p].amount = 0 /\ bill[p].amount > 0
    BY <1>0, <1>2 DEF Base, Bills, Paid
  <2>2. \A p \in Payers : bill[p].charge # r
    BY <1>0, <2>1 DEF TypeOK
  <2> QED
    BY <2>2 DEF PaidBack
<1>7. r \notin given
  BY <1>0, <1>1 DEF GivenStays, NotRepeated, Orderly, Alive, At
<1>8. StateOfCharge(r)' = "open"
  <2>1. Orderly' /\ ~PaidBack(r)' /\ r \notin given' /\ charged'[r] > 0 /\ charged'[r] # 0
    <3>1. charged'[r] > 0 /\ charged'[r] # 0
      BY <1>0, <1>4, CostNat DEF TypeOK
    <3>2. Orderly'
      BY DEF Orderly
    <3> QED
      BY <1>1, <1>5, <1>6, <1>7, <3>1, <3>2
  <2> QED
    BY <2>1 DEF StateOfCharge
<1>9. Fate' = [Fate EXCEPT ![r] = "open"]
  BY <1>0, <1>1, <1>4, <1>5, <1>8, FateMoves
<1>10. Balance' = Balance - 1
  <2>1. Paying' = Paying
    BY <1>1 DEF Paying, Paid
  <2>2. ChargedRuns' = ChargedRuns \cup {r} /\ r \notin ChargedRuns
    BY <1>2, <1>4 DEF ChargedRuns
  <2>3. Cardinality(ChargedRuns') = Cardinality(ChargedRuns) + 1
    BY <2>2, FiniteMoney, FS_AddElement
  <2>4. Orderly'
    BY DEF Orderly
  <2>5. Balance = Cardinality(Paying) - Cardinality(ChargedRuns)
    BY DEF Balance, Paying, ChargedRuns
  <2>6. Balance' = Cardinality(Paying') - Cardinality(ChargedRuns')
    BY <2>4 DEF Balance, Paying, ChargedRuns
  <2> QED
    BY <2>1, <2>3, <2>5, <2>6, FiniteMoney
<1> QED
  BY <1>3, <1>9, <1>10

\* A result that reaches the user was paid for and is not returned.
LEMMA RunGives ==
  ASSUME IInv, TypeOK', Orderly, trouble' = trouble, NEW r \in Runs, NEW c \in Runs,
         At(r, "history") \/ At(r, "handed"), act[r].key = c,
         given' = given \cup {c}, UNCHANGED <<charged, bill>>,
         charged[c] > 0, c \notin given
  PROVE  /\ Fate[c] = "open" /\ Fate' = [Fate EXCEPT ![c] = "delivered"]
         /\ Balance' = Balance
<1>0. /\ TypeOK /\ Base /\ RowsTellRefunds /\ RowsFollowRuns /\ NotRepeated /\ Recorded
      /\ None \notin Runs
  BY SyncChargeAssumption DEF IInv, Payers, Orderly, NotRepeated, Recorded
<1>1. rows[c] = Row1("delivered", FALSE)
  BY <1>0 DEF RowsFollowRuns, RunFollowed
<1>2. ~PaidBack(c)
  <2>1. ~rows[c].refunded
    BY <1>1 DEF Row1
  <2>2. \A q \in Runs : ~At(q, "recordRefund")
    BY <1>0, Alone DEF Base, At, Alive
  <2> QED
    BY <1>0, <2>1, <2>2 DEF RowsTellRefunds
<1>3. \A d \in Runs : PaidBack(d)' <=> PaidBack(d)
  BY DEF PaidBack
<1>4. Orderly' /\ charged[c] # 0 /\ charged'[c] > 0
  BY <1>0 DEF Orderly, TypeOK
<1>5. StateOfCharge(c) = "open"
  BY <1>2, <1>4, FateOf
<1>6. StateOfCharge(c)' = "delivered"
  <2>1. ~PaidBack(c)' /\ c \in given' /\ charged'[c] # 0
    BY <1>2, <1>3, <1>4
  <2> QED
    BY <1>4, <2>1 DEF StateOfCharge
<1>7. Fate' = [Fate EXCEPT ![c] = "delivered"]
  <2>1. \A d \in Runs \ {c} : (d \in given' <=> d \in given) /\ charged'[d] = charged[d]
    OBVIOUS
  <2> QED
    BY <1>0, <1>3, <1>6, <2>1, FateMoves
<1>8. Balance' = Balance
  BY DEF Balance, Paid, Orderly
<1> QED
  BY <1>5, <1>7, <1>8 DEF Fate

\* A payer who had paid nothing returns an open charge.
LEMMA PayerReturns ==
  ASSUME IsFiniteSet(Runs), IsFiniteSet(Clicks), TypeOK, TypeOK', Orderly,
         trouble' = trouble, NEW p \in Payers, NEW c \in Runs, ~Paid(p),
         bill'[p].charge = c, \A q \in Payers \ {p} : bill'[q] = bill[q],
         UNCHANGED <<charged, given>>, charged[c] > 0, ~PaidBack(c), c \notin given
  PROVE  /\ Fate[c] = "open" /\ Fate' = [Fate EXCEPT ![c] = "returned"]
         /\ Balance' = Balance + 1
<1>0. None \notin Runs /\ Orderly' /\ charged[c] # 0 /\ charged'[c] > 0
  BY SyncChargeAssumption DEF Payers, Orderly, TypeOK
<1>1. PaidBack(c)'
  BY DEF PaidBack
<1>2. ASSUME NEW d \in Runs \ {c}
      PROVE  PaidBack(d)' <=> PaidBack(d)
  BY <1>0 DEF PaidBack, Paid
<1>3. StateOfCharge(c) = "open"
  BY <1>0, FateOf
<1>4. StateOfCharge(c)' = "returned"
  <2>1. charged'[c] # 0
    BY <1>0
  <2> QED
    BY <1>0, <1>1, <2>1 DEF StateOfCharge
<1>5. Fate' = [Fate EXCEPT ![c] = "returned"]
  BY <1>2, <1>4, FateMoves
<1>6. Balance' = Balance + 1
  <2>1. ChargedRuns' = ChargedRuns
    BY DEF ChargedRuns
  <2>2. Paying' = Paying \cup {p} /\ p \notin Paying
    BY <1>0 DEF Paying, Paid
  <2>3. Cardinality(Paying') = Cardinality(Paying) + 1
    BY <2>2, FiniteMoney, FS_AddElement
  <2>4. Balance = Cardinality(Paying) - Cardinality(ChargedRuns)
    BY DEF Balance, Paying, ChargedRuns
  <2>5. Balance' = Cardinality(Paying') - Cardinality(ChargedRuns')
    BY <1>0 DEF Balance, Paying, ChargedRuns
  <2> QED
    BY <2>1, <2>3, <2>4, <2>5, FiniteMoney
<1> QED
  BY <1>3, <1>5, <1>6 DEF Fate

\* Pay: the model refused, the credits come back.
LEMMA RunReturns ==
  ASSUME IsFiniteSet(Runs), IsFiniteSet(Clicks), IInv, TypeOK', Orderly, trouble' = trouble,
         NEW r \in Runs, Pay(r), bill' # bill
  PROVE  \E c \in Runs : /\ Fate[c] = "open" /\ Fate' = [Fate EXCEPT ![c] = "returned"]
                         /\ Balance' = Balance + 1
<1>0. /\ TypeOK /\ Base /\ RowsTellRefunds /\ GivenStays /\ NotRepeated /\ Recorded
      /\ None \notin Runs /\ r \in Payers
  BY SyncChargeAssumption DEF IInv, Payers, Orderly, NotRepeated, Recorded
<1>1. /\ bill' = [bill EXCEPT ![r] = [charge |-> act[r].key, amount |-> act[r].amount]]
      /\ At(r, "pay") /\ UNCHANGED <<charged, given>>
  BY DEF Pay, Returned
<1>2. PICK c \in Runs : c = act[r].key /\ charged[c] > 0
  BY <1>0, <1>1 DEF Base, Holding, HoldsCharge, Billed, Working, At
<1>3. bill'[r].charge = c /\ \A q \in Payers \ {r} : bill'[q] = bill[q]
  BY <1>0, <1>1, <1>2 DEF TypeOK
<1>4. ~Paid(r)
  BY <1>0, <1>1 DEF Base, Bills, At
<1>5. ~PaidBack(c)
  <2>1. ~rows[c].refunded
    BY <1>0, <1>1, <1>2 DEF RowsTellRefunds
  <2>2. \A q \in Runs : ~At(q, "recordRefund")
    BY <1>0, <1>1, Alone DEF Base, At, Alive
  <2> QED
    BY <1>0, <2>1, <2>2 DEF RowsTellRefunds
<1>6. c \notin given
  BY <1>0, <1>1 DEF GivenStays, Alive, At
<1> QED
  BY <1>0, <1>1, <1>2, <1>3, <1>4, <1>5, <1>6, PayerReturns

\* RefundOnChannel: the administrator returns the charge of the row he claimed.
LEMMA ClickReturns ==
  ASSUME IsFiniteSet(Runs), IsFiniteSet(Clicks), IInv, TypeOK', Orderly, trouble' = trouble,
         NEW a \in Clicks, ClickPay(a), bill' # bill
  PROVE  \E c \in Runs : /\ Fate[c] = "open" /\ Fate' = [Fate EXCEPT ![c] = "returned"]
                         /\ Balance' = Balance + 1
<1>0. /\ TypeOK /\ Base /\ RowsTellRefunds /\ GivenStays /\ RowsFollowRuns
      /\ NotRepeated /\ Recorded /\ None \notin Runs /\ a \in Payers /\ a \notin Runs
  BY SyncChargeAssumption DEF IInv, Payers, Orderly, NotRepeated, Recorded
<1>1. /\ bill' = [bill EXCEPT ![a] = [charge |-> click[a].row,
                                      amount |-> charged[click[a].row]]]
      /\ click[a].pc = "paying" /\ UNCHANGED <<charged, given>>
  BY DEF ClickPay, Returned, OnRow
<1>2. PICK c \in Runs : c = click[a].row /\ charged[c] > 0
  BY <1>0, <1>1 DEF Base, ClicksHold, Occupied
<1>3. bill'[a].charge = c /\ \A q \in Payers \ {a} : bill'[q] = bill[q]
  BY <1>0, <1>1, <1>2 DEF TypeOK
<1>4. ~Paid(a)
  BY <1>0, <1>1 DEF Base, Bills
<1>5. ~PaidBack(c)
  BY <1>0, <1>1, <1>2 DEF RowsTellRefunds
<1>6. c \notin given
  <2>1. rows[c].status = "pending_review"
    BY <1>0, <1>1, <1>2 DEF RowsFollowRuns, Occupied
  <2> QED
    BY <1>0, <2>1 DEF GivenStays, Row1
<1> QED
  BY <1>0, <1>1, <1>2, <1>3, <1>4, <1>5, <1>6, PayerReturns

\* Nothing else touches the money or what the user received.
LEMMA MoneySteps ==
  ASSUME Next
  PROVE  \/ UNCHANGED <<charged, bill, given>>
         \/ \E r \in Runs : Charge(r) \/ RecordGeneration(r) \/ Hand(r) \/ Pay(r)
         \/ \E a \in Clicks : ClickPay(a)
<1>1. ASSUME NEW r \in Runs, ReadNode(r) \/ Check(r) \/ Submit(r) \/ Call(r) \/ Store(r)
             \/ Settle(r) \/ RecordRefund(r)
      PROVE  UNCHANGED <<charged, bill, given>>
  BY <1>1 DEF ReadNode, Check, Submit, Call, Store, Settle, RecordRefund, money
<1>2. ASSUME NEW r \in Runs, Review(r) \/ Deliver(r) \/ Fail(r) \/ Start(r) \/ Crash(r)
      PROVE  UNCHANGED <<charged, bill, given>>
  BY <1>2 DEF Review, Deliver, Fail, Start, Crash, money
<1>3. ASSUME NEW a \in Clicks, Claim(a) \/ Revert(a) \/ Confirm(a) \/ ClickCrash(a)
      PROVE  UNCHANGED <<charged, bill, given>>
  BY <1>3 DEF Claim, Revert, Confirm, ClickCrash, money
<1>4. CASE SkipDone \/ RefusePlan \/ Edit \/ Sweep
  BY <1>4 DEF SkipDone, RefusePlan, Edit, Sweep, money
<1> QED
  BY <1>1, <1>2, <1>3, <1>4 DEF Next, RunStep, ClickStep

LEMMA LifecycleInit ==
  ASSUME Init
  PROVE  Lifecycle!Init
<1>1. /\ \A c \in Runs : charged[c] = 0
      /\ \A p \in Payers : ~Paid(p)
  BY DEF Init, Paid, NoBill
<1>2. \A c \in Runs : StateOfCharge(c) = "none"
  BY <1>1 DEF StateOfCharge
<1>3. Balance = 0
  <2>1. {p \in Payers : Paid(p)} = {} /\ {c \in Runs : charged[c] > 0} = {}
    BY <1>1
  <2> QED
    BY <2>1, FS_EmptySet DEF Balance
<1> QED
  BY <1>2, <1>3 DEF Lifecycle!Init

LEMMA LifecycleStep ==
  ASSUME IsFiniteSet(Runs), IsFiniteSet(Clicks), IInv, [Next]_vars
  PROVE  [Lifecycle!Next]_(Lifecycle!lifecycle)
<1>0. TypeOK /\ TypeOK' /\ Base /\ trouble' = trouble /\ None \notin Runs
  BY BaseStep, Frame, SyncChargeAssumption DEF IInv, Payers
<1>1. CASE UNCHANGED <<charged, bill, given>>
  <2>1. Fate' = Fate /\ Balance' = Balance
    BY <1>0, <1>1, SameFate
  <2> QED
    BY <2>1 DEF Fate, Lifecycle!lifecycle
<1>2. CASE ~Orderly
  <2>1. Fate' = Fate /\ Balance' = Balance
    BY <1>0, <1>2 DEF Fate, StateOfCharge, Balance, Orderly
  <2> QED
    BY <2>1 DEF Fate, Lifecycle!lifecycle
<1>3. ASSUME Orderly, NEW r \in Runs, Charge(r), charged' # charged
      PROVE  Lifecycle!Next
  <2>1. Cost > 0
    <3>1. /\ At(r, "charge") /\ charged' = [charged EXCEPT ![r] = Cost]
          /\ act[r].pc \in Early
      BY <1>3 DEF Charge, At, Early
    <3>2. charged[r] = 0 /\ Cost \in Nat
      BY <1>0, <3>1, CostNat DEF Base, Fresh, TypeOK
    <3>3. Cost # 0
      BY <1>0, <1>3, <3>1, <3>2 DEF TypeOK
    <3> QED
      BY <3>2, <3>3
  <2>2. /\ Fate[r] = "none" /\ \A d \in Runs : Fate[d] \in {"none", "returned"}
        /\ Fate' = [Fate EXCEPT ![r] = "open"] /\ Balance' = Balance - 1
    BY <1>0, <1>3, <2>1, ChargeTakes
  <2> QED
    BY <2>2 DEF Fate, Lifecycle!Next, Lifecycle!Take
<1>4. ASSUME Orderly, NEW r \in Runs, RecordGeneration(r) \/ Hand(r)
      PROVE  [Lifecycle!Next]_(Lifecycle!lifecycle)
  <2>1. /\ UNCHANGED <<charged, bill>>
        /\ At(r, "history") \/ At(r, "handed")
        /\ given' = given \/ given' = given \cup {act[r].key}
        /\ act[r].key = None => At(r, "history") \/ given' = given
    BY <1>4 DEF RecordGeneration, Hand, money, At
  <2>2. CASE given' = given
    BY <1>1, <2>1, <2>2
  <2>3. CASE given' # given
    <3>1. PICK c \in Runs : c = act[r].key
      BY <1>0, <2>1, <2>3 DEF Base, Holding, HoldsCharge, Billed, At
    <3>2. c \notin given /\ given' = given \cup {c}
      BY <2>1, <2>3, <3>1
    <3>3. CASE charged[c] > 0
      <4>1. /\ Fate[c] = "open" /\ Fate' = [Fate EXCEPT ![c] = "delivered"]
            /\ Balance' = Balance
        BY <1>0, <1>4, <2>1, <3>1, <3>2, <3>3, RunGives
      <4> QED
        BY <4>1 DEF Fate, Lifecycle!Next, Lifecycle!Deliver
    <3>4. CASE charged[c] = 0
      <4>1. StateOfCharge(c)' = "none" /\ StateOfCharge(c) = "none"
        BY <2>1, <3>4 DEF StateOfCharge
      <4>2. Fate' = [Fate EXCEPT ![c] = StateOfCharge(c)']
        <5>1. \A d \in Runs : PaidBack(d)' <=> PaidBack(d)
          BY <2>1 DEF PaidBack
        <5> QED
          BY <1>0, <1>4, <2>1, <3>2, <5>1, FateMoves
      <4>3. Fate' = Fate
        BY <4>1, <4>2 DEF Fate
      <4>4. Balance' = Balance
        BY <1>0, <2>1 DEF Balance, Paid, Orderly
      <4> QED
        BY <4>3, <4>4 DEF Fate, Lifecycle!lifecycle
    <3> QED
      BY <1>0, <3>3, <3>4 DEF TypeOK
  <2> QED
    BY <2>2, <2>3
<1>5. ASSUME Orderly, NEW r \in Runs, Pay(r), bill' # bill
      PROVE  Lifecycle!Next
  <2>1. PICK c \in Runs : /\ Fate[c] = "open" /\ Fate' = [Fate EXCEPT ![c] = "returned"]
                          /\ Balance' = Balance + 1
    BY <1>0, <1>5, RunReturns
  <2> QED
    BY <2>1 DEF Fate, Lifecycle!Next, Lifecycle!Return
<1>6. ASSUME Orderly, NEW a \in Clicks, ClickPay(a), bill' # bill
      PROVE  Lifecycle!Next
  <2>1. PICK c \in Runs : /\ Fate[c] = "open" /\ Fate' = [Fate EXCEPT ![c] = "returned"]
                          /\ Balance' = Balance + 1
    BY <1>0, <1>6, ClickReturns
  <2> QED
    BY <2>1 DEF Fate, Lifecycle!Next, Lifecycle!Return
<1>7. \A r \in Runs : (Charge(r) => UNCHANGED <<bill, given>>)
                      /\ (Pay(r) => UNCHANGED <<charged, given>>)
  BY DEF Charge, Pay
<1>8. \A a \in Clicks : ClickPay(a) => UNCHANGED <<charged, given>>
  BY DEF ClickPay
<1>9. CASE Orderly /\ Next
  <2>1. CASE \E r \in Runs : Charge(r)
    BY <1>1, <1>3, <1>7, <1>9, <2>1
  <2>2. CASE \E r \in Runs : RecordGeneration(r) \/ Hand(r)
    BY <1>4, <1>9, <2>2
  <2>3. CASE \E r \in Runs : Pay(r)
    BY <1>1, <1>5, <1>7, <1>9, <2>3
  <2>4. CASE \E a \in Clicks : ClickPay(a)
    BY <1>1, <1>6, <1>8, <1>9, <2>4
  <2> QED
    BY <1>1, <1>9, <2>1, <2>2, <2>3, <2>4, MoneySteps
<1> QED
  BY <1>1, <1>2, <1>9 DEF vars

\* Runs, retries, rows and clicks together keep the promise of billing/doc.go step
\* by step: a charge is taken while nothing else stands, then delivered or
\* returned, once, and the credits move with it.
THEOREM SyncKeepsThePromise ==
  ASSUME IsFiniteSet(Runs), IsFiniteSet(Clicks)
  PROVE  Spec => ImplementsLifecycle
<1>1. Init => Lifecycle!Init
  BY LifecycleInit
<1>2. IInv /\ [Next]_vars => [Lifecycle!Next]_(Lifecycle!lifecycle)
  BY LifecycleStep
<1> QED
  BY <1>1, <1>2, InvHolds, PTL DEF Spec, ImplementsLifecycle, Lifecycle!Spec
=============================================================================
