------------------------------ MODULE Reconciliation ------------------------------
(***************************************************************************)
(* The page on which an administrator compares charges with upstream tasks *)
(* and gives money back.  From src/web/src/pages/admin/                    *)
(* ProviderTaskReconciliation.tsx; a row and its writers are those of      *)
(* ProviderTasks, the steps of a refund at the server those of VideoCharge *)
(* and are one step here.                                                  *)
(***************************************************************************)
EXTENDS Integers, FiniteSets, FiniteSetsExt, ProviderTasks

CONSTANTS
  MaxRow, OwnerOf,  \* rows 1 .. MaxRow, the newest first; the user of each
  PageSize,
  MaxActs

Rows == 1 .. MaxRow
Owners == {OwnerOf[r] : r \in Rows}
Any == "any"

VARIABLES
  row, credited,    \* the table, and how often a row's charge was given back
  status, user, page, typed, \* the query, and what stands in the input
  items, total, shown,  \* the answer: rows with their status, and what it answers
  loading, auditing, refunding, confirm, \* the spinners and the confirmation: the row, and the query behind it
  asks, sent, acts  \* requests under way; how often a list was asked for

table == <<row, credited>>
query == <<status, user, page, typed>>
answer == <<items, total, shown>>
flags == <<loading, auditing, refunding, confirm>>
vars == <<table, query, answer, flags, asks, sent, acts>>

Act == acts < MaxActs /\ acts' = acts + 1
Query(s, u, p) == [status |-> s, user |-> u, page |-> p]
Now == Query(status, user, page)
\* old: asked with the query of an earlier rendering.
Ask(kind, r, q, n, old) == [kind |-> kind, row |-> r, query |-> q, n |-> n, old |-> old]

\* What the server answers: the rows asked for, a page of them.
Selected(q) == {r \in Rows : /\ Exists(row[r]) /\ q.status \in {Any, row[r].status}
                             /\ q.user \in {Any, OwnerOf[r]}}
Place(r, q) == Cardinality({s \in Selected(q) : s > r})
PageOf(q) == {r \in Selected(q) : Place(r, q) \div PageSize = q.page - 1}
Pages(n) == (n + PageSize - 1) \div PageSize

LoadAfter(rest, q, old) ==
  /\ loading' = TRUE /\ sent' = sent + 1 /\ asks' = rest \cup {Ask("list", 0, q, sent + 1, old)}
Load(q) == LoadAfter(asks, q, FALSE)
\* Mutant: the first page is asked for, and the page stays where it was.
FilterFarDown(s, u) ==
  /\ status' = s /\ user' = u /\ page' = page
  /\ IF Query(s, u, 1) # Now THEN Load(Query(s, u, 1)) ELSE UNCHANGED <<loading, asks, sent>>
\* The effect runs when the query has changed.
Filter(s, u) ==
  /\ status' = s /\ user' = u /\ page' = 1
  /\ IF Query(s, u, 1) # Now THEN Load(Query(s, u, 1)) ELSE UNCHANGED <<loading, asks, sent>>
Free == confirm = <<>>

Init ==
  /\ row \in [Rows -> {[NoRow EXCEPT !.status = s] : s \in {"submitted", "pending_review"}}]
  /\ credited = [r \in Rows |-> 0]
  /\ status = Any /\ user = Any /\ page = 1 /\ typed = Any
  /\ items = {} /\ total = 0 /\ shown = Ask("list", 0, Query("none", Any, 1), 0, FALSE)
  /\ loading = TRUE /\ auditing = FALSE /\ refunding = FALSE /\ confirm = <<>>
  /\ asks = {Ask("list", 0, Now, 1, FALSE)} /\ sent = 1 /\ acts = 0

-----------------------------------------------------------------------------
SetStatus(s) ==
  /\ Free /\ s # status /\ Act /\ Filter(s, user)
  /\ UNCHANGED <<table, typed, answer, auditing, refunding, confirm>>
Type(u) ==
  /\ Free /\ u # typed /\ u # Any /\ Act /\ typed' = u
  /\ UNCHANGED <<table, status, user, page, answer, flags, asks, sent>>
PressEnter ==
  /\ Free /\ typed # user /\ Act /\ Filter(status, typed)
  /\ UNCHANGED <<table, typed, answer, auditing, refunding, confirm>>
Clear ==
  /\ Free /\ typed # Any /\ Act /\ typed' = Any /\ Filter(status, Any)
  /\ UNCHANGED <<table, answer, auditing, refunding, confirm>>
\* The refresh button applies what is typed, and asks again in any case.
Reload ==
  /\ Free /\ ~loading /\ Act
  /\ user' = typed /\ page' = 1 /\ Load(Query(status, typed, 1))
  /\ UNCHANGED <<table, status, typed, answer, auditing, refunding, confirm>>
TurnPage(p) ==
  /\ Free /\ p # page /\ p \in 1 .. Pages(total) /\ Act /\ page' = p /\ Load(Query(status, user, p))
  /\ UNCHANGED <<table, status, user, typed, answer, auditing, refunding, confirm>>

\* Answers come in any order; one that fails takes nothing from the page.
Told(a, kind) == a \in asks /\ a.kind = kind
ListTold(a) ==
  /\ Told(a, "list") /\ asks' = asks \ {a} /\ loading' = FALSE
  /\ items' = {[id |-> r, status |-> row[r].status] : r \in PageOf(a.query)}
  /\ total' = Cardinality(Selected(a.query)) /\ shown' = a
  /\ UNCHANGED <<table, query, auditing, refunding, confirm, sent, acts>>
\* Mutant: the spinner is stopped only by an answer.
ListFailsUnseen(a) ==
  /\ Told(a, "list") /\ asks' = asks \ {a}
  /\ UNCHANGED <<table, query, answer, flags, sent, acts>>
ListFails(a) ==
  /\ Told(a, "list") /\ asks' = asks \ {a} /\ loading' = FALSE
  /\ UNCHANGED <<table, query, answer, auditing, refunding, confirm, sent, acts>>

\* The check marks rows and then loads with the query it was started under.
RunAudit ==
  /\ Free /\ ~auditing /\ Act /\ auditing' = TRUE
  /\ asks' = asks \cup {Ask("audit", 0, Now, sent, FALSE)}
  /\ UNCHANGED <<table, query, answer, loading, refunding, confirm, sent>>
AuditTold(a) ==
  /\ Told(a, "audit") /\ auditing' = FALSE /\ LoadAfter(asks \ {a}, a.query, sent > a.n)
  /\ UNCHANGED <<table, query, answer, refunding, confirm, acts>>
AuditFails(a) ==
  /\ Told(a, "audit") /\ auditing' = FALSE /\ asks' = asks \ {a}
  /\ UNCHANGED <<table, query, answer, loading, refunding, confirm, sent, acts>>

\* The button stands in rows listed as undecided; the confirmation covers the page.
CanRefund(i) == i \in items /\ i.status \in {"pending_review", "failed"}
Refund(i) ==
  /\ Free /\ CanRefund(i) /\ Act
  /\ confirm' = <<i.id, Now>>
  /\ UNCHANGED <<table, query, answer, loading, auditing, refunding, asks, sent>>
ConfirmRefund ==
  /\ confirm # <<>> /\ ~refunding /\ Act /\ refunding' = TRUE
  /\ asks' = asks \cup {Ask("refund", confirm[1], confirm[2], sent, FALSE)}
  /\ UNCHANGED <<table, query, answer, loading, auditing, confirm, sent>>
GiveBack(r) ==
  /\ Claimable(row[r]) /\ row' = [row EXCEPT ![r] = MarkRefundedFromClaim(ClaimForRefund(@))]
  /\ credited' = [credited EXCEPT ![r] = @ + 1]
RefundTold(a) ==
  /\ Told(a, "refund") /\ GiveBack(a.row)
  /\ refunding' = FALSE /\ confirm' = <<>> /\ LoadAfter(asks \ {a}, a.query, FALSE)
  /\ UNCHANGED <<query, answer, auditing, acts>>
\* Refused or lost on the way, or done and the answer lost: the confirmation stays.
RefundFails(a) ==
  /\ Told(a, "refund") /\ (UNCHANGED table \/ GiveBack(a.row)) /\ refunding' = FALSE /\ asks' = asks \ {a}
  /\ UNCHANGED <<query, answer, loading, auditing, confirm, sent, acts>>
CancelRefund ==
  /\ confirm # <<>> /\ ~refunding /\ confirm' = <<>>
  /\ UNCHANGED <<table, query, answer, loading, auditing, refunding, asks, sent, acts>>

\* Elsewhere: the pipeline writes a row, another administrator decides one.
Write(r, s) ==
  /\ Act /\ Exists(row[r]) /\ s \in {"delivered", "pending_review"}
  /\ row' = [row EXCEPT ![r] = Upserted(@, [@ EXCEPT !.status = s])] /\ row' # row
  /\ UNCHANGED <<credited, query, answer, flags, asks, sent>>
RefundElsewhere(r) ==
  /\ Act /\ GiveBack(r)
  /\ UNCHANGED <<query, answer, flags, asks, sent>>

Answer == \E a \in asks :
  \/ ListTold(a) \/ ListFails(a) \/ AuditTold(a) \/ AuditFails(a)
  \/ RefundTold(a) \/ RefundFails(a)
Next ==
  \/ Answer \/ PressEnter \/ Clear \/ Reload \/ RunAudit \/ ConfirmRefund \/ CancelRefund
  \/ (\E s \in {Any, "pending_review", "refunded"} : SetStatus(s))
  \/ (\E u \in Owners : Type(u)) \/ (\E p \in 1 .. Pages(MaxRow) : TurnPage(p))
  \/ (\E i \in items : Refund(i))
  \/ \E r \in Rows : RefundElsewhere(r) \/ \E s \in {"delivered", "pending_review"} : Write(r, s)
Spec == Init /\ [][Next]_vars
Fairness == WF_vars(Answer)
FairSpec == Spec /\ Fairness

-----------------------------------------------------------------------------
\* The newest question is about the filters and the page that are set, however
\* filters, checks and refunds cross: when no list is under way and the rows
\* answer the last question, they are those asked for (load in
\* ProviderTaskReconciliation.tsx).  Not so after a check that outlasted a
\* change of the filters; and a list that failed, or came late, leaves other rows.
ListIsAsked ==
  {a \in asks : a.kind = "list"} = {} /\ shown.n = sent /\ ~shown.old => shown.query = Now

\* However old the row on the screen is, money goes back once, and not for a
\* task that has been delivered (canRefund, ClaimForRefund).
MoneyBackOnce == \A r \in Rows : credited[r] = (IF row[r].status = "refunded" THEN 1 ELSE 0)

\* The list that is to come and the buttons that are to come back.
Waits == {w \in {"list", "audit", "busy"} :
  CASE w = "list" -> loading [] w = "audit" -> auditing [] w = "busy" -> refunding}
=============================================================================
