--------------------------- MODULE ProviderTasks ---------------------------
(***************************************************************************)
(* One row of the reconciliation table provider_tasks and the four ways    *)
(* the program writes it (repository/provider_task_repo.go).  Every amount *)
(* of a row is the whole charge or nothing, so refunded_amount is a        *)
(* Boolean; the columns that only describe the call are left out.          *)
(***************************************************************************)

CONSTANT None   \* the empty task_id

Statuses == {"submitted", "delivered", "pending_review", "failed", "refunded"}

\* The table has no such row.
NoRow == [status |-> "absent", refunded |-> FALSE, task |-> None]

\* A row about an upstream task of `Tasks`, or about none yet.
Row(Tasks) ==
  [status : Statuses \cup {"absent"}, refunded : BOOLEAN, task : Tasks \cup {None}]

Exists(row) == row.status # "absent"

(***************************************************************************)
(* Upsert and upsertByChargeKey share the guard of their ON CONFLICT ...   *)
(* DO UPDATE ... WHERE: a refunded row takes no write, a delivered one     *)
(* only a delivery or a refund.                                            *)
(***************************************************************************)
WritableAlways(row, status) == TRUE   \* mutant: an upsert without its WHERE

Writable(row, status) ==
  IF status \in {"refunded", "delivered"}
  THEN row.status # "refunded"
  ELSE row.status \notin {"delivered", "failed", "refunded"}

\* refunded_amount only grows and a task_id is never blanked.
Merged(row, new) ==
  [status   |-> new.status,
   refunded |-> row.refunded \/ new.refunded,
   task     |-> IF new.task = None THEN row.task ELSE new.task]

Upserted(row, new) ==
  IF ~Exists(row) THEN new
  ELSE IF Writable(row, new.status) THEN Merged(row, new)
  ELSE row

(***************************************************************************)
(* The manual refund: a compare-and-set occupies the row by writing the    *)
(* refunded amount, and the outcome either confirms or reverts it.  The    *)
(* last two are unconditional UPDATEs.                                     *)
(***************************************************************************)
ClaimableTwice(row) ==   \* mutant: no compare on refunded_amount
  row.status \in {"pending_review", "failed"}

Claimable(row) == ~row.refunded /\ row.status \in {"pending_review", "failed"}

ClaimForRefund(row) == [row EXCEPT !.refunded = TRUE]

MarkRefundedFromClaim(row) == [row EXCEPT !.status = "refunded", !.refunded = TRUE]

RevertRefund(row) == [row EXCEPT !.status = "pending_review", !.refunded = FALSE]

OutstandingForever(row) == Exists(row)   \* mutant: no check that it was refunded

\* The row still stands for money taken and not given back: the condition of
\* ActiveChargeByNode.
Outstanding(row) == Exists(row) /\ row.status # "refunded" /\ ~row.refunded

\* Ledger.AlreadyRefunded on the row it found.
AlreadyRefunded(row) == Exists(row) /\ (row.refunded \/ row.status = "refunded")
=============================================================================
