------------------------- MODULE VideoCharge_proofs -------------------------
(***************************************************************************)
(* Type correctness of VideoCharge and its two refund guarantees that no   *)
(* crash, overlap or failed call can break: the credits of one upstream    *)
(* task, and of one claimed row, are returned once.  Then the calm world,  *)
(* in which a process stops only where the code survives it: there every   *)
(* charge has the life that ChargeLifecycle promises.                      *)
(***************************************************************************)
EXTENDS VideoCharge, TLAPS, FiniteSetTheorems

\* A run that has a submitted task to follow knows its id.
FollowLabels == {"saveRef", "hook", "poll", "download", "countFailure", "restore"}
TaskKnown ==
  \A r \in Runs : act[r].pc \in FollowLabels \/ act[r].resumed => act[r].task \in Runs

TypeInv == TypeOK /\ TaskKnown

\* A click under way holds a row.
RowKnown ==
  \A a \in Clicks : click[a].pc \notin {"idle", "done"} => click[a].row \in RowKeys
-----------------------------------------------------------------------------
(* The helpers keep the types *)

LEMMA GotoType ==
  ASSUME act \in [Runs -> RunStates], NEW r \in Runs, NEW l \in RunLabels, Goto(r, l)
  PROVE  /\ act' \in [Runs -> RunStates]
         /\ act'[r].pc = l /\ act'[r].task = act[r].task
         /\ act'[r].resumed = act[r].resumed
         /\ \A q \in Runs \ {r} : act'[q] = act[q]
BY DEF Goto, RunStates

LEMMA EndType ==
  ASSUME act \in [Runs -> RunStates], NEW r \in Runs,
         NEW o \in {"none", "ok", "retry", "noretry"}, End(r, o)
  PROVE  /\ act' \in [Runs -> RunStates]
         /\ act'[r].pc = "ended" /\ act'[r].task = act[r].task
         /\ act'[r].resumed = act[r].resumed
         /\ \A q \in Runs \ {r} : act'[q] = act[q]
<1> DEFINE s == [act[r] EXCEPT !.pc = "ended", !.outcome = o]
<1>1. "ended" \in RunLabels
  BY DEF RunLabels
<1>2. s \in RunStates
  BY <1>1 DEF RunStates
<1>3. s.pc = "ended" /\ s.task = act[r].task /\ s.resumed = act[r].resumed
  BY DEF RunStates
<1>4. act' = [act EXCEPT ![r] = s]
  BY DEF End
<1> QED BY <1>2, <1>3, <1>4

LEMMA UpsertedType ==
  ASSUME NEW row \in Row(Runs), NEW new \in Row(Runs)
  PROVE  Upserted(row, new) \in Row(Runs)
BY DEF Upserted, Merged, Row

LEMMA PutType ==
  ASSUME TypeOK, NEW k \in RowKeys, NEW new \in Row(Runs), Put(k, new)
  PROVE  rows' \in [RowKeys -> Row(Runs)] /\ order' \in Seq(RowKeys)
<1>1. rows[k] \in Row(Runs)
  BY DEF TypeOK
<1>2. Upserted(rows[k], new) \in Row(Runs)
  BY <1>1, UpsertedType
<1>3. rows' \in [RowKeys -> Row(Runs)]
  BY <1>2 DEF Put, TypeOK
<1>4. order' \in Seq(RowKeys)
  BY DEF Put, TypeOK
<1> QED BY <1>3, <1>4

LEMMA RecordChargeType ==
  ASSUME TypeOK, NEW c \in Runs, NEW status \in Statuses, NEW refunded \in BOOLEAN,
         NEW t \in MaybeRun, RecordCharge(c, status, refunded, t)
  PROVE  rows' \in [RowKeys -> Row(Runs)] /\ order' \in Seq(RowKeys)
<1> DEFINE new == [status |-> status, refunded |-> refunded, task |-> t]
<1>1. new \in Row(Runs) /\ ChargeRow(c) \in RowKeys
  BY DEF Row, ChargeRow, RowKeys, MaybeRun
<1>2. CASE Put(ChargeRow(c), new)
  BY <1>1, <1>2, PutType
<1>3. CASE UNCHANGED <<rows, order>>
  BY <1>3 DEF TypeOK
<1> QED BY <1>2, <1>3 DEF RecordCharge

LEMMA RecordTaskType ==
  ASSUME TypeOK, NEW t \in Runs, NEW status \in Statuses, NEW refunded \in BOOLEAN,
         RecordTask(t, status, refunded)
  PROVE  rows' \in [RowKeys -> Row(Runs)] /\ order' \in Seq(RowKeys)
<1> DEFINE new == [status |-> status, refunded |-> refunded, task |-> t]
<1>1. new \in Row(Runs) /\ TaskRow(t) \in RowKeys
  BY DEF Row, TaskRow, RowKeys
<1>2. ASSUME NEW k \in RowKeys, Put(k, new)
      PROVE  rows' \in [RowKeys -> Row(Runs)] /\ order' \in Seq(RowKeys)
  BY <1>1, <1>2, PutType
<1>3. CASE UNCHANGED <<rows, order>>
  BY <1>3 DEF TypeOK
<1> QED BY <1>1, <1>2, <1>3 DEF RecordTask

LEMMA RecordProviderTaskType ==
  ASSUME TypeOK, NEW c \in MaybeRun, NEW status \in Statuses, NEW refunded \in BOOLEAN,
         NEW t \in MaybeRun, RecordProviderTask(c, t, status, refunded)
  PROVE  rows' \in [RowKeys -> Row(Runs)] /\ order' \in Seq(RowKeys)
<1>1. CASE c # None /\ RecordCharge(c, status, refunded, t)
  BY <1>1, RecordChargeType DEF MaybeRun
<1>2. CASE c = None /\ t # None /\ RecordTask(t, status, refunded)
  BY <1>2, RecordTaskType DEF MaybeRun
<1>3. CASE UNCHANGED <<rows, order>>
  BY <1>3 DEF TypeOK
<1> QED BY <1>1, <1>2, <1>3 DEF RecordProviderTask

LEMMA StatusFacts ==
  {"submitted", "delivered", "pending_review", "refunded"} \subseteq Statuses
BY DEF Statuses

LEMMA RunFields ==
  ASSUME TypeOK, NEW r \in Runs
  PROVE  /\ act[r] \in RunStates
         /\ act[r].task \in MaybeRun /\ act[r].key \in MaybeRun
         /\ act[r].charge \in MaybeRun /\ act[r].failures \in Nat
BY DEF TypeOK, RunStates
-----------------------------------------------------------------------------
(* Type correctness *)

LEMMA TypeInit == Init => TypeInv
<1> SUFFICES ASSUME Init PROVE TypeInv
  OBVIOUS
<1> USE VideoChargeAssumption DEF Init
<1>1. NoRun \in RunStates
  BY DEF NoRun, RunStates, RunLabels, MaybeRun
<1>2. act \in [Runs -> RunStates]
  BY <1>1
<1>3. click \in [Clicks -> ClickStates]
  BY DEF ClickStates, ClickLabels, MaybeRun
<1>4. bill \in [Payers -> Bills]
  BY DEF NoBill, Bills, MaybeRun
<1>5. rows \in [RowKeys -> Row(Runs)]
  BY DEF NoRow, Row
<1>6. ref \in Refs /\ dog \in [pc : {"idle", "judge", "close"}, ref : Refs, delivered : BOOLEAN]
  BY DEF NoDog, Refs
<1>7. upstream \in [Runs -> [state : {"none", "running", "done", "rejected"},
                            charge : MaybeRun]]
  BY DEF MaybeRun
<1>8. TypeOK
  BY <1>2, <1>3, <1>4, <1>5, <1>6, <1>7 DEF TypeOK
<1>9. TaskKnown
  BY DEF TaskKnown, NoRun, FollowLabels
<1> QED BY <1>8, <1>9 DEF TypeInv

LEMMA TypeMove ==
  ASSUME TypeInv, NEW r \in Runs, act' \in [Runs -> RunStates],
         \A q \in Runs \ {r} : act'[q] = act[q],
         act'[r].pc \in FollowLabels \/ act'[r].resumed => act'[r].task \in Runs
  PROVE  TaskKnown'
BY DEF TypeInv, TaskKnown

LEMMA RowKeyType ==
  ASSUME TypeOK, NEW k \in RowKeys
  PROVE  ChargeOfRow(k) \in MaybeRun /\ KeyOfRow(k) \in MaybeRun
BY DEF ChargeOfRow, KeyOfRow, RowKeys, MaybeRun, TypeOK

\* The steps that give run r a new record s.
LEMMA ReplaceType ==
  ASSUME TypeInv, NEW r \in Runs, NEW s \in RunStates, act' = [act EXCEPT ![r] = s],
         s.pc \in FollowLabels \/ s.resumed => s.task \in Runs
  PROVE  act' \in [Runs -> RunStates] /\ TaskKnown'
<1>1. act' \in [Runs -> RunStates] /\ act'[r] = s
  BY DEF TypeInv, TypeOK
<1> QED BY <1>1 DEF TypeInv, TaskKnown, TypeOK

LEMMA RunEnds ==
  ASSUME TypeInv, NEW r \in Runs, NEW o \in {"none", "ok", "retry", "noretry"}, End(r, o)
  PROVE  act' \in [Runs -> RunStates] /\ TaskKnown'
<1>1. /\ act' \in [Runs -> RunStates]
      /\ act'[r].pc = "ended" /\ act'[r].task = act[r].task
      /\ act'[r].resumed = act[r].resumed
      /\ \A q \in Runs \ {r} : act'[q] = act[q]
  BY EndType DEF TypeInv, TypeOK
<1> QED BY <1>1, TypeMove DEF TypeInv, TaskKnown, FollowLabels

LEMMA RunGoes ==
  ASSUME TypeInv, NEW r \in Runs, NEW l \in RunLabels, Goto(r, l),
         l \in FollowLabels => act[r].task \in Runs
  PROVE  act' \in [Runs -> RunStates] /\ TaskKnown'
<1>1. /\ act' \in [Runs -> RunStates]
      /\ act'[r].pc = l /\ act'[r].task = act[r].task
      /\ act'[r].resumed = act[r].resumed
      /\ \A q \in Runs \ {r} : act'[q] = act[q]
  BY GotoType DEF TypeInv, TypeOK
<1> QED BY <1>1, TypeMove DEF TypeInv, TaskKnown

LEMMA TypeLoad == ASSUME TypeInv, NEW r \in Runs, Load(r) PROVE TypeInv'
<1>1. CASE ref = NoRef
  <2>1. "check" \in RunLabels /\ "check" \notin FollowLabels
    BY DEF RunLabels, FollowLabels
  <2> QED BY <1>1, <2>1, RunGoes
          DEF Load, TypeInv, TypeOK, money, table, redis, world, sched
<1>2. CASE ref # NoRef
  <2> DEFINE s == [act[r] EXCEPT
            !.pc = "create", !.resumed = TRUE, !.task = ref.task,
            !.charge = ref.charge, !.key = ref.key, !.failures = ref.failures]
  <2>1. "create" \in RunLabels
    BY DEF RunLabels
  <2>2. ref \in [task : Runs, charge : MaybeRun, key : MaybeRun, failures : Nat]
    BY <1>2 DEF TypeInv, TypeOK, Refs
  <2> ref.task \in Runs /\ ref.charge \in MaybeRun /\ ref.key \in MaybeRun /\ ref.failures \in Nat
    BY <2>2
  <2> ref.task \in MaybeRun
    BY DEF MaybeRun
  <2>3. s \in RunStates /\ s.task \in Runs
    BY <2>1, RunFields DEF TypeInv, RunStates
  <2>4. act' = [act EXCEPT ![r] = s]
    BY <1>2 DEF Load
  <2> QED BY <2>3, <2>4, ReplaceType
          DEF Load, TypeInv, TypeOK, money, table, redis, world, sched
<1> QED BY <1>1, <1>2

LEMMA TypeCheck == ASSUME TypeInv, NEW r \in Runs, Check(r) PROVE TypeInv'
<1>1. CASE Goto(r, "charge")
  <2>1. "charge" \in RunLabels /\ "charge" \notin FollowLabels
    BY DEF RunLabels, FollowLabels
  <2> QED BY <1>1, <2>1, RunGoes
          DEF Check, TypeInv, TypeOK, money, table, redis, world, sched
<1>2. ASSUME NEW i \in DOMAIN order,
             act' = [act EXCEPT ![r] = [@ EXCEPT
               !.pc = "create", !.charge = ChargeOfRow(order[i]),
               !.key = KeyOfRow(order[i])]]
      PROVE  TypeInv'
  <2> DEFINE s == [act[r] EXCEPT
               !.pc = "create", !.charge = ChargeOfRow(order[i]),
               !.key = KeyOfRow(order[i])]
  <2>1. "create" \in RunLabels /\ "create" \notin FollowLabels
    BY DEF RunLabels, FollowLabels
  <2>2. order[i] \in RowKeys
    BY DEF TypeInv, TypeOK
  <2>3. ChargeOfRow(order[i]) \in MaybeRun /\ KeyOfRow(order[i]) \in MaybeRun
    BY <2>2, RowKeyType DEF TypeInv
  <2>4. s \in RunStates
    BY <2>1, <2>3, RunFields DEF TypeInv, RunStates
  <2>5. s.pc = "create" /\ s.resumed = act[r].resumed /\ s.task = act[r].task
    BY RunFields DEF TypeInv, RunStates
  <2>6. act' = [act EXCEPT ![r] = s]
    BY <1>2
  <2>7. act' \in [Runs -> RunStates] /\ TaskKnown'
    BY <2>1, <2>4, <2>5, <2>6, ReplaceType DEF TypeInv, TaskKnown
  <2> QED BY <2>7 DEF Check, TypeInv, TypeOK, money, table, redis, world, sched
<1> QED BY <1>1, <1>2 DEF Check

LEMMA TypeCharge == ASSUME TypeInv, NEW r \in Runs, Charge(r) PROVE TypeInv'
<1>1. charged' \in [Runs -> BOOLEAN]
  BY DEF Charge, TypeInv, TypeOK
<1>2. CASE End(r, "retry")
  BY <1>1, <1>2, RunEnds DEF Charge, TypeInv, TypeOK, table, redis, world, sched
<1>3. CASE act' = [act EXCEPT ![r] = [@ EXCEPT
             !.pc = "recordCharge", !.own = TRUE, !.charge = r, !.key = r]]
  <2> DEFINE s == [act[r] EXCEPT
             !.pc = "recordCharge", !.own = TRUE, !.charge = r, !.key = r]
  <2>1. "recordCharge" \in RunLabels /\ "recordCharge" \notin FollowLabels
    BY DEF RunLabels, FollowLabels
  <2>2. s \in RunStates
    BY <2>1, RunFields DEF TypeInv, RunStates, MaybeRun
  <2>3. s.pc = "recordCharge" /\ s.resumed = act[r].resumed /\ s.task = act[r].task
    BY RunFields DEF TypeInv, RunStates
  <2>4. act' = [act EXCEPT ![r] = s]
    BY <1>3
  <2>5. act' \in [Runs -> RunStates] /\ TaskKnown'
    BY <2>1, <2>2, <2>3, <2>4, ReplaceType DEF TypeInv, TaskKnown
  <2> QED BY <1>1, <2>5 DEF Charge, TypeInv, TypeOK, table, redis, world, sched
<1> QED BY <1>2, <1>3 DEF Charge

LEMMA TypeStart == ASSUME TypeInv, NEW r \in Runs, Start(r) PROVE TypeInv'
<1>1. {"load"} \subseteq RunLabels
  BY DEF RunLabels
<1>2. act' \in [Runs -> RunStates] /\ TaskKnown'
  BY <1>1, RunGoes DEF Start, FollowLabels
<1> QED BY <1>2 DEF Start, TypeInv, TypeOK, money, table, redis, world, sched

LEMMA TypeRecordLocalCharge == ASSUME TypeInv, NEW r \in Runs, RecordLocalCharge(r) PROVE TypeInv'
<1>1. {"create"} \subseteq RunLabels
  BY DEF RunLabels
<1>2. act' \in [Runs -> RunStates] /\ TaskKnown'
  BY <1>1, RunGoes DEF RecordLocalCharge, FollowLabels
<1>3. rows' \in [RowKeys -> Row(Runs)] /\ order' \in Seq(RowKeys)
  BY StatusFacts, RecordChargeType DEF TypeInv, RecordLocalCharge, MaybeRun
<1> QED BY <1>2, <1>3 DEF RecordLocalCharge, TypeInv, TypeOK, money, table, redis, world, sched

LEMMA TypeSaveTaskRef == ASSUME TypeInv, NEW r \in Runs, SaveTaskRef(r) PROVE TypeInv'
<1>1. {"hook"} \subseteq RunLabels
  BY DEF RunLabels
<1>2. act[r].task \in Runs
  BY DEF TypeInv, TaskKnown, FollowLabels, SaveTaskRef, At
<1>3. act' \in [Runs -> RunStates] /\ TaskKnown'
  BY <1>1, <1>2, RunGoes DEF SaveTaskRef, FollowLabels
<1>4. ref' \in Refs
  BY <1>2, RunFields DEF SaveTaskRef, SaveRef, Refs, TypeInv
<1> QED BY <1>3, <1>4 DEF SaveTaskRef, TypeInv, TypeOK, money, table, redis, world, sched

LEMMA TypeSubmittedHook == ASSUME TypeInv, NEW r \in Runs, SubmittedHook(r) PROVE TypeInv'
<1>1. {"poll"} \subseteq RunLabels
  BY DEF RunLabels
<1>2. act[r].task \in Runs
  BY DEF TypeInv, TaskKnown, FollowLabels, SubmittedHook, At
<1>3. act' \in [Runs -> RunStates] /\ TaskKnown'
  BY <1>1, <1>2, RunGoes DEF SubmittedHook, FollowLabels
<1>4. rows' \in [RowKeys -> Row(Runs)] /\ order' \in Seq(RowKeys)
  BY RunFields, StatusFacts, RecordProviderTaskType DEF TypeInv, SubmittedHook
<1> QED BY <1>3, <1>4 DEF SubmittedHook, TypeInv, TypeOK, money, table, redis, world, sched

LEMMA TypeRecordFailure == ASSUME TypeInv, NEW r \in Runs, RecordFailure(r) PROVE TypeInv'
<1>1. {"takeRef", "askRefunded", "consume"} \subseteq RunLabels
  BY DEF RunLabels
<1>2. act' \in [Runs -> RunStates] /\ TaskKnown'
  <2>1. CASE Goto(r, "takeRef")
    BY <1>1, <2>1, RunGoes DEF FollowLabels
  <2>2. CASE Goto(r, "askRefunded")
    BY <1>1, <2>2, RunGoes DEF FollowLabels
  <2>3. CASE Goto(r, "consume")
    BY <1>1, <2>3, RunGoes DEF FollowLabels
  <2>4. CASE End(r, "noretry")
    BY <2>4, RunEnds
  <2> QED BY <2>1, <2>2, <2>3, <2>4 DEF RecordFailure
<1>3. rows' \in [RowKeys -> Row(Runs)] /\ order' \in Seq(RowKeys)
  BY RunFields, StatusFacts, RecordProviderTaskType DEF TypeInv, RecordFailure
<1> QED BY <1>2, <1>3 DEF RecordFailure, TypeInv, TypeOK, money, table, redis, world, sched

LEMMA TypeAskRefunded == ASSUME TypeInv, NEW r \in Runs, AskRefunded(r) PROVE TypeInv'
<1>1. {"mark"} \subseteq RunLabels
  BY DEF RunLabels
<1>2. act' \in [Runs -> RunStates] /\ TaskKnown'
  <2>1. CASE Goto(r, "mark")
    BY <1>1, <2>1, RunGoes DEF FollowLabels
  <2>2. CASE End(r, "noretry")
    BY <2>2, RunEnds
  <2> QED BY <2>1, <2>2 DEF AskRefunded
<1> QED BY <1>2 DEF AskRefunded, TypeInv, TypeOK, money, table, redis, world, sched

LEMMA TypeMark == ASSUME TypeInv, NEW r \in Runs, Mark(r) PROVE TypeInv'
<1>1. {"recordRefund", "pay"} \subseteq RunLabels
  BY DEF RunLabels
<1>2. act' \in [Runs -> RunStates] /\ TaskKnown'
  <2>1. CASE Goto(r, "recordRefund")
    BY <1>1, <2>1, RunGoes DEF FollowLabels
  <2>2. CASE Goto(r, "pay")
    BY <1>1, <2>2, RunGoes DEF FollowLabels
  <2> QED BY <2>1, <2>2 DEF Mark
<1>3. marker' \subseteq Runs
  BY RunFields DEF TypeInv, TypeOK, Mark, WinsMarker, MaybeRun
<1> QED BY <1>2, <1>3 DEF Mark, TypeInv, TypeOK, money, table, redis, world, sched

LEMMA TypePay == ASSUME TypeInv, NEW r \in Runs, Pay(r) PROVE TypeInv'
<1>1. {"recordRefund", "unmark"} \subseteq RunLabels
  BY DEF RunLabels
<1>2. act' \in [Runs -> RunStates] /\ TaskKnown'
  <2>1. CASE Goto(r, "recordRefund")
    BY <1>1, <2>1, RunGoes DEF FollowLabels
  <2>2. CASE Goto(r, "unmark")
    BY <1>1, <2>2, RunGoes DEF FollowLabels
  <2> QED BY <2>1, <2>2 DEF Pay
<1>3. bill' \in [Payers -> Bills]
  <2> DEFINE b == [charge |-> act[r].charge, task |-> act[r].task,
                   key |-> IF act[r].resumed THEN None ELSE act[r].key]
  <2>1. b \in Bills
    BY RunFields DEF TypeInv, Bills, MaybeRun
  <2>2. bill' = [bill EXCEPT ![r] = b] \/ bill' = bill
    BY DEF Pay
  <2> QED BY <2>1, <2>2 DEF TypeInv, TypeOK
<1> QED BY <1>2, <1>3 DEF Pay, TypeInv, TypeOK, money, table, redis, world, sched

LEMMA TypeRecordRefund == ASSUME TypeInv, NEW r \in Runs, RecordRefund(r) PROVE TypeInv'
<1>1. {"consume"} \subseteq RunLabels
  BY DEF RunLabels
<1>2. act' \in [Runs -> RunStates] /\ TaskKnown'
  <2>1. CASE Goto(r, "consume")
    BY <1>1, <2>1, RunGoes DEF FollowLabels
  <2>2. CASE End(r, "noretry")
    BY <2>2, RunEnds
  <2> QED BY <2>1, <2>2 DEF RecordRefund
<1>3. rows' \in [RowKeys -> Row(Runs)] /\ order' \in Seq(RowKeys)
  BY RunFields, StatusFacts, RecordProviderTaskType DEF TypeInv, RecordRefund
<1> QED BY <1>2, <1>3 DEF RecordRefund, TypeInv, TypeOK, money, table, redis, world, sched

LEMMA TypeConsume == ASSUME TypeInv, NEW r \in Runs, Consume(r) PROVE TypeInv'
<1>1. act' \in [Runs -> RunStates] /\ TaskKnown'
  BY RunEnds DEF Consume
<1> QED BY <1>1 DEF Consume, DeleteRef, Refs, TypeInv, TypeOK, money, table, redis, world, sched

LEMMA TypeDownload == ASSUME TypeInv, NEW r \in Runs, Download(r) PROVE TypeInv'
<1>1. {"history", "countFailure"} \subseteq RunLabels
  BY DEF RunLabels
<1>2. act[r].task \in Runs
  BY DEF TypeInv, TaskKnown, FollowLabels, Download, At
<1>3. act' \in [Runs -> RunStates] /\ TaskKnown'
  <2>1. CASE Goto(r, "history")
    BY <1>1, <1>2, <2>1, RunGoes DEF FollowLabels
  <2>2. CASE Goto(r, "countFailure")
    BY <1>1, <1>2, <2>2, RunGoes DEF FollowLabels
  <2> QED BY <2>1, <2>2 DEF Download
<1> QED BY <1>3 DEF Download, TypeInv, TypeOK, money, table, redis, world, sched

LEMMA TypeAbandon == ASSUME TypeInv, NEW r \in Runs, Abandon(r) PROVE TypeInv'
<1>1. {"recordAbandon"} \subseteq RunLabels
  BY DEF RunLabels
<1>2. act' \in [Runs -> RunStates] /\ TaskKnown'
  BY <1>1, RunGoes DEF Abandon, FollowLabels
<1> QED BY <1>2 DEF Abandon, DeleteRef, Refs, TypeInv, TypeOK, money, table, redis, world, sched

LEMMA TypeRecordAbandon == ASSUME TypeInv, NEW r \in Runs, RecordAbandon(r) PROVE TypeInv'
<1>1. act' \in [Runs -> RunStates] /\ TaskKnown'
  BY RunEnds DEF RecordAbandon
<1>2. rows' \in [RowKeys -> Row(Runs)] /\ order' \in Seq(RowKeys)
  BY RunFields, StatusFacts, RecordProviderTaskType DEF TypeInv, RecordAbandon
<1> QED BY <1>1, <1>2 DEF RecordAbandon, TypeInv, TypeOK, money, table, redis, world, sched

LEMMA TypeRecordGeneration == ASSUME TypeInv, NEW r \in Runs, RecordGeneration(r) PROVE TypeInv'
<1>1. {"recordDelivered"} \subseteq RunLabels
  BY DEF RunLabels
<1>2. act' \in [Runs -> RunStates] /\ TaskKnown'
  BY <1>1, RunGoes DEF RecordGeneration, FollowLabels
<1>3. given' \subseteq MaybeRun
  BY RunFields DEF TypeInv, TypeOK, RecordGeneration
<1> QED BY <1>2, <1>3 DEF RecordGeneration, TypeInv, TypeOK, money, table, redis, world, sched

LEMMA TypeRecordDelivered == ASSUME TypeInv, NEW r \in Runs, RecordDelivered(r) PROVE TypeInv'
<1>1. {"clearRef"} \subseteq RunLabels
  BY DEF RunLabels
<1>2. act' \in [Runs -> RunStates] /\ TaskKnown'
  BY <1>1, RunGoes DEF RecordDelivered, FollowLabels
<1>3. rows' \in [RowKeys -> Row(Runs)] /\ order' \in Seq(RowKeys)
  BY RunFields, StatusFacts, RecordProviderTaskType DEF TypeInv, RecordDelivered
<1> QED BY <1>2, <1>3 DEF RecordDelivered, TypeInv, TypeOK, money, table, redis, world, sched

LEMMA TypeClearRef == ASSUME TypeInv, NEW r \in Runs, ClearRef(r) PROVE TypeInv'
<1>1. act' \in [Runs -> RunStates] /\ TaskKnown'
  BY RunEnds DEF ClearRef
<1> QED BY <1>1 DEF ClearRef, DeleteRef, Refs, TypeInv, TypeOK, money, table, redis, world, sched

LEMMA TypeCrash == ASSUME TypeInv, NEW r \in Runs, Crash(r) PROVE TypeInv'
<1>1. {"over"} \subseteq RunLabels
  BY DEF RunLabels
<1>2. act' \in [Runs -> RunStates] /\ TaskKnown'
  BY <1>1, RunGoes DEF Crash, FollowLabels
<1> QED BY <1>2 DEF Crash, TypeInv, TypeOK, money, table, redis, world, sched

LEMMA TypeFinish == ASSUME TypeInv, NEW r \in Runs, Finish(r) PROVE TypeInv'
<1>1. "over" \in RunLabels /\ "over" \notin FollowLabels
  BY DEF RunLabels, FollowLabels
<1>2. act' \in [Runs -> RunStates] /\ TaskKnown'
  BY <1>1, RunGoes DEF Finish, Goto
<1>3. ref' \in Refs
  BY DEF Finish, DeleteRef, Refs, TypeInv, TypeOK
<1>4. retries' \in Nat
  BY DEF Finish, TypeInv, TypeOK
<1>5. msg' \in {"queued", "taken", "gone"} /\ exec' \in {"pending", "running", "done", "failed"}
  BY DEF Finish
<1> QED BY <1>2, <1>3, <1>4, <1>5 DEF Finish, TypeInv, TypeOK, money, table, world

LEMMA TypeUnmark == ASSUME TypeInv, NEW r \in Runs, Unmark(r) PROVE TypeInv'
<1>1. "restore" \in RunLabels
  BY DEF RunLabels
<1>2. act[r].resumed => act[r].task \in Runs
  BY DEF TypeInv, TaskKnown
<1>3. act' \in [Runs -> RunStates] /\ TaskKnown'
  BY <1>1, <1>2, RunGoes, RunEnds DEF Unmark
<1> QED BY <1>3 DEF Unmark, TypeInv, TypeOK, money, table, world, sched

LEMMA TypeRestore == ASSUME TypeInv, NEW r \in Runs, Restore(r) PROVE TypeInv'
<1>1. act' \in [Runs -> RunStates] /\ TaskKnown'
  BY RunEnds DEF Restore
<1>2. act[r].task \in Runs
  BY DEF TypeInv, TaskKnown, FollowLabels, Restore, At
<1>3. ref' \in Refs
  BY <1>2, RunFields DEF Restore, SaveRef, Refs, TypeInv
<1>4. rows' \in [RowKeys -> Row(Runs)] /\ order' \in Seq(RowKeys)
  BY RunFields, StatusFacts, RecordProviderTaskType DEF TypeInv, Restore
<1> QED BY <1>1, <1>3, <1>4 DEF Restore, TypeInv, TypeOK, money, world, sched

LEMMA TypeCreate == ASSUME TypeInv, NEW r \in Runs, Create(r) PROVE TypeInv'
<1>1. {"poll", "saveRef", "recordFailure"} \subseteq RunLabels /\ "recordFailure" \notin FollowLabels
  BY DEF RunLabels, FollowLabels
<1>2. upstream' \in [Runs -> [state : {"none", "running", "done", "rejected"},
                             charge : MaybeRun]]
  <2> DEFINE u == [state |-> "running", charge |-> act[r].charge]
  <2>1. u \in [state : {"none", "running", "done", "rejected"}, charge : MaybeRun]
    BY RunFields DEF TypeInv
  <2>2. upstream' = [upstream EXCEPT ![r] = u] \/ upstream' = upstream
    BY DEF Create
  <2> QED BY <2>1, <2>2 DEF TypeInv, TypeOK
<1>3. act' \in [Runs -> RunStates] /\ TaskKnown'
  <2>1. CASE act[r].task # None /\ Goto(r, "poll")
    <3>1. act[r].task \in Runs
      BY <2>1, RunFields DEF TypeInv, MaybeRun
    <3> QED BY <1>1, <2>1, <3>1, RunGoes
  <2>2. CASE act' = [act EXCEPT ![r] = [@ EXCEPT !.pc = "saveRef", !.task = r]]
    <3> DEFINE s == [act[r] EXCEPT !.pc = "saveRef", !.task = r]
    <3>1. s \in RunStates /\ s.task = r
      BY <1>1, RunFields DEF TypeInv, RunStates, MaybeRun
    <3> QED BY <2>2, <3>1, ReplaceType
  <2>3. ASSUME NEW why \in {"rejected", "unknown"},
               act' = [act EXCEPT ![r] = [@ EXCEPT !.pc = "recordFailure", !.why = why]]
        PROVE  act' \in [Runs -> RunStates] /\ TaskKnown'
    <3> DEFINE s == [act[r] EXCEPT !.pc = "recordFailure", !.why = why]
    <3>1. s \in RunStates
      BY <1>1, RunFields DEF TypeInv, RunStates
    <3>2. s.pc = "recordFailure" /\ s.resumed = act[r].resumed /\ s.task = act[r].task
      BY RunFields DEF TypeInv, RunStates
    <3> QED BY <1>1, <2>3, <3>1, <3>2, ReplaceType DEF TypeInv, TaskKnown
  <2> QED BY <2>1, <2>2, <2>3 DEF Create
<1> QED BY <1>2, <1>3 DEF Create, TypeInv, TypeOK, money, table, redis, sched

LEMMA TypePoll == ASSUME TypeInv, NEW r \in Runs, Poll(r) PROVE TypeInv'
<1>1. {"download", "recordFailure"} \subseteq RunLabels /\ "recordFailure" \notin FollowLabels
  BY DEF RunLabels, FollowLabels
<1>2. act[r].task \in Runs
  BY DEF TypeInv, TaskKnown, FollowLabels, Poll, At
<1>3. upstream' \in [Runs -> [state : {"none", "running", "done", "rejected"},
                             charge : MaybeRun]]
  <2>1. ASSUME NEW t \in Runs, NEW verdict \in {"done", "rejected"},
               upstream' = [upstream EXCEPT ![t].state = verdict]
        PROVE  upstream' \in [Runs -> [state : {"none", "running", "done", "rejected"},
                                     charge : MaybeRun]]
    BY <2>1 DEF TypeInv, TypeOK
  <2>2. CASE UNCHANGED upstream
    BY <2>2 DEF TypeInv, TypeOK
  <2> QED BY <1>2, <2>1, <2>2 DEF Poll
<1>4. act' \in [Runs -> RunStates] /\ TaskKnown'
  <2>1. CASE Goto(r, "download")
    BY <1>1, <1>2, <2>1, RunGoes
  <2>2. ASSUME NEW why \in {"rejected", "unknown"},
               act' = [act EXCEPT ![r] = [@ EXCEPT !.pc = "recordFailure", !.why = why]]
        PROVE  act' \in [Runs -> RunStates] /\ TaskKnown'
    <3> DEFINE s == [act[r] EXCEPT !.pc = "recordFailure", !.why = why]
    <3>1. s \in RunStates
      BY <1>1, RunFields DEF TypeInv, RunStates
    <3>2. s.pc = "recordFailure" /\ s.resumed = act[r].resumed /\ s.task = act[r].task
      BY RunFields DEF TypeInv, RunStates
    <3> QED BY <1>1, <2>2, <3>1, <3>2, ReplaceType DEF TypeInv, TaskKnown
  <2> QED BY <2>1, <2>2 DEF Poll
<1> QED BY <1>3, <1>4 DEF Poll, TypeInv, TypeOK, money, table, redis, sched

LEMMA TypeTakeRef == ASSUME TypeInv, NEW r \in Runs, TakeRef(r) PROVE TypeInv'
<1>1. ref' \in Refs
  BY DEF TakeRef, DeleteRef, Refs
<1>2. act' \in [Runs -> RunStates] /\ TaskKnown'
  <2>1. CASE End(r, "noretry")
    BY <2>1, RunEnds
  <2>2. CASE /\ ref # NoRef
             /\ act' = [act EXCEPT ![r] = [@ EXCEPT
                  !.pc = "mark", !.task = ref.task, !.charge = ref.charge,
                  !.key = ref.key, !.failures = ref.failures]]
    <3> DEFINE s == [act[r] EXCEPT
                  !.pc = "mark", !.task = ref.task, !.charge = ref.charge,
                  !.key = ref.key, !.failures = ref.failures]
    <3>1. ref \in [task : Runs, charge : MaybeRun, key : MaybeRun, failures : Nat]
      BY <2>2 DEF TypeInv, TypeOK, Refs
    <3>2. /\ ref.task \in Runs /\ ref.task \in MaybeRun /\ ref.charge \in MaybeRun
          /\ ref.key \in MaybeRun /\ ref.failures \in Nat
      BY <3>1 DEF MaybeRun
    <3>3. "mark" \in RunLabels
      BY DEF RunLabels
    <3>4. s \in RunStates /\ s.task \in Runs
      BY <3>2, <3>3, RunFields DEF TypeInv, RunStates
    <3> QED BY <2>2, <3>4, ReplaceType
  <2> QED BY <2>1, <2>2 DEF TakeRef
<1> QED BY <1>1, <1>2 DEF TakeRef, TypeInv, TypeOK, money, table, world, sched

LEMMA TypeCountFailure ==
  ASSUME TypeInv, NEW r \in Runs, CountFailure(r) PROVE TypeInv'
<1> DEFINE n == act[r].failures + 1
           s == [act[r] EXCEPT !.failures = n, !.pc = "ended", !.outcome = "retry"]
           t == [act[r] EXCEPT !.failures = n, !.pc = "abandon"]
<1>1. act[r].task \in Runs
  BY DEF TypeInv, TaskKnown, FollowLabels, CountFailure, At
<1>2. n \in Nat
  BY RunFields DEF TypeInv
<1>3. {"ended", "abandon"} \subseteq RunLabels
  BY DEF RunLabels
<1>4. s \in RunStates /\ s.task = act[r].task
  BY <1>2, <1>3, RunFields DEF TypeInv, RunStates
<1>5. t \in RunStates /\ t.task = act[r].task
  BY <1>2, <1>3, RunFields DEF TypeInv, RunStates
<1>6. act' = [act EXCEPT ![r] = s] \/ act' = [act EXCEPT ![r] = t]
  BY DEF CountFailure
<1>7. act' \in [Runs -> RunStates] /\ TaskKnown'
  BY <1>1, <1>4, <1>5, <1>6, ReplaceType
<1>8. ref' = [task |-> act[r].task, charge |-> act[r].charge,
              key |-> act[r].key, failures |-> n]
  BY DEF CountFailure
<1>9. ref' \in Refs
  BY <1>1, <1>2, <1>8, RunFields DEF Refs, TypeInv
<1> QED BY <1>7, <1>9 DEF CountFailure, TypeInv, TypeOK, money, table, world, sched
-----------------------------------------------------------------------------
(* The steps of the queue, of the clicks and of the watchdog *)

LEMMA TypeQueue == ASSUME TypeInv, Redeliver \/ RefusePlan \/ SkipDone PROVE TypeInv'
BY DEF Redeliver, RefusePlan, SkipDone, TypeInv, TypeOK, TaskKnown,
       money, table, redis, world

LEMMA MoveType ==
  ASSUME TypeOK, NEW a \in Clicks, NEW l \in ClickLabels, Move(a, l)
  PROVE  click' \in [Clicks -> ClickStates]
BY DEF Move, ClickStates, TypeOK

LEMMA ClickFields ==
  ASSUME TypeOK, NEW a \in Clicks
  PROVE  click[a].task \in MaybeRun /\ click[a].row \in RowKeys \cup {None}
BY DEF TypeOK, ClickStates

LEMMA TypeClaim == ASSUME TypeInv, NEW a \in Clicks, Claim(a) PROVE TypeInv'
<1>1. PICK k \in RowKeys :
        /\ rows' = [rows EXCEPT ![k] = ClaimForRefund(@)]
        /\ click' = [click EXCEPT ![a] =
                       [pc |-> "claimed", row |-> k, task |-> rows[k].task]]
  BY DEF Claim
<1>2. rows[k] \in Row(Runs)
  BY DEF TypeInv, TypeOK
<1>3. ClaimForRefund(rows[k]) \in Row(Runs)
  BY <1>2 DEF ClaimForRefund, Row
<1>4. rows' \in [RowKeys -> Row(Runs)]
  BY <1>1, <1>3 DEF TypeInv, TypeOK
<1>5. [pc |-> "claimed", row |-> k, task |-> rows[k].task] \in ClickStates
  BY <1>2 DEF ClickStates, ClickLabels, Row, MaybeRun
<1>6. click' \in [Clicks -> ClickStates]
  BY <1>1, <1>5 DEF TypeInv, TypeOK
<1> QED BY <1>4, <1>6 DEF Claim, TypeInv, TypeOK, TaskKnown, money, redis, world, sched

LEMMA OutcomeType ==
  ASSUME NEW row \in Row(Runs)
  PROVE  RevertRefund(row) \in Row(Runs) /\ MarkRefundedFromClaim(row) \in Row(Runs)
BY DEF RevertRefund, MarkRefundedFromClaim, Row, Statuses

LEMMA SetRow ==
  ASSUME TypeOK, NEW k \in RowKeys, NEW new \in Row(Runs),
         rows' = [rows EXCEPT ![k] = new]
  PROVE  rows' \in [RowKeys -> Row(Runs)]
BY DEF TypeOK

LEMMA TypeClickStep ==
  ASSUME TypeInv, RowKnown, NEW a \in Clicks, ClickStep(a)
  PROVE  TypeInv'
<1>1. {"paying", "unmarking", "reverting", "confirming", "done"} \subseteq ClickLabels
  BY DEF ClickLabels
<1>2. CASE ClickMark(a)
  <2>1. click' \in [Clicks -> ClickStates]
    BY <1>1, <1>2, MoveType DEF ClickMark, TypeInv
  <2>2. marker' \subseteq Runs
    BY <1>2, ClickFields DEF ClickMark, WinsMarker, TypeInv, TypeOK, MaybeRun
  <2> QED BY <1>2, <2>1, <2>2
          DEF ClickMark, TypeInv, TypeOK, TaskKnown, money, table, world, sched
<1>3. CASE ClickPay(a)
  <2> DEFINE b == [charge |-> ChargeOfRow(click[a].row), task |-> click[a].task,
                   key |-> None]
  <2>1. click' \in [Clicks -> ClickStates]
    BY <1>1, <1>3, MoveType DEF ClickPay, TypeInv
  <2>2. CASE bill' = [bill EXCEPT ![a] = b]
    <3> click[a].row \in RowKeys
      BY <1>3 DEF RowKnown, ClickPay, OnRow
    <3>1. b \in Bills
      BY ClickFields, RowKeyType DEF TypeInv, Bills, MaybeRun
    <3>2. bill' \in [Payers -> Bills]
      BY <2>2, <3>1 DEF TypeInv, TypeOK
    <3> QED BY <1>3, <2>1, <3>2
            DEF ClickPay, TypeInv, TypeOK, TaskKnown, table, redis, world, sched
  <2>3. CASE UNCHANGED bill
    BY <1>3, <2>1, <2>3
    DEF ClickPay, TypeInv, TypeOK, TaskKnown, table, redis, world, sched
  <2> QED BY <1>3, <2>2, <2>3 DEF ClickPay
<1>4. CASE ClickUnmark(a)
  <2>1. click' \in [Clicks -> ClickStates]
    BY <1>1, <1>4, MoveType DEF ClickUnmark, TypeInv
  <2> QED BY <1>4, <2>1
          DEF ClickUnmark, TypeInv, TypeOK, TaskKnown, money, table, world, sched
<1>5. CASE Revert(a)
  <2>1. click' \in [Clicks -> ClickStates]
    BY <1>1, <1>5, MoveType DEF Revert, TypeInv
  <2>2. click[a].row \in RowKeys
    BY <1>5 DEF RowKnown, Revert, OnRow
  <2>3. RevertRefund(rows[click[a].row]) \in Row(Runs)
    BY <2>2, OutcomeType DEF TypeInv, TypeOK
  <2>4. rows' \in [RowKeys -> Row(Runs)]
    <3>1. rows' = [rows EXCEPT ![click[a].row] = RevertRefund(rows[click[a].row])]
      BY <1>5 DEF Revert
    <3> QED BY <2>2, <2>3, <3>1, SetRow DEF TypeInv
  <2> QED BY <1>5, <2>1, <2>4
          DEF Revert, TypeInv, TypeOK, TaskKnown, money, redis, world, sched
<1>6. CASE Confirm(a)
  <2>1. click' \in [Clicks -> ClickStates]
    BY <1>1, <1>6, MoveType DEF Confirm, TypeInv
  <2>2. click[a].row \in RowKeys
    BY <1>6 DEF RowKnown, Confirm, OnRow
  <2>3. MarkRefundedFromClaim(rows[click[a].row]) \in Row(Runs)
    BY <2>2, OutcomeType DEF TypeInv, TypeOK
  <2>4. \/ rows' = [rows EXCEPT ![click[a].row] =
                        MarkRefundedFromClaim(rows[click[a].row])]
        \/ rows' = rows
    BY <1>6 DEF Confirm
  <2>5. rows' \in [RowKeys -> Row(Runs)]
    BY <2>2, <2>3, <2>4, SetRow DEF TypeInv, TypeOK
  <2> QED BY <1>6, <2>1, <2>5
          DEF Confirm, TypeInv, TypeOK, TaskKnown, money, redis, world, sched
<1> QED BY <1>2, <1>3, <1>4, <1>5, <1>6 DEF ClickStep

LEMMA TypeClickCrash == ASSUME TypeInv, NEW a \in Clicks, ClickCrash(a) PROVE TypeInv'
<1>1. click' \in [Clicks -> ClickStates]
  BY MoveType DEF ClickCrash, ClickLabels, TypeInv
<1> QED BY <1>1
        DEF ClickCrash, TypeInv, TypeOK, TaskKnown, money, table, redis, world, sched

LEMMA TypeDog == ASSUME TypeInv, Sweep \/ Judge \/ Close PROVE TypeInv'
<1>1. CASE Sweep
  BY <1>1 DEF Sweep, TypeInv, TypeOK, TaskKnown, money, table, redis, world
<1>2. CASE Judge
  BY <1>2 DEF Judge, TypeInv, TypeOK, TaskKnown, money, table, redis, world
<1>3. CASE Close
  <2>1. rows' \in [RowKeys -> Row(Runs)] /\ order' \in Seq(RowKeys)
    <3>1. CASE UNCHANGED <<rows, order>>
      BY <3>1 DEF TypeInv, TypeOK
    <3>2. CASE dog.ref # NoRef /\ RecordTask(dog.ref.task, "pending_review", FALSE)
      <4>1. dog.ref.task \in Runs
        BY <3>2 DEF TypeInv, TypeOK, Refs
      <4> QED BY <3>2, <4>1, StatusFacts, RecordTaskType DEF TypeInv
    <3> QED BY <1>3, <3>1, <3>2 DEF Close
  <2>2. ref' \in Refs /\ NoDog \in [pc : {"idle", "judge", "close"}, ref : Refs,
                                   delivered : BOOLEAN]
    BY <1>3 DEF Close, DeleteRef, Refs, NoDog, TypeInv, TypeOK
  <2> QED BY <1>3, <2>1, <2>2 DEF Close, TypeInv, TypeOK, TaskKnown, money, world
<1> QED BY <1>1, <1>2, <1>3

LEMMA TypeStep == TypeInv /\ RowKnown /\ [Next]_vars => TypeInv'
<1> SUFFICES ASSUME TypeInv, RowKnown, [Next]_vars PROVE TypeInv'
  OBVIOUS
<1>1. ASSUME NEW r \in Runs, Start(r) \/ RunStep(r) \/ Crash(r) PROVE TypeInv'
  BY <1>1, TypeStart, TypeLoad, TypeCheck, TypeCharge, TypeRecordLocalCharge,
     TypeCreate, TypeSaveTaskRef, TypeSubmittedHook, TypePoll, TypeRecordFailure,
     TypeTakeRef, TypeAskRefunded, TypeMark, TypePay, TypeUnmark, TypeRestore,
     TypeRecordRefund, TypeConsume, TypeDownload, TypeCountFailure, TypeAbandon,
     TypeRecordAbandon, TypeRecordGeneration, TypeRecordDelivered, TypeClearRef,
     TypeFinish, TypeCrash DEF RunStep
<1>2. ASSUME NEW a \in Clicks, Claim(a) \/ ClickStep(a) \/ ClickCrash(a) PROVE TypeInv'
  BY <1>2, TypeClaim, TypeClickStep, TypeClickCrash
<1>3. CASE UNCHANGED vars
  BY <1>3 DEF vars, TypeInv, TypeOK, TaskKnown
<1> QED BY <1>1, <1>2, <1>3, TypeQueue, TypeDog DEF Next

LEMMA RunKeepsClicks ==
  ASSUME NEW r \in Runs, Start(r) \/ RunStep(r) \/ Crash(r)
  PROVE  UNCHANGED click
BY DEF RunStep, Start, Load, Check, Charge, RecordLocalCharge, Create, SaveTaskRef,
       SubmittedHook, Poll, RecordFailure, TakeRef, AskRefunded, Mark, Pay, Unmark,
       Restore, RecordRefund, Consume, Download, CountFailure, Abandon,
       RecordAbandon, RecordGeneration, RecordDelivered, ClearRef, Finish, Crash

LEMMA OthersKeepClicks ==
  ASSUME Redeliver \/ RefusePlan \/ SkipDone \/ Sweep \/ Judge \/ Close
  PROVE  UNCHANGED <<act, click, bill, marker>>
BY DEF Redeliver, RefusePlan, SkipDone, Sweep, Judge, Close, money, redis

LEMMA RowKnownStep == TypeInv /\ RowKnown /\ [Next]_vars => RowKnown'
<1> SUFFICES ASSUME TypeInv, RowKnown, [Next]_vars PROVE RowKnown'
  OBVIOUS
<1>1. CASE UNCHANGED click
  BY <1>1 DEF RowKnown
<1>2. ASSUME NEW a \in Clicks, Claim(a) PROVE RowKnown'
  BY <1>2 DEF Claim, RowKnown, TypeInv, TypeOK
<1>3. ASSUME NEW a \in Clicks, NEW l \in ClickLabels, Move(a, l), click[a].pc # "idle",
             click[a].pc # "done"
      PROVE  RowKnown'
  BY <1>3 DEF Move, RowKnown, TypeInv, TypeOK, ClickStates
<1>4. ASSUME NEW a \in Clicks, ClickStep(a) \/ ClickCrash(a) PROVE RowKnown'
  BY <1>3, <1>4 DEF ClickStep, ClickMark, ClickPay, ClickUnmark, Revert, Confirm,
                    ClickCrash, OnRow, ClickLabels
<1>5. CASE UNCHANGED vars
  BY <1>1, <1>5 DEF vars
<1> QED BY <1>1, <1>2, <1>4, <1>5, RunKeepsClicks, OthersKeepClicks DEF Next

\* Whatever crashes, overlaps or fails, the stores keep their shape: in
\* particular no marker is ever set for an empty task id.
THEOREM TypeCorrect == Spec => []TypeOK
<1>1. Init => RowKnown
  BY DEF Init, RowKnown
<1>2. TypeInv => TypeOK
  BY DEF TypeInv
<1> QED BY <1>1, <1>2, TypeInit, TypeStep, RowKnownStep, PTL DEF Spec
-----------------------------------------------------------------------------
(* One refund per task.  A payer holds its task from the moment it has won the  *)
(* marker until the payment failed; a payer that has paid holds it for ever.    *)

Afterwards == {"recordRefund", "consume", "ended", "over"}

TaskOf(p) == IF p \in Runs THEN act[p].task ELSE click[p].task
Busy(p) == IF p \in Runs THEN act[p].pc \in {"pay", "unmark"}
           ELSE click[p].pc \in {"paying", "unmarking"}
Holds(p) == (Busy(p) \/ Paid(p)) /\ TaskOf(p) # None

PaidRuns == \A r \in Runs :
  Paid(r) => act[r].pc \in Afterwards /\ bill[r].task = act[r].task
PaidClicks == \A a \in Clicks :
  Paid(a) => click[a].pc \in {"confirming", "done"} /\ bill[a].task = click[a].task
HeldIsMarked == \A p \in Payers : Holds(p) => TaskOf(p) \in marker
HeldOnce ==
  \A p, q \in Payers : p # q /\ Holds(p) /\ Holds(q) => TaskOf(p) # TaskOf(q)

MarkInv == PaidRuns /\ PaidClicks /\ HeldIsMarked /\ HeldOnce

LEMMA MarkInit == Init => MarkInv
<1> SUFFICES ASSUME Init PROVE MarkInv
  OBVIOUS
<1>1. \A p \in Payers : ~Paid(p)
  BY DEF Init, Paid, NoBill
<1>2. \A p \in Payers : ~Busy(p)
  BY DEF Init, Busy, NoRun, Payers
<1> QED BY <1>1, <1>2
        DEF MarkInv, PaidRuns, PaidClicks, HeldIsMarked, HeldOnce, Holds, Payers

\* A step in which nobody comes to hold a task and no marker is removed.
LEMMA HoldersKept ==
  ASSUME MarkInv, PaidRuns', PaidClicks', marker \subseteq marker',
         \A p \in Payers : Holds(p)' => Holds(p) /\ TaskOf(p)' = TaskOf(p)
  PROVE  MarkInv'
<1>1. HeldIsMarked'
  BY DEF MarkInv, HeldIsMarked
<1>2. HeldOnce'
  BY DEF MarkInv, HeldOnce
<1> QED BY <1>1, <1>2 DEF MarkInv

\* A step of run r that neither wins a marker nor pays.
LEMMA RunNeutral ==
  ASSUME MarkInv, NEW r \in Runs, UNCHANGED <<click, bill, marker>>,
         \A q \in Runs \ {r} : act'[q] = act[q],
         act'[r].pc \notin {"pay", "unmark"},
         act[r].pc \in Afterwards =>
           act'[r].pc \in Afterwards /\ act'[r].task = act[r].task
  PROVE  MarkInv'
<1>1. PaidRuns' /\ PaidClicks'
  BY DEF MarkInv, PaidRuns, PaidClicks, Paid
<1>2. ASSUME NEW p \in Payers, Holds(p)' PROVE Holds(p) /\ TaskOf(p)' = TaskOf(p)
  <2>1. CASE p = r
    <3>1. Paid(p)
      BY <1>2, <2>1 DEF Holds, Busy, Paid
    <3>2. act'[r].task = act[r].task
      BY <2>1, <3>1 DEF MarkInv, PaidRuns
    <3> QED BY <1>2, <2>1, <3>1, <3>2 DEF Holds, TaskOf
  <2>2. CASE p \in Runs \ {r}
    BY <1>2, <2>2 DEF Holds, Busy, Paid, TaskOf
  <2>3. CASE p \notin Runs
    BY <1>2, <2>3 DEF Holds, Busy, Paid, TaskOf
  <2> QED BY <2>1, <2>2, <2>3
<1> QED BY <1>1, <1>2, HoldersKept

LEMMA GoesNeutral ==
  ASSUME TypeInv, MarkInv, NEW r \in Runs, NEW l \in RunLabels \ {"pay", "unmark"},
         Goto(r, l), act[r].pc \in Afterwards => l \in Afterwards,
         UNCHANGED <<click, bill, marker>>
  PROVE  MarkInv'
BY GotoType, RunNeutral DEF TypeInv, TypeOK

LEMMA EndsNeutral ==
  ASSUME TypeInv, MarkInv, NEW r \in Runs,
         NEW o \in {"none", "ok", "retry", "noretry"}, End(r, o),
         UNCHANGED <<click, bill, marker>>
  PROVE  MarkInv'
BY EndType, RunNeutral DEF TypeInv, TypeOK, Afterwards

LEMMA ReplacesNeutral ==
  ASSUME TypeInv, MarkInv, NEW r \in Runs, NEW s, act' = [act EXCEPT ![r] = s],
         s.pc \notin {"pay", "unmark"}, act[r].pc \notin Afterwards,
         UNCHANGED <<click, bill, marker>>
  PROVE  MarkInv'
<1>1. act'[r] = s /\ \A q \in Runs \ {r} : act'[q] = act[q]
  BY DEF TypeInv, TypeOK
<1> QED BY <1>1, RunNeutral

\* The steps that lead to a label, end the run, or give it a new record.
LEMMA MarkMoves ==
  ASSUME TypeInv, MarkInv, NEW r \in Runs,
         \/ Start(r) \/ RecordLocalCharge(r) \/ SaveTaskRef(r) \/ SubmittedHook(r)
         \/ RecordFailure(r) \/ AskRefunded(r) \/ Restore(r) \/ RecordRefund(r)
         \/ Consume(r) \/ Download(r) \/ Abandon(r) \/ RecordAbandon(r)
         \/ RecordGeneration(r) \/ RecordDelivered(r) \/ ClearRef(r) \/ Finish(r)
         \/ Crash(r)
  PROVE  MarkInv'
<1>1. {"load", "create", "hook", "poll", "takeRef", "askRefunded", "consume", "mark",
       "history", "countFailure", "recordAbandon", "recordDelivered", "clearRef",
       "over"} \subseteq RunLabels \ {"pay", "unmark"}
  BY DEF RunLabels
<1>2. CASE Start(r)
  BY <1>1, <1>2, GoesNeutral DEF Start, At, Afterwards, money, redis
<1>3. CASE RecordLocalCharge(r)
  BY <1>1, <1>3, GoesNeutral DEF RecordLocalCharge, At, Afterwards, money, redis
<1>4. CASE SaveTaskRef(r)
  BY <1>1, <1>4, GoesNeutral DEF SaveTaskRef, At, Afterwards, money
<1>5. CASE SubmittedHook(r)
  BY <1>1, <1>5, GoesNeutral DEF SubmittedHook, At, Afterwards, money, redis
<1>6. CASE RecordFailure(r)
  BY <1>1, <1>6, GoesNeutral, EndsNeutral DEF RecordFailure, At, Afterwards, money, redis
<1>7. CASE AskRefunded(r)
  BY <1>1, <1>7, GoesNeutral, EndsNeutral DEF AskRefunded, At, Afterwards, money, redis
<1>8. CASE Restore(r)
  BY <1>8, EndsNeutral DEF Restore, money
<1>9. CASE RecordRefund(r)
  BY <1>1, <1>9, GoesNeutral, EndsNeutral DEF RecordRefund, Afterwards, money, redis
<1>10. CASE Consume(r)
  BY <1>10, EndsNeutral DEF Consume, money
<1>11. CASE Download(r)
  BY <1>1, <1>11, GoesNeutral DEF Download, At, Afterwards, money, redis
<1>12. CASE Abandon(r)
  BY <1>1, <1>12, GoesNeutral DEF Abandon, At, Afterwards, money
<1>13. CASE RecordAbandon(r)
  BY <1>13, EndsNeutral DEF RecordAbandon, money, redis
<1>14. CASE RecordGeneration(r)
  BY <1>1, <1>14, GoesNeutral DEF RecordGeneration, At, Afterwards, money, redis
<1>15. CASE RecordDelivered(r)
  BY <1>1, <1>15, GoesNeutral DEF RecordDelivered, At, Afterwards, money, redis
<1>16. CASE ClearRef(r)
  BY <1>16, EndsNeutral DEF ClearRef, money
<1>17. CASE Finish(r)
  BY <1>1, <1>17, GoesNeutral DEF Finish, Goto, Afterwards, money
<1>18. CASE Crash(r)
  BY <1>1, <1>18, GoesNeutral DEF Crash, Afterwards, money, redis
<1> QED BY <1>2, <1>3, <1>4, <1>5, <1>6, <1>7, <1>8, <1>9, <1>10, <1>11, <1>12,
           <1>13, <1>14, <1>15, <1>16, <1>17, <1>18

LEMMA MarkReplaces ==
  ASSUME TypeInv, MarkInv, NEW r \in Runs,
         Load(r) \/ Check(r) \/ Charge(r) \/ Create(r) \/ Poll(r) \/ TakeRef(r)
         \/ CountFailure(r)
  PROVE  MarkInv'
<1>1. {"check", "charge", "poll", "download", "abandon"} \subseteq
        RunLabels \ {"pay", "unmark"}
  BY DEF RunLabels
<1>2. UNCHANGED <<click, bill, marker>>
  BY DEF Load, Check, Charge, Create, Poll, TakeRef, CountFailure, money, redis
<1>3. act[r].pc \notin Afterwards
  BY DEF Load, Check, Charge, Create, Poll, TakeRef, CountFailure, At, Afterwards
<1>4. \/ \E l \in {"check", "charge", "poll", "download"} : Goto(r, l)
      \/ \E o \in {"retry", "noretry"} : End(r, o)
      \/ \E s : act' = [act EXCEPT ![r] = s] /\ s.pc \notin {"pay", "unmark"}
  <2>1. act[r] \in RunStates
    BY RunFields DEF TypeInv
  <2>2. CASE Load(r)
    <3> DEFINE s == [act[r] EXCEPT
            !.pc = "create", !.resumed = TRUE, !.task = ref.task,
            !.charge = ref.charge, !.key = ref.key, !.failures = ref.failures]
    <3>1. s.pc = "create"
      BY <2>1 DEF RunStates
    <3>2. Goto(r, "check") \/ act' = [act EXCEPT ![r] = s]
      BY <2>2 DEF Load
    <3> QED BY <3>1, <3>2
  <2>3. CASE Check(r)
    <3>1. ASSUME NEW i \in DOMAIN order
          PROVE  [act[r] EXCEPT !.pc = "create", !.charge = ChargeOfRow(order[i]),
                                !.key = KeyOfRow(order[i])].pc = "create"
      BY <2>1 DEF RunStates
    <3> QED BY <2>3, <3>1 DEF Check
  <2>4. CASE Charge(r)
    <3> DEFINE s == [act[r] EXCEPT
             !.pc = "recordCharge", !.own = TRUE, !.charge = r, !.key = r]
    <3>1. s.pc = "recordCharge"
      BY <2>1 DEF RunStates
    <3>2. End(r, "retry") \/ act' = [act EXCEPT ![r] = s]
      BY <2>4 DEF Charge
    <3> QED BY <3>1, <3>2
  <2>5. CASE Create(r)
    <3> DEFINE s == [act[r] EXCEPT !.pc = "saveRef", !.task = r]
               f(why) == [act[r] EXCEPT !.pc = "recordFailure", !.why = why]
    <3>1. s.pc = "saveRef" /\ \A why : f(why).pc = "recordFailure"
      BY <2>1 DEF RunStates
    <3>2. \/ Goto(r, "poll") \/ act' = [act EXCEPT ![r] = s]
          \/ \E why : act' = [act EXCEPT ![r] = f(why)]
      BY <2>5 DEF Create
    <3> HIDE DEF s, f
    <3> QED BY <3>1, <3>2
  <2>6. CASE Poll(r)
    <3> DEFINE f(why) == [act[r] EXCEPT !.pc = "recordFailure", !.why = why]
    <3>1. \A why : f(why).pc = "recordFailure"
      BY <2>1 DEF RunStates
    <3>2. Goto(r, "download") \/ \E why : act' = [act EXCEPT ![r] = f(why)]
      BY <2>6 DEF Poll
    <3> HIDE DEF f
    <3> QED BY <3>1, <3>2
  <2>7. CASE TakeRef(r)
    <3> DEFINE s == [act[r] EXCEPT
                  !.pc = "mark", !.task = ref.task, !.charge = ref.charge,
                  !.key = ref.key, !.failures = ref.failures]
    <3>1. s.pc = "mark"
      BY <2>1 DEF RunStates
    <3>2. End(r, "noretry") \/ act' = [act EXCEPT ![r] = s]
      BY <2>7 DEF TakeRef
    <3> QED BY <3>1, <3>2
  <2>8. CASE CountFailure(r)
    <3> DEFINE n == act[r].failures + 1
               s == [act[r] EXCEPT !.failures = n, !.pc = "ended", !.outcome = "retry"]
               t == [act[r] EXCEPT !.failures = n, !.pc = "abandon"]
    <3>1. s.pc = "ended" /\ t.pc = "abandon"
      BY <2>1 DEF RunStates
    <3>2. act' = [act EXCEPT ![r] = s] \/ act' = [act EXCEPT ![r] = t]
      BY <2>8 DEF CountFailure
    <3> QED BY <3>1, <3>2
  <2> QED BY <2>2, <2>3, <2>4, <2>5, <2>6, <2>7, <2>8
<1> QED BY <1>1, <1>2, <1>3, <1>4, GoesNeutral, EndsNeutral, ReplacesNeutral

\* Payer p wins the marker of its task; the others keep what they hold.
LEMMA WinMarker ==
  ASSUME MarkInv, NEW p \in Payers, PaidRuns', PaidClicks',
         TaskOf(p)' \notin marker, TaskOf(p)' # None => TaskOf(p)' \in marker',
         marker \subseteq marker',
         \A q \in Payers \ {p} : Holds(q)' => Holds(q) /\ TaskOf(q)' = TaskOf(q)
  PROVE  MarkInv'
<1>1. ASSUME NEW q \in Payers \ {p}, Holds(q)'
      PROVE  TaskOf(q)' \in marker /\ TaskOf(q)' # TaskOf(p)'
  BY <1>1 DEF MarkInv, HeldIsMarked
<1>2. HeldIsMarked'
  BY <1>1 DEF HeldIsMarked, Holds
<1>3. HeldOnce'
  <2> SUFFICES ASSUME NEW q1 \in Payers, NEW q2 \in Payers, q1 # q2,
                      Holds(q1)', Holds(q2)'
               PROVE  TaskOf(q1)' # TaskOf(q2)'
    BY DEF HeldOnce
  <2>1. CASE q1 = p
    BY <1>1, <2>1
  <2>2. CASE q2 = p
    BY <1>1, <2>2
  <2>3. CASE q1 # p /\ q2 # p
    BY <2>3 DEF MarkInv, HeldOnce
  <2> QED BY <2>1, <2>2, <2>3
<1> QED BY <1>2, <1>3 DEF MarkInv

\* Payer p, whose payment failed, removes the marker of the task it holds.
LEMMA LeaveMarker ==
  ASSUME MarkInv, NEW p \in Payers, PaidRuns', PaidClicks', Busy(p), ~Holds(p)',
         marker' = marker \ {TaskOf(p)},
         \A q \in Payers \ {p} : Holds(q)' => Holds(q) /\ TaskOf(q)' = TaskOf(q)
  PROVE  MarkInv'
<1>1. ASSUME NEW q \in Payers \ {p}, Holds(q)'
      PROVE  TaskOf(q)' \in marker /\ TaskOf(q)' # TaskOf(p)
  <2>1. CASE TaskOf(p) = None
    BY <1>1, <2>1 DEF MarkInv, HeldIsMarked, Holds
  <2>2. CASE TaskOf(p) # None
    BY <1>1, <2>2 DEF MarkInv, HeldIsMarked, HeldOnce, Holds
  <2> QED BY <2>1, <2>2
<1>2. HeldIsMarked'
  BY <1>1 DEF HeldIsMarked
<1>3. HeldOnce'
  BY DEF MarkInv, HeldOnce
<1> QED BY <1>2, <1>3 DEF MarkInv

\* A step of run r leaves the holdings of everybody else alone.
LEMMA RunAlone ==
  ASSUME NEW r \in Runs, UNCHANGED click,
         \A q \in Runs \ {r} : act'[q] = act[q],
         \A q \in Payers \ {r} : bill'[q] = bill[q]
  PROVE  \A q \in Payers \ {r} : Holds(q)' => Holds(q) /\ TaskOf(q)' = TaskOf(q)
BY DEF Holds, Busy, Paid, TaskOf, Payers

LEMMA MarkMark ==
  ASSUME "mark" \notin Faults, TypeInv, MarkInv, NEW r \in Runs, Mark(r)
  PROVE  MarkInv'
<1>1. {"recordRefund", "pay"} \subseteq RunLabels
  BY DEF RunLabels
<1>2. CASE act[r].task \in marker
  BY <1>1, <1>2, GoesNeutral DEF Mark, WinsMarker, At, Afterwards, money
<1>3. CASE act[r].task \notin marker
  <2>1. /\ act'[r].pc = "pay" /\ act'[r].task = act[r].task
        /\ \A q \in Runs \ {r} : act'[q] = act[q]
    BY <1>1, <1>3, GotoType DEF Mark, TypeInv, TypeOK
  <2>2. UNCHANGED <<click, bill>> /\ ~Paid(r)
    BY DEF Mark, money, At, MarkInv, PaidRuns, Afterwards
  <2>3. PaidRuns' /\ PaidClicks'
    BY <2>1, <2>2 DEF MarkInv, PaidRuns, PaidClicks, Paid
  <2>4. marker' = IF act[r].task = None THEN marker ELSE marker \cup {act[r].task}
    BY <1>3 DEF Mark, WinsMarker
  <2>5. TaskOf(r)' = act[r].task
    BY <2>1 DEF TaskOf
  <2> QED BY <1>3, <2>1, <2>2, <2>3, <2>4, <2>5, WinMarker, RunAlone DEF Payers
<1> QED BY <1>2, <1>3

LEMMA MarkPay == ASSUME TypeInv, MarkInv, NEW r \in Runs, Pay(r) PROVE MarkInv'
<1>1. {"recordRefund", "unmark"} \subseteq RunLabels
  BY DEF RunLabels
<1>2. /\ act'[r].pc \in {"recordRefund", "unmark"} /\ act'[r].task = act[r].task
      /\ \A q \in Runs \ {r} : act'[q] = act[q]
  BY <1>1, GotoType DEF Pay, TypeInv, TypeOK
<1>3. UNCHANGED <<click, marker>> /\ act[r].pc = "pay" /\ ~Paid(r)
  BY DEF Pay, redis, At, MarkInv, PaidRuns, Afterwards
<1>4. \A q \in Payers \ {r} : bill'[q] = bill[q]
  BY DEF Pay, TypeInv, TypeOK, Payers
<1>5. Paid(r)' => bill'[r].task = act[r].task /\ act'[r].pc = "recordRefund"
  <2>1. CASE UNCHANGED bill
    BY <1>3, <2>1 DEF Paid
  <2>2. CASE /\ bill' = [bill EXCEPT ![r] =
                  [charge |-> act[r].charge, task |-> act[r].task,
                   key |-> IF act[r].resumed THEN None ELSE act[r].key]]
             /\ Goto(r, "recordRefund")
    BY <1>1, <2>2, GotoType DEF TypeInv, TypeOK, Payers
  <2> QED BY <2>1, <2>2 DEF Pay
<1>6. PaidRuns' /\ PaidClicks'
  BY <1>2, <1>3, <1>4, <1>5, VideoChargeAssumption
  DEF MarkInv, PaidRuns, PaidClicks, Paid, Afterwards, Payers
<1>7. Holds(r)' => Holds(r) /\ TaskOf(r)' = TaskOf(r)
  BY <1>2, <1>3 DEF Holds, Busy, TaskOf
<1> QED BY <1>2, <1>3, <1>4, <1>6, <1>7, HoldersKept, RunAlone

LEMMA MarkUnmark == ASSUME TypeInv, MarkInv, NEW r \in Runs, Unmark(r) PROVE MarkInv'
<1>1. "restore" \in RunLabels
  BY DEF RunLabels
<1>2. /\ act'[r].pc \in {"restore", "ended"}
      /\ \A q \in Runs \ {r} : act'[q] = act[q]
  BY <1>1, GotoType, EndType DEF Unmark, TypeInv, TypeOK
<1>3. UNCHANGED <<click, bill>> /\ act[r].pc = "unmark" /\ ~Paid(r)
  BY DEF Unmark, money, At, MarkInv, PaidRuns, Afterwards
<1>4. PaidRuns' /\ PaidClicks'
  BY <1>2, <1>3 DEF MarkInv, PaidRuns, PaidClicks, Paid
<1>5. Busy(r) /\ ~Holds(r)' /\ marker' = marker \ {TaskOf(r)}
  BY <1>2, <1>3 DEF Busy, Holds, Paid, TaskOf, Unmark
<1> QED BY <1>2, <1>3, <1>4, <1>5, LeaveMarker, RunAlone DEF Payers

LEMMA MoveField ==
  ASSUME TypeOK, NEW a \in Clicks, NEW l \in ClickLabels, Move(a, l)
  PROVE  /\ click'[a].pc = l /\ click'[a].task = click[a].task
         /\ click'[a].row = click[a].row
         /\ \A b \in Clicks \ {a} : click'[b] = click[b]
BY DEF Move, TypeOK, ClickStates

LEMMA ClickAlone ==
  ASSUME NEW a \in Clicks, UNCHANGED act,
         \A b \in Clicks \ {a} : click'[b] = click[b],
         \A q \in Payers \ {a} : bill'[q] = bill[q]
  PROVE  \A q \in Payers \ {a} : Holds(q)' => Holds(q) /\ TaskOf(q)' = TaskOf(q)
BY DEF Holds, Busy, Paid, TaskOf, Payers

\* A step of click a that neither wins a marker nor pays.
LEMMA ClickNeutral ==
  ASSUME MarkInv, NEW a \in Clicks, UNCHANGED <<act, bill, marker>>,
         \A b \in Clicks \ {a} : click'[b] = click[b],
         click'[a].pc \notin {"paying", "unmarking"},
         click[a].pc \in {"confirming", "done"} =>
           click'[a].pc = "done" /\ click'[a].task = click[a].task
  PROVE  MarkInv'
<1>1. PaidRuns' /\ PaidClicks'
  BY DEF MarkInv, PaidRuns, PaidClicks, Paid
<1>2. Holds(a)' => Holds(a) /\ TaskOf(a)' = TaskOf(a)
  BY VideoChargeAssumption
  DEF Holds, Busy, Paid, TaskOf, MarkInv, PaidClicks
<1> QED BY <1>1, <1>2, HoldersKept, ClickAlone

LEMMA MarkClicks ==
  ASSUME "mark" \notin Faults, TypeInv, MarkInv, NEW a \in Clicks,
         Claim(a) \/ ClickStep(a) \/ ClickCrash(a)
  PROVE  MarkInv'
<1>1. {"paying", "unmarking", "reverting", "confirming", "done"} \subseteq ClickLabels
  BY DEF ClickLabels
<1>2. a \in Payers /\ a \notin Runs
  BY VideoChargeAssumption DEF Payers
<1>3. CASE Claim(a)
  <2>1. /\ click[a].pc = "idle" /\ click'[a].pc = "claimed"
        /\ \A b \in Clicks \ {a} : click'[b] = click[b]
    BY <1>3 DEF Claim, OnRow, TypeInv, TypeOK
  <2> QED BY <1>3, <2>1, ClickNeutral DEF Claim, money, redis
<1>4. CASE Revert(a) \/ Confirm(a) \/ ClickCrash(a)
  <2>1. /\ click'[a].pc = "done" /\ click'[a].task = click[a].task
        /\ \A b \in Clicks \ {a} : click'[b] = click[b]
    BY <1>1, <1>4, MoveField DEF Revert, Confirm, ClickCrash, TypeInv
  <2> QED BY <1>4, <2>1, ClickNeutral DEF Revert, Confirm, ClickCrash, money, redis
<1>5. CASE ClickMark(a)
  <2>1. CASE click[a].task \in marker
    <3>1. /\ click[a].pc = "claimed" /\ click'[a].pc = "reverting"
          /\ \A b \in Clicks \ {a} : click'[b] = click[b]
      BY <1>1, <1>5, <2>1, MoveField DEF ClickMark, WinsMarker, OnRow, TypeInv
    <3> QED BY <1>5, <2>1, <3>1, ClickNeutral DEF ClickMark, WinsMarker, money
  <2>2. CASE click[a].task \notin marker
    <3>1. /\ click'[a].pc = "paying" /\ click'[a].task = click[a].task
          /\ \A b \in Clicks \ {a} : click'[b] = click[b]
      BY <1>1, <1>5, <2>2, MoveField DEF ClickMark, TypeInv
    <3>2. UNCHANGED <<act, bill>> /\ ~Paid(a)
      BY <1>5 DEF ClickMark, money, OnRow, MarkInv, PaidClicks
    <3>3. PaidRuns' /\ PaidClicks'
      BY <3>1, <3>2 DEF MarkInv, PaidRuns, PaidClicks, Paid
    <3>4. marker' = IF click[a].task = None THEN marker
                    ELSE marker \cup {click[a].task}
      BY <1>5, <2>2 DEF ClickMark, WinsMarker
    <3>5. TaskOf(a)' = click[a].task
      BY <1>2, <3>1 DEF TaskOf
    <3> QED BY <1>2, <2>2, <3>1, <3>2, <3>3, <3>4, <3>5, WinMarker, ClickAlone
  <2> QED BY <2>1, <2>2
<1>6. CASE ClickPay(a)
  <2>1. /\ click'[a].pc \in {"confirming", "unmarking"}
        /\ click'[a].task = click[a].task
        /\ \A b \in Clicks \ {a} : click'[b] = click[b]
    BY <1>1, <1>6, MoveField DEF ClickPay, TypeInv
  <2>2. UNCHANGED <<act, marker>> /\ click[a].pc = "paying" /\ ~Paid(a)
    BY <1>6 DEF ClickPay, redis, OnRow, MarkInv, PaidClicks
  <2>3. \A q \in Payers \ {a} : bill'[q] = bill[q]
    BY <1>6 DEF ClickPay, TypeInv, TypeOK
  <2>4. Paid(a)' => bill'[a].task = click[a].task /\ click'[a].pc = "confirming"
    <3>1. CASE UNCHANGED bill
      BY <2>2, <3>1 DEF Paid
    <3>2. CASE /\ bill' = [bill EXCEPT ![a] =
                    [charge |-> ChargeOfRow(click[a].row), task |-> click[a].task,
                     key |-> None]]
               /\ Move(a, "confirming")
      BY <1>1, <1>2, <3>2, MoveField DEF TypeInv, TypeOK
    <3> QED BY <1>6, <3>1, <3>2 DEF ClickPay
  <2>5. PaidRuns' /\ PaidClicks'
    BY <1>2, <2>1, <2>2, <2>3, <2>4 DEF MarkInv, PaidRuns, PaidClicks, Paid, Payers
  <2>6. Holds(a)' => Holds(a) /\ TaskOf(a)' = TaskOf(a)
    BY <1>2, <2>1, <2>2 DEF Holds, Busy, TaskOf
  <2> QED BY <2>1, <2>2, <2>3, <2>5, <2>6, HoldersKept, ClickAlone
<1>7. CASE ClickUnmark(a)
  <2>1. /\ click'[a].pc = "reverting"
        /\ \A b \in Clicks \ {a} : click'[b] = click[b]
    BY <1>1, <1>7, MoveField DEF ClickUnmark, TypeInv
  <2>2. UNCHANGED <<act, bill>> /\ click[a].pc = "unmarking" /\ ~Paid(a)
    BY <1>7 DEF ClickUnmark, money, OnRow, MarkInv, PaidClicks
  <2>3. PaidRuns' /\ PaidClicks'
    BY <2>1, <2>2 DEF MarkInv, PaidRuns, PaidClicks, Paid
  <2>4. Busy(a) /\ ~Holds(a)' /\ marker' = marker \ {TaskOf(a)}
    BY <1>2, <1>7, <2>1, <2>2 DEF Busy, Holds, Paid, TaskOf, ClickUnmark
  <2> QED BY <1>2, <2>1, <2>2, <2>3, <2>4, LeaveMarker, ClickAlone
<1> QED BY <1>3, <1>4, <1>5, <1>6, <1>7 DEF ClickStep

LEMMA MarkStep ==
  ASSUME "mark" \notin Faults
  PROVE  TypeInv /\ MarkInv /\ [Next]_vars => MarkInv'
<1> SUFFICES ASSUME TypeInv, MarkInv, [Next]_vars PROVE MarkInv'
  OBVIOUS
<1>1. ASSUME NEW r \in Runs, Start(r) \/ RunStep(r) \/ Crash(r) PROVE MarkInv'
  BY <1>1, MarkMoves, MarkReplaces, MarkMark, MarkPay, MarkUnmark DEF RunStep
<1>2. ASSUME NEW a \in Clicks, Claim(a) \/ ClickStep(a) \/ ClickCrash(a) PROVE MarkInv'
  BY <1>2, MarkClicks
<1>3. CASE UNCHANGED <<act, click, bill, marker>>
  BY <1>3 DEF MarkInv, PaidRuns, PaidClicks, HeldIsMarked, HeldOnce, Holds, Busy,
              Paid, TaskOf
<1>4. CASE UNCHANGED vars
  BY <1>3, <1>4 DEF vars
<1> QED BY <1>1, <1>2, <1>3, <1>4, OthersKeepClicks DEF Next

\* The marker of a task is won by one payer and outlives its payment, so the
\* credits of an upstream task are returned once, for any number of runs and
\* clicks and wherever their processes die.  Redis must take the marker: where
\* SETNX may fail, TryMarkRefunded prefers a second refund to none.
THEOREM RefundedOncePerTask ==
  ASSUME "mark" \notin Faults
  PROVE  Spec => []RefundOncePerTask
<1>1. MarkInv => RefundOncePerTask
  <2> SUFFICES ASSUME MarkInv, NEW p \in Payers, NEW q \in Payers, p # q,
                      Paid(p), Paid(q), bill[p].task # None
               PROVE  bill[p].task # bill[q].task
    BY DEF RefundOncePerTask
  <2>1. bill[p].task = TaskOf(p) /\ bill[q].task = TaskOf(q)
    BY VideoChargeAssumption DEF MarkInv, PaidRuns, PaidClicks, TaskOf, Payers
  <2>2. CASE TaskOf(q) = None
    BY <2>1, <2>2
  <2>3. CASE TaskOf(q) # None
    BY <2>1, <2>3 DEF MarkInv, HeldOnce, Holds
  <2> QED BY <2>2, <2>3
<1>2. Init => RowKnown
  BY DEF Init, RowKnown
<1>3. TypeInv /\ MarkInv /\ [Next]_vars => MarkInv'
  BY MarkStep
<1> QED BY <1>1, <1>2, <1>3, TypeInit, TypeStep, RowKnownStep, MarkInit,
           PTL DEF Spec
-----------------------------------------------------------------------------
(* One manual refund per row.  A click holds its row from the claim until it    *)
(* has given the row back; a click that has paid holds it for ever.             *)

Occupied(row) == Exists(row) /\ row.refunded

ClickedLabels == {"claimed", "paying", "unmarking", "reverting", "confirming"}
HoldsRow(a) == click[a].pc \in ClickedLabels \/ Paid(a)

PaidLate == \A a \in Clicks : Paid(a) => click[a].pc \in {"confirming", "done"}
HeldRowOccupied == \A a \in Clicks :
  HoldsRow(a) => click[a].row \in RowKeys /\ Occupied(rows[click[a].row])
RowHeldOnce ==
  \A a, b \in Clicks : a # b /\ HoldsRow(a) /\ HoldsRow(b) => click[a].row # click[b].row

RowInv == PaidLate /\ HeldRowOccupied /\ RowHeldOnce

\* No write of a run frees an occupied row.
StaysOccupied == \A k \in RowKeys : Occupied(rows[k]) => Occupied(rows'[k])

LEMMA PutStays ==
  ASSUME TypeOK, NEW k \in RowKeys, NEW new \in Row(Runs), Exists(new), Put(k, new)
  PROVE  StaysOccupied
<1>1. rows[k] \in Row(Runs)
  BY DEF TypeOK
<1>2. Occupied(rows[k]) => Occupied(Upserted(rows[k], new))
  BY <1>1 DEF Occupied, Exists, Upserted, Merged, Row
<1>3. rows' = [rows EXCEPT ![k] = Upserted(rows[k], new)]
  BY DEF Put
<1> QED BY <1>2, <1>3 DEF StaysOccupied, TypeOK

LEMMA RecordChargeStays ==
  ASSUME TypeOK, NEW c \in Runs, NEW status \in Statuses, NEW refunded \in BOOLEAN,
         NEW t \in MaybeRun, RecordCharge(c, status, refunded, t)
  PROVE  StaysOccupied
<1> DEFINE new == [status |-> status, refunded |-> refunded, task |-> t]
<1>1. new \in Row(Runs) /\ Exists(new) /\ ChargeRow(c) \in RowKeys
  BY DEF Row, Exists, Statuses, ChargeRow, RowKeys, MaybeRun
<1>2. Put(ChargeRow(c), new) \/ UNCHANGED <<rows, order>>
  BY DEF RecordCharge
<1> QED BY <1>1, <1>2, PutStays DEF StaysOccupied

LEMMA RecordTaskStays ==
  ASSUME TypeOK, NEW t \in Runs, NEW status \in Statuses, NEW refunded \in BOOLEAN,
         RecordTask(t, status, refunded)
  PROVE  StaysOccupied
<1> DEFINE new == [status |-> status, refunded |-> refunded, task |-> t]
<1>1. new \in Row(Runs) /\ Exists(new) /\ TaskRow(t) \in RowKeys
  BY DEF Row, Exists, Statuses, TaskRow, RowKeys
<1>2. (\E k \in RowKeys : Put(k, new)) \/ UNCHANGED <<rows, order>>
  BY <1>1 DEF RecordTask
<1> QED BY <1>1, <1>2, PutStays DEF StaysOccupied

LEMMA RecordProviderTaskStays ==
  ASSUME TypeOK, NEW c \in MaybeRun, NEW status \in Statuses, NEW refunded \in BOOLEAN,
         NEW t \in MaybeRun, RecordProviderTask(c, t, status, refunded)
  PROVE  StaysOccupied
<1>1. CASE c # None /\ RecordCharge(c, status, refunded, t)
  BY <1>1, RecordChargeStays DEF MaybeRun
<1>2. CASE c = None /\ t # None /\ RecordTask(t, status, refunded)
  BY <1>2, RecordTaskStays DEF MaybeRun
<1>3. CASE UNCHANGED <<rows, order>>
  BY <1>3 DEF StaysOccupied
<1> QED BY <1>1, <1>2, <1>3 DEF RecordProviderTask

LEMMA RunStays ==
  ASSUME TypeInv, NEW r \in Runs, Start(r) \/ RunStep(r) \/ Crash(r)
  PROVE  StaysOccupied
<1>1. CASE RecordLocalCharge(r)
  BY <1>1, StatusFacts, RecordChargeStays DEF TypeInv, RecordLocalCharge, MaybeRun
<1>2. CASE \/ SubmittedHook(r) \/ RecordFailure(r) \/ Restore(r) \/ RecordRefund(r)
           \/ RecordAbandon(r) \/ RecordDelivered(r)
  <2>1. \E status \in Statuses, refunded \in BOOLEAN :
          RecordProviderTask(act[r].key, act[r].task, status, refunded)
    BY <1>2, StatusFacts
    DEF SubmittedHook, RecordFailure, Restore, RecordRefund, RecordAbandon,
        RecordDelivered
  <2> QED BY <2>1, RunFields, RecordProviderTaskStays DEF TypeInv
<1>3. CASE UNCHANGED rows
  BY <1>3 DEF StaysOccupied
<1>4. CASE \/ Start(r) \/ Load(r) \/ Check(r) \/ Charge(r) \/ Create(r)
           \/ SaveTaskRef(r) \/ Poll(r)
  <2>1. Check(r) => UNCHANGED rows
    BY Zenon DEF Check, table
  <2> QED BY <1>3, <1>4, <2>1
          DEF Start, Load, Charge, Create, SaveTaskRef, Poll, table
<1>5. CASE \/ TakeRef(r) \/ AskRefunded(r) \/ Mark(r) \/ Pay(r) \/ Unmark(r)
           \/ Consume(r) \/ Download(r)
  BY <1>3, <1>5 DEF TakeRef, AskRefunded, Mark, Pay, Unmark, Consume, Download, table
<1>6. CASE \/ CountFailure(r) \/ Abandon(r) \/ RecordGeneration(r) \/ ClearRef(r)
           \/ Finish(r) \/ Crash(r)
  BY <1>3, <1>6
  DEF CountFailure, Abandon, RecordGeneration, ClearRef, Finish, Crash, table
<1> QED BY <1>1, <1>2, <1>4, <1>5, <1>6 DEF RunStep

LEMMA OthersStay ==
  ASSUME TypeInv, Redeliver \/ RefusePlan \/ SkipDone \/ Sweep \/ Judge \/ Close
  PROVE  StaysOccupied
<1>1. CASE dog.ref # NoRef /\ RecordTask(dog.ref.task, "pending_review", FALSE)
  <2>1. dog.ref.task \in Runs
    BY <1>1 DEF TypeInv, TypeOK, Refs
  <2> QED BY <1>1, <2>1, StatusFacts, RecordTaskStays DEF TypeInv
<1>2. CASE UNCHANGED rows
  BY <1>2 DEF StaysOccupied
<1> QED BY <1>1, <1>2
        DEF Redeliver, RefusePlan, SkipDone, Sweep, Judge, Close, table

LEMMA RunKeepsClickBills ==
  ASSUME TypeInv, NEW r \in Runs, Start(r) \/ RunStep(r) \/ Crash(r)
  PROVE  \A a \in Clicks : bill'[a] = bill[a]
<1>1. CASE Pay(r)
  BY <1>1, VideoChargeAssumption DEF Pay, TypeInv, TypeOK, Payers
<1>2. CASE UNCHANGED bill
  BY <1>2
<1>3. CASE \/ Start(r) \/ Load(r) \/ Check(r) \/ Charge(r) \/ RecordLocalCharge(r)
           \/ Create(r) \/ SaveTaskRef(r) \/ SubmittedHook(r) \/ Poll(r)
  <2>1. Check(r) => UNCHANGED bill
    BY Zenon DEF Check, money
  <2> QED BY <1>2, <1>3, <2>1
          DEF Start, Load, Charge, RecordLocalCharge, Create, SaveTaskRef,
              SubmittedHook, Poll, money
<1>4. CASE \/ RecordFailure(r) \/ TakeRef(r) \/ AskRefunded(r) \/ Mark(r) \/ Unmark(r)
           \/ Restore(r) \/ RecordRefund(r) \/ Consume(r)
  BY <1>2, <1>4
  DEF RecordFailure, TakeRef, AskRefunded, Mark, Unmark, Restore, RecordRefund,
      Consume, money
<1>5. CASE \/ Download(r) \/ CountFailure(r) \/ Abandon(r) \/ RecordAbandon(r)
           \/ RecordGeneration(r) \/ RecordDelivered(r) \/ ClearRef(r) \/ Finish(r)
           \/ Crash(r)
  BY <1>2, <1>5
  DEF Download, CountFailure, Abandon, RecordAbandon, RecordGeneration,
      RecordDelivered, ClearRef, Finish, Crash, money
<1> QED BY <1>1, <1>3, <1>4, <1>5 DEF RunStep

\* A step that leaves the clicks and what they paid alone.
LEMMA ClicksIdle ==
  ASSUME RowInv, UNCHANGED click, \A a \in Clicks : bill'[a] = bill[a], StaysOccupied
  PROVE  RowInv'
BY DEF RowInv, PaidLate, HeldRowOccupied, RowHeldOnce, HoldsRow, Paid, StaysOccupied

\* A step of click a on the row it holds, if any, that frees no row.
LEMMA ClickMoves ==
  ASSUME RowInv, NEW a \in Clicks,
         click'[a].row = click[a].row,
         \A b \in Clicks \ {a} : click'[b] = click[b] /\ bill'[b] = bill[b],
         HoldsRow(a)' => HoldsRow(a),
         Paid(a)' => click'[a].pc \in {"confirming", "done"},
         StaysOccupied
  PROVE  RowInv'
<1>1. \A b \in Clicks : HoldsRow(b)' => HoldsRow(b) /\ click'[b].row = click[b].row
  BY DEF HoldsRow, Paid
<1>2. PaidLate'
  BY DEF RowInv, PaidLate, Paid
<1>3. HeldRowOccupied'
  BY <1>1 DEF RowInv, HeldRowOccupied, StaysOccupied
<1>4. RowHeldOnce'
  BY <1>1 DEF RowInv, RowHeldOnce
<1> QED BY <1>2, <1>3, <1>4 DEF RowInv

LEMMA RowClaim == ASSUME TypeInv, RowInv, NEW a \in Clicks, Claim(a) PROVE RowInv'
<1>1. PICK k \in RowKeys :
        /\ Claimable(rows[k])
        /\ rows' = [rows EXCEPT ![k] = ClaimForRefund(rows[k])]
        /\ click' = [click EXCEPT ![a] =
                       [pc |-> "claimed", row |-> k, task |-> rows[k].task]]
  BY DEF Claim
<1>2. /\ click'[a].pc = "claimed" /\ click'[a].row = k
      /\ \A b \in Clicks \ {a} : click'[b] = click[b]
      /\ UNCHANGED bill
  BY <1>1 DEF Claim, TypeInv, TypeOK, money
<1>3. rows[k] \in Row(Runs)
  BY DEF TypeInv, TypeOK
<1>4. ~Occupied(rows[k]) /\ Occupied(ClaimForRefund(rows[k]))
  BY <1>1, <1>3 DEF Occupied, Exists, Claimable, ClaimForRefund, Row
<1>5. Occupied(rows'[k]) /\ StaysOccupied
  BY <1>1, <1>4 DEF TypeInv, TypeOK, StaysOccupied
<1>6. ~Paid(a)
  BY DEF RowInv, PaidLate, Claim, OnRow
<1>7. \A b \in Clicks \ {a} :
        HoldsRow(b)' => HoldsRow(b) /\ click'[b].row = click[b].row /\ click[b].row # k
  BY <1>2, <1>4 DEF HoldsRow, Paid, RowInv, HeldRowOccupied
<1>8. PaidLate'
  BY <1>2, <1>6 DEF RowInv, PaidLate, Paid
<1>9. HeldRowOccupied'
  BY <1>2, <1>5, <1>7 DEF RowInv, HeldRowOccupied, StaysOccupied
<1>10. RowHeldOnce'
  BY <1>2, <1>7 DEF RowInv, RowHeldOnce
<1> QED BY <1>8, <1>9, <1>10 DEF RowInv

\* Revert frees a row that no other click holds.
LEMMA RowRevert == ASSUME TypeInv, RowInv, NEW a \in Clicks, Revert(a) PROVE RowInv'
<1>1. /\ click'[a].pc = "done"
      /\ \A b \in Clicks \ {a} : click'[b] = click[b]
      /\ UNCHANGED bill
  BY MoveField DEF Revert, ClickLabels, TypeInv, money
<1>2. HoldsRow(a) /\ ~Paid(a)
  BY DEF Revert, OnRow, HoldsRow, ClickedLabels, RowInv, PaidLate
<1>3. ~HoldsRow(a)'
  BY <1>1, <1>2 DEF HoldsRow, ClickedLabels, Paid
<1>4. \A k \in RowKeys \ {click[a].row} : rows'[k] = rows[k]
  BY DEF Revert, TypeInv, TypeOK
<1>5. \A b \in Clicks \ {a} :
        HoldsRow(b)' => /\ HoldsRow(b) /\ click'[b].row = click[b].row
                        /\ click[b].row # click[a].row
  BY <1>1, <1>2 DEF HoldsRow, Paid, RowInv, RowHeldOnce
<1>6. PaidLate'
  BY <1>1, <1>2 DEF RowInv, PaidLate, Paid
<1>7. HeldRowOccupied'
  BY <1>3, <1>4, <1>5 DEF RowInv, HeldRowOccupied
<1>8. RowHeldOnce'
  BY <1>3, <1>5 DEF RowInv, RowHeldOnce
<1> QED BY <1>6, <1>7, <1>8 DEF RowInv

LEMMA RowConfirm == ASSUME TypeInv, RowInv, NEW a \in Clicks, Confirm(a) PROVE RowInv'
<1>1. /\ click'[a].pc = "done" /\ click'[a].row = click[a].row
      /\ \A b \in Clicks \ {a} : click'[b] = click[b]
      /\ UNCHANGED bill
  BY MoveField DEF Confirm, ClickLabels, TypeInv, money
<1>2. HoldsRow(a)
  BY DEF Confirm, OnRow, HoldsRow, ClickedLabels
<1>3. rows[click[a].row] \in Row(Runs) /\ click[a].row \in RowKeys
  BY <1>2 DEF RowInv, HeldRowOccupied, TypeInv, TypeOK
<1>4. Occupied(MarkRefundedFromClaim(rows[click[a].row]))
  BY <1>3 DEF Occupied, Exists, MarkRefundedFromClaim, Row
<1>5. \/ rows' = rows
      \/ rows' = [rows EXCEPT ![click[a].row] =
                     MarkRefundedFromClaim(rows[click[a].row])]
  BY DEF Confirm
<1>6. StaysOccupied
  BY <1>3, <1>4, <1>5 DEF StaysOccupied, TypeInv, TypeOK
<1> QED BY <1>1, <1>2, <1>6, ClickMoves

LEMMA RowClickStep ==
  ASSUME TypeInv, RowInv, NEW a \in Clicks,
         ClickMark(a) \/ ClickPay(a) \/ ClickUnmark(a) \/ ClickCrash(a)
  PROVE  RowInv'
<1>1. {"paying", "unmarking", "reverting", "confirming", "done"} \subseteq ClickLabels
  BY DEF ClickLabels
<1>2. /\ click'[a].row = click[a].row
      /\ \A b \in Clicks \ {a} : click'[b] = click[b]
      /\ StaysOccupied
  BY <1>1, MoveField
  DEF ClickMark, ClickPay, ClickUnmark, ClickCrash, TypeInv, table, StaysOccupied
<1>3. \A b \in Clicks \ {a} : bill'[b] = bill[b]
  BY DEF ClickMark, ClickPay, ClickUnmark, ClickCrash, TypeInv, TypeOK, money, Payers
<1>4. CASE ClickMark(a) \/ ClickUnmark(a)
  <2>1. click[a].pc \in {"claimed", "unmarking"} /\ UNCHANGED bill
    BY <1>4 DEF ClickMark, ClickUnmark, OnRow, money
  <2>2. HoldsRow(a) /\ ~Paid(a)'
    BY <2>1 DEF HoldsRow, ClickedLabels, RowInv, PaidLate, Paid
  <2> QED BY <1>2, <1>3, <2>2, ClickMoves
<1>5. CASE ClickPay(a)
  <2>1. click[a].pc = "paying"
    BY <1>5 DEF ClickPay, OnRow
  <2>2. HoldsRow(a) /\ ~Paid(a)
    BY <2>1 DEF HoldsRow, ClickedLabels, RowInv, PaidLate
  <2>3. CASE Move(a, "confirming")
    BY <1>1, <1>2, <1>3, <2>2, <2>3, MoveField, ClickMoves DEF TypeInv
  <2>4. CASE UNCHANGED bill
    BY <1>2, <1>3, <2>2, <2>4, ClickMoves DEF Paid
  <2> QED BY <1>5, <2>3, <2>4 DEF ClickPay
<1>6. CASE ClickCrash(a)
  <2>1. click'[a].pc = "done" /\ UNCHANGED bill
    BY <1>1, <1>6, MoveField DEF ClickCrash, TypeInv, money
  <2>2. HoldsRow(a)' => HoldsRow(a)
    BY <2>1 DEF HoldsRow, ClickedLabels, Paid
  <2> QED BY <1>2, <1>3, <2>1, <2>2, ClickMoves
<1> QED BY <1>4, <1>5, <1>6

LEMMA RowStep == TypeInv /\ RowInv /\ [Next]_vars => RowInv'
<1> SUFFICES ASSUME TypeInv, RowInv, [Next]_vars PROVE RowInv'
  OBVIOUS
<1>1. ASSUME NEW r \in Runs, Start(r) \/ RunStep(r) \/ Crash(r) PROVE RowInv'
  BY <1>1, RunStays, RunKeepsClicks, RunKeepsClickBills, ClicksIdle
<1>2. ASSUME NEW a \in Clicks, Claim(a) \/ ClickStep(a) \/ ClickCrash(a) PROVE RowInv'
  BY <1>2, RowClaim, RowRevert, RowConfirm, RowClickStep DEF ClickStep
<1>3. CASE Redeliver \/ RefusePlan \/ SkipDone \/ Sweep \/ Judge \/ Close
  BY <1>3, OthersStay, OthersKeepClicks, ClicksIdle
<1>4. CASE UNCHANGED vars
  BY <1>4, ClicksIdle DEF vars, StaysOccupied
<1> QED BY <1>1, <1>2, <1>3, <1>4 DEF Next

\* ClaimForRefund is the only guard of a row without a task id: it lets in one
\* click at a time, nothing a run writes opens the row again, and only a click
\* that has not paid gives it back.  So no row is paid out by two clicks, for
\* any number of clicks and runs, wherever they die and whatever call fails.
THEOREM RefundedManuallyOncePerRow == Spec => []OneManualRefundPerRow
<1>1. Init => RowKnown
  BY DEF Init, RowKnown
<1>2. Init => RowInv
  BY DEF Init, RowInv, PaidLate, HeldRowOccupied, RowHeldOnce, HoldsRow, ClickedLabels,
         Paid, NoBill, Payers
<1>3. RowInv => OneManualRefundPerRow
  BY DEF RowInv, RowHeldOnce, HoldsRow, OneManualRefundPerRow
<1> QED BY <1>1, <1>2, <1>3, TypeInit, TypeStep, RowKnownStep, RowStep, PTL DEF Spec
-----------------------------------------------------------------------------
(* A refunded row takes no write of a run or of the watchdog *)

LEMMA PutKeeps ==
  ASSUME TypeOK, NEW j \in RowKeys, NEW new, Put(j, new), NEW k \in RowKeys,
         rows[k].status = "refunded"
  PROVE  rows'[k] = rows[k]
<1>1. CASE k # j
  BY <1>1 DEF Put, TypeOK
<1>2. CASE k = j
  BY <1>2 DEF Put, TypeOK, Upserted, Exists, Writable
<1> QED BY <1>1, <1>2

LEMMA RecordKeeps ==
  ASSUME TypeOK, NEW c \in MaybeRun, NEW t \in MaybeRun, NEW status, NEW refunded,
         RecordProviderTask(c, t, status, refunded), NEW k \in RowKeys,
         rows[k].status = "refunded"
  PROVE  rows'[k] = rows[k]
<1>1. \A d \in Runs : ChargeRow(d) \in RowKeys /\ TaskRow(d) \in RowKeys
  BY DEF ChargeRow, TaskRow, RowKeys
<1>2. CASE c # None /\ RecordCharge(c, status, refunded, t)
  BY <1>1, <1>2, PutKeeps DEF RecordCharge, MaybeRun
<1>3. CASE c = None /\ t # None /\ RecordTask(t, status, refunded)
  BY <1>1, <1>3, PutKeeps DEF RecordTask, MaybeRun
<1>4. CASE UNCHANGED <<rows, order>>
  BY <1>4
<1> QED BY <1>2, <1>3, <1>4 DEF RecordProviderTask

\* Only the outcome of a click that failed to pay takes "refunded" off a row.
LEMMA RefundedKept ==
  ASSUME TypeInv, RowKnown, [Next]_vars, NEW k \in RowKeys, rows[k].status = "refunded",
         rows'[k].status # "refunded"
  PROVE  \E a \in Clicks : Revert(a) /\ click[a].row = k
<1>1. rows \in [RowKeys -> Row(Runs)]
  BY DEF TypeInv, TypeOK
<1>2. ~UNCHANGED rows
  OBVIOUS
<1>3. ASSUME NEW r \in Runs, NEW status, NEW refunded
      PROVE  ~RecordProviderTask(act[r].key, act[r].task, status, refunded)
  BY RecordKeeps, RunFields DEF TypeInv
<1>4. ASSUME NEW r \in Runs, NEW status, NEW refunded, NEW t \in MaybeRun
      PROVE  ~RecordCharge(r, status, refunded, t)
  <2>1. r \in MaybeRun /\ r # None
    BY VideoChargeAssumption DEF MaybeRun, Payers
  <2> QED BY <2>1, RecordKeeps DEF RecordProviderTask, TypeInv
<1>5. ASSUME NEW t \in Runs, NEW status, NEW refunded
      PROVE  ~RecordTask(t, status, refunded)
  <2>1. t \in MaybeRun /\ t # None /\ None \in MaybeRun
    BY VideoChargeAssumption DEF MaybeRun, Payers
  <2> QED BY <2>1, RecordKeeps DEF RecordProviderTask, TypeInv
<1>6. ASSUME NEW r \in Runs PROVE ~(Start(r) \/ RunStep(r) \/ Crash(r))
  <2>1. ~(RecordLocalCharge(r) \/ SubmittedHook(r) \/ RecordFailure(r) \/ Restore(r)
          \/ RecordRefund(r) \/ RecordAbandon(r) \/ RecordDelivered(r))
    BY <1>3, <1>4 DEF RecordLocalCharge, SubmittedHook, RecordFailure, Restore,
       RecordRefund, RecordAbandon, RecordDelivered, MaybeRun
  <2>2. ~(Load(r) \/ Check(r) \/ Charge(r) \/ Create(r) \/ SaveTaskRef(r) \/ Poll(r)
          \/ TakeRef(r) \/ AskRefunded(r) \/ Mark(r) \/ Pay(r) \/ Unmark(r) \/ Consume(r))
    BY <1>2 DEF Load, Check, Charge, Create, SaveTaskRef, Poll, TakeRef, AskRefunded,
       Mark, Pay, Unmark, Consume, table
  <2>3. ~(Download(r) \/ CountFailure(r) \/ Abandon(r) \/ RecordGeneration(r)
          \/ ClearRef(r) \/ Finish(r) \/ Start(r) \/ Crash(r))
    BY <1>2 DEF Download, CountFailure, Abandon, RecordGeneration, ClearRef, Finish,
       Start, Crash, table
  <2> QED BY <2>1, <2>2, <2>3 DEF RunStep
<1>7. ASSUME NEW a \in Clicks, Claim(a) PROVE FALSE
  <2>1. PICK j \in RowKeys : rows' = [rows EXCEPT ![j] = ClaimForRefund(@)]
    BY <1>7 DEF Claim
  <2>2. rows'[k].status = rows[k].status
    BY <1>1, <2>1 DEF ClaimForRefund, Row
  <2> QED BY <2>2
<1>8. ASSUME NEW a \in Clicks, Confirm(a) PROVE FALSE
  <2>1. click[a].row \in RowKeys
    BY <1>8 DEF RowKnown, Confirm, OnRow
  <2>2. rows' = [rows EXCEPT ![click[a].row] = MarkRefundedFromClaim(@)] \/ rows' = rows
    BY <1>8 DEF Confirm
  <2>3. rows'[k].status = "refunded"
    BY <1>1, <2>1, <2>2 DEF MarkRefundedFromClaim, Row
  <2> QED BY <2>3
<1>9. ASSUME NEW a \in Clicks, Revert(a) PROVE click[a].row = k
  <2>1. click[a].row \in RowKeys /\ rows' = [rows EXCEPT ![click[a].row] = RevertRefund(@)]
    BY <1>9 DEF RowKnown, Revert, OnRow
  <2> QED BY <1>1, <2>1
<1>10. ASSUME NEW a \in Clicks
       PROVE  ~(ClickMark(a) \/ ClickPay(a) \/ ClickUnmark(a) \/ ClickCrash(a))
  BY <1>2 DEF ClickMark, ClickPay, ClickUnmark, ClickCrash, table
<1>11. ~(Redeliver \/ RefusePlan \/ SkipDone \/ Sweep \/ Judge)
  BY <1>2 DEF Redeliver, RefusePlan, SkipDone, Sweep, Judge, table
<1>12. ~Close
  <2>1. dog.ref # NoRef => dog.ref.task \in Runs
    BY DEF TypeInv, TypeOK, Refs
  <2> QED BY <1>2, <1>5, <2>1 DEF Close
<1>13. ~UNCHANGED vars
  BY <1>2 DEF vars
<1> QED BY <1>6, <1>7, <1>8, <1>9, <1>10, <1>11, <1>12, <1>13 DEF Next, ClickStep

\* repository Upsert, upsertByChargeKey: with any overlap, crash, failing call
\* and watchdog, a refunded row is reopened by nothing but RevertRefund, which
\* an administrator's click calls when its payment failed.
THEOREM OnlyRevertReopens ==
  Spec => [][\A k \in RowKeys :
               rows[k].status = "refunded" /\ rows'[k].status # "refunded" =>
                 \E a \in Clicks : Revert(a) /\ click[a].row = k]_vars
<1>1. Init => RowKnown
  BY DEF Init, RowKnown
<1>2. TypeInv /\ RowKnown /\ [Next]_vars =>
        [\A k \in RowKeys :
           rows[k].status = "refunded" /\ rows'[k].status # "refunded" =>
             \E a \in Clicks : Revert(a) /\ click[a].row = k]_vars
  BY RefundedKept
<1> QED BY <1>1, <1>2, TypeInit, TypeStep, RowKnownStep, PTL DEF Spec

\* So a refunded row stays refunded for ever when nobody clicks.
THEOREM RefundedStaysRefunded ==
  ASSUME Clicks = {}
  PROVE  Spec => RefundedIsFinal
<1>1. Init => RowKnown
  BY DEF Init, RowKnown
<1>2. TypeInv /\ RowKnown /\ [Next]_vars =>
        [\A k \in RowKeys :
           rows[k].status = "refunded" => rows'[k].status = "refunded"]_vars
  BY RefundedKept
<1> QED BY <1>1, <1>2, TypeInit, TypeStep, RowKnownStep, PTL DEF Spec, RefundedIsFinal
-----------------------------------------------------------------------------
(***************************************************************************)
(* The money of a node in a calm world: one run at a time, no              *)
(* administrator, no watchdog, a reconciliation table and a marker that    *)
(* take every write, and no crash between a change of the credits and its  *)
(* record.  There every promise of billing/doc.go and billing/policy.go    *)
(* holds, for any number of runs, crashes elsewhere and failed payments.   *)
(***************************************************************************)

\* The labels after which the money or the reference has changed and the row
\* does not say so yet.
Unrecorded == {"recordCharge", "pay", "unmark", "recordRefund", "recordAbandon", "ended"}

Calm ==
  /\ ~Overlap /\ ~Watchdog /\ Clicks = {}
  /\ Faults \cap {"record", "mark"} = {}
  /\ CrashAt \cap Unrecorded = {}
-----------------------------------------------------------------------------
(* The inductive invariant *)

RowOf(c) == rows[ChargeRow(c)]
Open(c) == charged[c] /\ ~PaidBack(c)

\* Task t was submitted for charge c.
For(t, c) == upstream[t].charge = c /\ upstream[t].state # "none"
Done(t) == upstream[t].state = "done"
Rejected(t) == upstream[t].state = "rejected"

Early == {"idle", "load", "check", "charge"}
Underway(r) == Alive(r) /\ act[r].pc \notin Early

Serial ==
  \A q, r \in Runs : Alive(q) => msg = "taken" /\ (Alive(r) => r = q)

\* A run that has not charged yet left no trace; task and charge of a run are
\* named after it.
Fresh ==
  \A r \in Runs : act[r].pc \in Early =>
    /\ act[r] = [NoRun EXCEPT !.pc = act[r].pc]
    /\ ~charged[r] /\ ~Paid(r)

TaskAhead(r) ==
  \/ act[r].pc \in Early \cup {"recordCharge"}
  \/ act[r].pc = "create" /\ act[r].task = None
Unsubmitted == \A r \in Runs : TaskAhead(r) => upstream[r].state = "none"

\* A run charges only when nothing is open, and looks for an open charge only
\* when there is no task to resume.
Starting ==
  \A r \in Runs :
    /\ act[r].pc \in {"check", "charge"} => ref = NoRef
    /\ act[r].pc = "charge" => \A d \in Runs : ~Open(d)

\* Every charge has its row, and the row says no more than what happened.
RowIsTrue(c) ==
  /\ Exists(RowOf(c)) => charged[c] /\ \E i \in DOMAIN order : order[i] = ChargeRow(c)
  /\ RowOf(c).task # None => For(RowOf(c).task, c)
  /\ RowOf(c).refunded <=> RowOf(c).status = "refunded"
  /\ RowOf(c).status # "failed"
  /\ RowOf(c).status = "refunded" => PaidBack(c)
  /\ RowOf(c).status = "delivered" => c \in given
Books ==
  /\ \A t \in Runs : rows[TaskRow(t)] = NoRow
  /\ \A c \in Runs : RowIsTrue(c)

\* Only a run that is about to write it may still owe a row.
Booked ==
  \A c \in Runs :
    /\ charged[c] /\ ~Exists(RowOf(c)) => act[c].pc = "recordCharge"
    /\ PaidBack(c) =>
         \/ RowOf(c).status = "refunded"
         \/ \E r \in Runs : At(r, "recordRefund") /\ act[r].charge = c

\* A marked task was paid for, unless its payment is under way.
Marked ==
  \A t \in marker :
    /\ upstream[t].charge # None /\ upstream[t].state # "none"
    /\ \/ PaidBack(upstream[t].charge)
       \/ \E r \in Runs : act[r].pc \in {"pay", "unmark"} /\ act[r].task = t

Repaid ==
  /\ RefundOncePerCharge
  /\ \A p \in Runs :
       Paid(p) => act[p].pc \in Afterwards /\ charged[bill[p].charge]

\* The reference names a task of the one charge that can be open.
RefIsTrue ==
  ref # NoRef =>
    /\ ref.charge \in Runs /\ ref.key = ref.charge /\ charged[ref.charge]
    /\ For(ref.task, ref.charge)
    /\ PaidBack(ref.charge) => ref.task \in marker /\ Rejected(ref.task)
    /\ \A d \in Runs \ {ref.charge} : ~Open(d)

\* A delivered charge is not returned: if another run will come it resumes the
\* finished task.
Resumes(c) == ref # NoRef /\ ref.charge = c /\ Done(ref.task)
Delivered ==
  \A c \in given :
    /\ c \in Runs /\ charged[c] /\ ~PaidBack(c)
    /\ \/ msg = "gone"
       \/ msg = "queued" /\ Resumes(c)
       \/ \E r \in Runs : At(r, "load") /\ Resumes(c)
       \/ \E r \in Runs : Alive(r) /\ act[r].charge = c

(* What the run under way knows *)

IdentityAt(r) ==
  /\ act[r].key = act[r].charge
  /\ \/ act[r].charge \in Runs
     \/ /\ act[r].pc = "ended" /\ act[r].outcome = "retry"
        /\ act[r].charge = None /\ act[r].task = None
  /\ act[r].charge \in Runs => charged[act[r].charge]
  /\ act[r].own => act[r].charge = r /\ ~act[r].resumed
  /\ act[r].pc \in {"recordCharge", "askRefunded", "consume"} => act[r].own
  /\ act[r].pc \in {"saveRef", "hook"} => ~act[r].resumed
  /\ act[r].pc \in {"takeRef", "restore"} => act[r].resumed
  /\ act[r].pc \in {"mark", "pay", "unmark", "recordRefund"} => act[r].own \/ act[r].resumed
  /\ act[r].pc = "recordCharge" => act[r].task = None
  /\ act[r].pc = "create" => (act[r].resumed <=> act[r].task # None)

VideoLabels == {"download", "countFailure", "abandon", "recordAbandon", "history",
                "recordDelivered", "clearRef"}
RefundLabels == {"askRefunded", "mark", "pay", "unmark", "restore", "recordRefund"}

TaskAt(r) ==
  /\ act[r].task # None => For(act[r].task, act[r].charge)
  /\ act[r].why = "rejected" /\ act[r].task # None => Rejected(act[r].task)
  /\ act[r].pc = "poll" => act[r].task # None
  /\ act[r].pc \in {"recordCharge", "create"} => act[r].why = "none"
  /\ act[r].pc \in VideoLabels => act[r].task # None /\ Done(act[r].task)
  /\ act[r].pc \in RefundLabels => act[r].why = "rejected"

Matches(r) ==
  ref = [task |-> act[r].task, charge |-> act[r].charge, key |-> act[r].key,
         failures |-> act[r].failures]
Detached(r) ==
  \/ act[r].pc \in {"saveRef", "restore", "recordAbandon"}
  \/ act[r].resumed /\ act[r].pc \in RefundLabels

RefAt(r) ==
  /\ act[r].task = None \/ Detached(r) => ref = NoRef
  /\ act[r].task # None /\ ~Detached(r) /\ act[r].pc # "ended" => Matches(r)
  /\ act[r].pc = "ended" /\ act[r].outcome = "retry" /\ act[r].charge # None =>
       Matches(r) /\ Done(act[r].task)

MoneyAt(r) ==
  /\ PaidBack(act[r].charge) =>
       \/ act[r].pc \in Afterwards
       \/ act[r].resumed /\ act[r].task \in marker /\ Rejected(act[r].task)
  /\ act[r].pc \in {"pay", "unmark", "restore"} => ~PaidBack(act[r].charge)
  /\ act[r].pc = "pay" /\ act[r].task # None => act[r].task \in marker
  /\ act[r].pc = "recordRefund" => PaidBack(act[r].charge)
  /\ act[r].pc = "consume" /\ act[r].why = "rejected" => PaidBack(act[r].charge)
  /\ \A d \in Runs \ {act[r].charge} : ~Open(d)

GivenAt(r) ==
  /\ act[r].charge \in given =>
       /\ act[r].task # None /\ Done(act[r].task)
       /\ act[r].resumed \/ act[r].pc \in {"recordDelivered", "clearRef", "ended"}
  /\ act[r].pc \in {"recordDelivered", "clearRef"} => act[r].charge \in given
  /\ act[r].pc = "ended" /\ act[r].outcome = "ok" => act[r].charge \in given

Knows(r) == IdentityAt(r) /\ TaskAt(r) /\ RefAt(r) /\ MoneyAt(r) /\ GivenAt(r)
RunKnows == \A r \in Runs : Underway(r) => Knows(r)

Flow == Serial /\ Fresh /\ Unsubmitted /\ Starting
Ledger == Marked /\ Repaid /\ OneOutstandingCharge
CalmInv == Flow /\ Ledger /\ Books /\ Booked /\ RefIsTrue /\ Delivered /\ RunKnows
-----------------------------------------------------------------------------
(* What a step of one run leaves alone *)

Others(r) == \A q \in Runs \ {r} : act'[q] = act[q]
Kept(r) ==
  /\ act'[r].charge = act[r].charge /\ act'[r].key = act[r].key
  /\ act'[r].task = act[r].task /\ act'[r].own = act[r].own
  /\ act'[r].resumed = act[r].resumed /\ act'[r].why = act[r].why
  /\ act'[r].failures = act[r].failures

LEMMA Goes ==
  ASSUME TypeInv, NEW r \in Runs, NEW l, Goto(r, l)
  PROVE  act'[r].pc = l /\ act'[r].outcome = act[r].outcome /\ Kept(r) /\ Others(r)
BY DEF TypeInv, TypeOK, Goto, RunStates, Kept, Others

LEMMA Stops ==
  ASSUME TypeInv, NEW r \in Runs, NEW o, End(r, o)
  PROVE  act'[r].pc = "ended" /\ act'[r].outcome = o /\ Kept(r) /\ Others(r)
<1> DEFINE s == [act[r] EXCEPT !.pc = "ended", !.outcome = o]
<1>1. act' = [act EXCEPT ![r] = s]
  BY DEF End
<1>2. act'[r] = s /\ Others(r)
  BY <1>1 DEF TypeInv, TypeOK, Others
<1>3. act[r] \in RunStates
  BY RunFields DEF TypeInv
<1>4. /\ s.pc = "ended" /\ s.outcome = o /\ s.charge = act[r].charge /\ s.key = act[r].key
      /\ s.task = act[r].task /\ s.own = act[r].own /\ s.resumed = act[r].resumed
      /\ s.why = act[r].why /\ s.failures = act[r].failures
  BY <1>3 DEF RunStates
<1> HIDE DEF s
<1> QED BY <1>2, <1>4 DEF Kept

LEMMA SameBills ==
  ASSUME UNCHANGED bill
  PROVE  \A c : PaidBack(c)' <=> PaidBack(c)
BY DEF PaidBack

LEMMA SameMoney ==
  ASSUME UNCHANGED <<charged, bill>>
  PROVE  \A c : Open(c)' <=> Open(c)
BY SameBills DEF Open

LEMMA OnlyOne ==
  ASSUME Serial, NEW r \in Runs, Alive(r)
  PROVE  msg = "taken" /\ \A q \in Runs \ {r} : ~Alive(q)
BY DEF Serial

\* A run that has begun in earnest goes on.
LEMMA FlowGoesOn ==
  ASSUME Flow, NEW r \in Runs, Underway(r), Underway(r)', Others(r),
         UNCHANGED <<charged, msg>>,
         \A q \in Runs \ {r} : bill'[q] = bill[q],
         \A q \in Runs \ {r} : upstream[q].state = "none" => upstream'[q].state = "none",
         TaskAhead(r)' => upstream'[r].state = "none"
  PROVE  Flow'
<1>1. msg = "taken" /\ \A q \in Runs \ {r} : ~Alive(q)
  BY OnlyOne DEF Flow, Underway
<1>2. Serial'
  BY <1>1 DEF Serial, Others, Alive
<1>3. Fresh'
  BY DEF Flow, Fresh, Underway, Others, Paid
<1>4. Unsubmitted'
  BY DEF Flow, Unsubmitted, TaskAhead, Others
<1>5. Starting'
  BY <1>1 DEF Starting, Others, Alive, Underway, Early
<1> QED BY <1>2, <1>3, <1>4, <1>5 DEF Flow

LEMMA LedgerKept ==
  ASSUME Ledger, NEW r \in Runs, Others(r),
         UNCHANGED <<charged, bill, marker, upstream>>,
         act[r].pc \in Afterwards => act'[r].pc \in Afterwards,
         act[r].pc \in {"pay", "unmark"} =>
           act'[r].pc \in {"pay", "unmark"} /\ act'[r].task = act[r].task
  PROVE  Ledger'
<1>1. Marked'
  BY SameBills DEF Ledger, Marked, Others
<1>2. Repaid'
  BY DEF Ledger, Repaid, RefundOncePerCharge, Paid, Others
<1>3. OneOutstandingCharge'
  BY SameBills DEF Ledger, OneOutstandingCharge
<1> QED BY <1>1, <1>2, <1>3 DEF Ledger

LEMMA BooksKept ==
  ASSUME Books, Booked, NEW r \in Runs, Others(r),
         UNCHANGED <<rows, order, charged, bill, upstream>>, given \subseteq given',
         act[r].pc \notin {"recordCharge", "recordRefund"}
  PROVE  Books' /\ Booked'
<1>1. \A c : RowOf(c)' = RowOf(c) /\ (PaidBack(c)' <=> PaidBack(c))
  BY SameBills DEF RowOf
<1>2. Books'
  BY <1>1 DEF Books, RowIsTrue, For
<1>3. Booked'
  BY <1>1 DEF Booked, At, Others
<1> QED BY <1>2, <1>3

LEMMA RefKept ==
  ASSUME RefIsTrue, ref' \in {ref, NoRef}, UNCHANGED <<charged, bill, upstream>>,
         marker \subseteq marker'
  PROVE  RefIsTrue'
BY SameBills, SameMoney DEF RefIsTrue, For, Rejected

LEMMA DeliveredKept ==
  ASSUME Flow, Delivered, NEW r \in Runs, Underway(r), Underway(r)', Others(r),
         act'[r].charge = act[r].charge, UNCHANGED <<charged, bill, given, msg>>
  PROVE  Delivered'
<1>1. msg = "taken" /\ \A q \in Runs \ {r} : ~Alive(q)
  BY OnlyOne DEF Flow, Underway
<1> SUFFICES ASSUME NEW c \in given
             PROVE  (c \in Runs /\ charged[c] /\ ~PaidBack(c)
                     /\ \E q \in Runs : Alive(q) /\ act[q].charge = c)'
  BY DEF Delivered
<1>2. c \in Runs /\ charged[c] /\ ~PaidBack(c)
  BY DEF Delivered
<1>3. act[r].charge = c
  BY <1>1 DEF Delivered, At, Alive, Underway, Early
<1> QED BY <1>2, <1>3, SameBills DEF Underway

LEMMA OthersKnow ==
  ASSUME Flow, NEW r \in Runs, Alive(r), Others(r), Underway(r)' => Knows(r)'
  PROVE  RunKnows'
<1>1. \A q \in Runs \ {r} : ~Alive(q)'
  BY OnlyOne DEF Flow, Others, Alive
<1> QED BY <1>1 DEF RunKnows, Underway
-----------------------------------------------------------------------------
(* Writing the row of a charge *)

LEMMA KeysApart ==
  /\ \A c, t \in Runs : ChargeRow(c) # TaskRow(t)
  /\ \A c, d \in Runs : ChargeRow(c) = ChargeRow(d) => c = d
  /\ \A c \in Runs : ChargeRow(c) \in RowKeys /\ TaskRow(c) \in RowKeys
  /\ \A k \in RowKeys : \E c \in Runs : k = ChargeRow(c) \/ k = TaskRow(c)
BY DEF ChargeRow, TaskRow, RowKeys

\* In a calm world the write always lands on the row of its charge.
LEMMA RowWritten ==
  ASSUME TypeInv, Calm, Books, NEW c \in Runs, NEW t \in MaybeRun, t # None => For(t, c),
         NEW status, NEW refunded, RecordProviderTask(c, t, status, refunded)
  PROVE  Put(ChargeRow(c), [status |-> status, refunded |-> refunded, task |-> t])
<1>1. c # None
  BY VideoChargeAssumption DEF Payers
<1>2. Succeeds("record") = {TRUE}
  BY DEF Calm, Succeeds
<1>3. ASSUME NEW k \in RowKeys \ {ChargeRow(c)}, t # None
      PROVE  ~HoldsTask(k, t)
  <2>1. PICK d \in Runs : k = ChargeRow(d) \/ k = TaskRow(d)
    BY KeysApart
  <2>2. CASE k = TaskRow(d)
    BY <2>2 DEF HoldsTask, Exists, Books, NoRow
  <2>3. CASE k = ChargeRow(d)
    <3>1. d # c
      BY <1>3, <2>3
    <3> QED BY <1>3, <2>3, <3>1 DEF HoldsTask, Books, RowIsTrue, RowOf, For
  <2> QED BY <2>1, <2>2, <2>3
<1> QED BY <1>1, <1>2, <1>3 DEF RecordProviderTask, RecordCharge

LEMMA PutBooks ==
  ASSUME TypeInv, Books, NEW c \in Runs, charged[c], NEW new \in Row(Runs),
         Put(ChargeRow(c), new), UNCHANGED <<charged, bill, given, upstream>>,
         new.task # None => For(new.task, c),
         new.status \notin {"absent", "failed"},
         new.refunded <=> new.status = "refunded",
         new.status = "refunded" => PaidBack(c),
         new.status = "delivered" => c \in given
  PROVE  /\ Books'
         /\ RowOf(c)' = Upserted(RowOf(c), new) /\ Exists(RowOf(c)')
         /\ \A d \in Runs \ {c} : RowOf(d)' = RowOf(d)
<1> DEFINE row == RowOf(c)
<1>1. /\ rows' = [rows EXCEPT ![ChargeRow(c)] = Upserted(row, new)]
      /\ order' = IF Exists(row) THEN order ELSE Append(order, ChargeRow(c))
  BY DEF Put, RowOf
<1>2. row \in Row(Runs) /\ rows \in [RowKeys -> Row(Runs)] /\ order \in Seq(RowKeys)
  BY KeysApart DEF TypeInv, TypeOK, RowOf
<1>3. RowOf(c)' = Upserted(row, new)
  BY <1>1, <1>2, KeysApart DEF RowOf
<1>4. \A d \in Runs \ {c} : RowOf(d)' = RowOf(d)
  BY <1>1, <1>2, KeysApart DEF RowOf
<1>5. \A t \in Runs : rows'[TaskRow(t)] = NoRow
  BY <1>1, <1>2, KeysApart DEF Books
<1>6. \A k : (\E i \in DOMAIN order : order[i] = k) => \E i \in DOMAIN order' : order'[i] = k
  BY <1>1, <1>2
<1>7. \E i \in DOMAIN order' : order'[i] = ChargeRow(c)
  <2>1. CASE Exists(row)
    BY <1>6, <2>1 DEF Books, RowIsTrue
  <2>2. CASE ~Exists(row)
    <3>1. order' = Append(order, ChargeRow(c)) /\ ChargeRow(c) \in RowKeys
      BY <1>1, <2>2, KeysApart
    <3>2. Len(order) + 1 \in DOMAIN order' /\ order'[Len(order) + 1] = ChargeRow(c)
      BY <1>2, <3>1
    <3> QED BY <3>2
  <2> QED BY <2>1, <2>2
<1>8. RowIsTrue(c)'
  <2>1. RowIsTrue(c)
    BY DEF Books
  <2>2. Exists(RowOf(c)') => charged'[c] /\ \E i \in DOMAIN order' : order'[i] = ChargeRow(c)
    BY <1>7
  <2>3. /\ RowOf(c)'.task # None => For(RowOf(c)'.task, c)
        /\ RowOf(c)'.refunded <=> RowOf(c)'.status = "refunded"
        /\ RowOf(c)'.status # "failed"
        /\ RowOf(c)'.status = "refunded" => PaidBack(c)
        /\ RowOf(c)'.status = "delivered" => c \in given
    BY <1>2, <1>3, <2>1 DEF RowIsTrue, Upserted, Merged, Row, Writable, Exists
  <2> QED BY <2>2, <2>3, SameBills DEF RowIsTrue, For
<1>9. \A d \in Runs \ {c} : RowIsTrue(d)'
  BY <1>4, <1>6, SameBills DEF Books, RowIsTrue, For
<1>10. Exists(RowOf(c)')
  BY <1>2, <1>3 DEF Upserted, Merged, Exists, Row
<1> QED BY <1>3, <1>4, <1>5, <1>8, <1>9, <1>10 DEF Books

LEMMA PutBooked ==
  ASSUME Flow, Booked, NEW r \in Runs, Underway(r), Others(r), NEW c \in Runs,
         act[r].charge = c, NEW new \in Row(Runs), UNCHANGED <<charged, bill>>,
         RowOf(c) \in Row(Runs), RowOf(c)' = Upserted(RowOf(c), new), Exists(RowOf(c)'),
         \A d \in Runs \ {c} : RowOf(d)' = RowOf(d),
         act[r].pc = "recordCharge" => c = r,
         act[r].pc = "recordRefund" => new.status = "refunded"
  PROVE  Booked'
<1>1. \A q \in Runs \ {r} : ~Alive(q)
  BY OnlyOne DEF Flow, Underway
<1>2. \A q \in Runs : At(q, "recordRefund") => q = r
  BY <1>1 DEF At, Alive
<1>3. ASSUME NEW d \in Runs \ {c}
      PROVE  /\ charged'[d] /\ ~Exists(RowOf(d)') => act'[d].pc = "recordCharge"
             /\ PaidBack(d)' => RowOf(d)'.status = "refunded"
  BY <1>2, SameBills DEF Booked, Others
<1>4. PaidBack(c)' => RowOf(c)'.status = "refunded"
  <2>1. PaidBack(c)' => RowOf(c).status = "refunded" \/ new.status = "refunded"
    BY <1>2, SameBills DEF Booked, At
  <2>2. RowOf(c).status = "refunded" \/ new.status = "refunded" =>
          Upserted(RowOf(c), new).status = "refunded"
    BY DEF Upserted, Merged, Writable, Exists, Row
  <2> QED BY <2>1, <2>2
<1> QED BY <1>3, <1>4 DEF Booked

\* The run under way writes the row of its charge.
LEMMA TableStep ==
  ASSUME TypeInv, Calm, Flow, Books, Booked, NEW r \in Runs, Underway(r), Knows(r), Others(r),
         act[r].pc # "ended", NEW status \in Statuses \ {"failed"}, NEW refunded \in BOOLEAN,
         RecordProviderTask(act[r].key, act[r].task, status, refunded),
         UNCHANGED <<charged, bill, given, upstream>>,
         refunded <=> status = "refunded",
         status = "refunded" => PaidBack(act[r].charge),
         status = "delivered" => act[r].charge \in given,
         act[r].pc = "recordRefund" => status = "refunded"
  PROVE  /\ Books' /\ Booked'
         /\ \A c \in Runs : c = act[r].charge =>
              RowOf(c)' = Upserted(RowOf(c), [status |-> status, refunded |-> refunded,
                                              task |-> act[r].task])
<1>1. PICK c \in Runs : c = act[r].charge
  BY DEF Knows, IdentityAt
<1>2. PICK t \in MaybeRun : t = act[r].task
  BY RunFields DEF TypeInv
<1> DEFINE new == [status |-> status, refunded |-> refunded, task |-> t]
<1>3. /\ act[r].key = c /\ charged[c]
      /\ t # None => For(t, c)
      /\ act[r].pc = "recordCharge" => c = r
  BY <1>1, <1>2, VideoChargeAssumption DEF Knows, IdentityAt, TaskAt, Payers
<1>4. Put(ChargeRow(c), new)
  BY <1>2, <1>3, RowWritten
<1>5. new \in Row(Runs) /\ RowOf(c) \in Row(Runs)
  BY KeysApart DEF Row, MaybeRun, TypeInv, TypeOK, RowOf
<1>6. new.task = t /\ new.status = status /\ new.refunded = refunded
  OBVIOUS
<1>7. status \notin {"absent", "failed"}
  BY DEF Statuses
<1> HIDE DEF new
<1>8. /\ Books' /\ RowOf(c)' = Upserted(RowOf(c), new) /\ Exists(RowOf(c)')
      /\ \A d \in Runs \ {c} : RowOf(d)' = RowOf(d)
  BY <1>1, <1>3, <1>4, <1>5, <1>6, <1>7, PutBooks
<1>9. Booked'
  BY <1>1, <1>3, <1>5, <1>6, <1>8, PutBooked
<1> QED BY <1>1, <1>2, <1>8, <1>9 DEF new

LEMMA WriteStep ==
  ASSUME TypeInv, Calm, CalmInv, NEW r \in Runs, Underway(r), Others(r),
         act[r].pc \notin {"recordRefund", "ended"},
         NEW status \in {"submitted", "delivered", "pending_review"},
         RecordProviderTask(act[r].key, act[r].task, status, FALSE),
         UNCHANGED <<charged, bill, given, upstream>>,
         status = "delivered" => act[r].charge \in given
  PROVE  Books' /\ Booked'
<1>1. Knows(r) /\ Flow /\ Books /\ Booked
  BY DEF CalmInv, RunKnows
<1>2. status \in Statuses \ {"failed"} /\ status # "refunded"
  BY DEF Statuses
<1> QED BY <1>1, <1>2, TableStep
-----------------------------------------------------------------------------
(* The steps of a run that has charged or found a charge *)

LEMMA Knowing ==
  ASSUME CalmInv, NEW r \in Runs, Underway(r)
  PROVE  Knows(r) /\ Alive(r) /\ Flow /\ Ledger /\ Books /\ Booked /\ RefIsTrue /\ Delivered
BY DEF CalmInv, RunKnows, Underway

\* Everything but the tables and the reference stays as it is.
LEMMA Unmoved ==
  ASSUME CalmInv, NEW r \in Runs, Underway(r), Underway(r)', Others(r),
         act'[r].charge = act[r].charge, act'[r].task = act[r].task,
         UNCHANGED <<charged, bill, marker, upstream, given, msg>>,
         act[r].pc \in Afterwards => act'[r].pc \in Afterwards,
         act[r].pc \in {"pay", "unmark"} => act'[r].pc \in {"pay", "unmark"},
         TaskAhead(r)' => TaskAhead(r),
         Knows(r)'
  PROVE  Flow' /\ Ledger' /\ Delivered' /\ RunKnows'
<1>1. Knows(r) /\ Alive(r) /\ Flow /\ Ledger /\ Delivered
  BY Knowing
<1>2. TaskAhead(r)' => upstream'[r].state = "none"
  BY <1>1 DEF Flow, Unsubmitted
<1>3. Flow'
  BY <1>1, <1>2, FlowGoesOn
<1>4. Ledger' /\ Delivered' /\ RunKnows'
  BY <1>1, LedgerKept, DeliveredKept, OthersKnow
<1> QED BY <1>3, <1>4

LEMMA CalmRecordLocalCharge ==
  ASSUME TypeInv, Calm, CalmInv, NEW r \in Runs, RecordLocalCharge(r)
  PROVE  CalmInv'
<1>1. /\ act[r].pc = "recordCharge" /\ act'[r].pc = "create" /\ Kept(r) /\ Others(r)
      /\ UNCHANGED <<charged, bill, ref, marker, upstream, given, msg>>
  BY Goes DEF RecordLocalCharge, At, money, redis, world, sched
<1>2. Underway(r) /\ Underway(r)'
  BY <1>1 DEF Underway, Alive, Early
<1>3. Knows(r) /\ Flow /\ Books /\ Booked
  BY <1>2, Knowing
<1>4. act[r].charge = r /\ act[r].key = r /\ act[r].task = None /\ r # None /\ ~act[r].resumed
  BY <1>1, <1>3, VideoChargeAssumption DEF Knows, IdentityAt, Payers
<1>5. RecordProviderTask(act[r].key, act[r].task, "submitted", FALSE)
  BY <1>4 DEF RecordLocalCharge, RecordProviderTask
<1>6. Books' /\ Booked'
  BY <1>1, <1>2, <1>5, WriteStep
<1>7. Knows(r)'
  <2>1. IdentityAt(r)'
    BY <1>1, <1>3, <1>4 DEF Knows, IdentityAt, Kept
  <2>2. TaskAt(r)'
    BY <1>1, <1>3, <1>4 DEF Knows, TaskAt, Kept, VideoLabels, RefundLabels, Rejected
  <2>3. RefAt(r)'
    BY <1>1, <1>3, <1>4 DEF Knows, RefAt, Kept, Detached, RefundLabels
  <2>4. MoneyAt(r)'
    BY <1>1, <1>3, <1>4 DEF Knows, MoneyAt, Kept, Afterwards, PaidBack, Open
  <2>5. GivenAt(r)'
    BY <1>1, <1>3, <1>4 DEF Knows, GivenAt, Kept
  <2> QED BY <2>1, <2>2, <2>3, <2>4, <2>5 DEF Knows
<1>8. TaskAhead(r)
  BY <1>1 DEF TaskAhead
<1>9. RefIsTrue'
  BY <1>1, <1>2, Knowing, RefKept
<1> QED BY <1>1, <1>2, <1>6, <1>7, <1>8, <1>9, Unmoved DEF CalmInv, Kept, Afterwards

LEMMA CalmSubmittedHook ==
  ASSUME TypeInv, Calm, CalmInv, NEW r \in Runs, SubmittedHook(r)
  PROVE  CalmInv'
<1>1. /\ act[r].pc = "hook"
      /\ act'[r].pc = "poll"
      /\ Kept(r) /\ Others(r)
      /\ UNCHANGED <<charged, bill, ref, marker, upstream, given, msg>>
  BY Goes, Stops DEF SubmittedHook, At, money, redis, world, sched
<1>2. Underway(r) /\ Underway(r)'
  BY <1>1 DEF Underway, Alive, Early
<1>3. Knows(r)
  BY <1>2, Knowing
<1>4. act[r].task # None
  BY <1>1, VideoChargeAssumption DEF TypeInv, TaskKnown, FollowLabels, Payers
<1>5. Books' /\ Booked'
  <2>1. RecordProviderTask(act[r].key, act[r].task, "submitted", FALSE)
    BY DEF SubmittedHook
  <2> QED BY <1>1, <1>2, <1>3, <2>1, WriteStep DEF Knows, GivenAt
<1>6. RefIsTrue'
  BY <1>1, <1>2, Knowing, RefKept
<1>7. Knows(r)'
  <2>1. IdentityAt(r)'
    BY <1>1, <1>3, <1>4 DEF Knows, IdentityAt, Kept
  <2>2. TaskAt(r)'
    BY <1>1, <1>3, <1>4 DEF Knows, IdentityAt, TaskAt, Kept, VideoLabels, RefundLabels,
          For, Done, Rejected
  <2>3. RefAt(r)'
    BY <1>1, <1>3, <1>4 DEF Knows, IdentityAt, TaskAt, RefAt, Kept, Detached, Matches,
          RefundLabels, VideoLabels, NoRef, Done
  <2>4. MoneyAt(r)'
    BY <1>1, <1>3, <1>4 DEF Knows, IdentityAt, TaskAt, MoneyAt, Kept, Afterwards,
          RefundLabels, VideoLabels, PaidBack, Open, Done, Rejected
  <2>5. GivenAt(r)'
    BY <1>1, <1>3, <1>4 DEF Knows, IdentityAt, TaskAt, GivenAt, Kept, RefundLabels,
          VideoLabels, Done, Rejected
  <2> QED BY <2>1, <2>2, <2>3, <2>4, <2>5 DEF Knows
<1>8. ~TaskAhead(r)'
  BY <1>1 DEF TaskAhead, Early
<1> QED BY <1>1, <1>2, <1>5, <1>6, <1>7, <1>8, Unmoved DEF CalmInv, Kept, Afterwards

LEMMA CalmDownload ==
  ASSUME TypeInv, Calm, CalmInv, NEW r \in Runs, Download(r)
  PROVE  CalmInv'
<1>1. /\ act[r].pc = "download"
      /\ act'[r].pc \in {"history", "countFailure"}
      /\ Kept(r) /\ Others(r)
      /\ UNCHANGED <<charged, bill, ref, marker, upstream, given, msg, rows, order>>
  BY Goes, Stops DEF Download, money, table, redis, world, sched, At
<1>2. Underway(r) /\ Underway(r)'
  BY <1>1 DEF Underway, Alive, Early
<1>3. Knows(r)
  BY <1>2, Knowing
<1>4. Books' /\ Booked'
  BY <1>1, <1>2, Knowing, BooksKept
<1>5. RefIsTrue'
  BY <1>1, <1>2, Knowing, RefKept
<1>6. Knows(r)'
  <2>1. IdentityAt(r)'
    BY <1>1, <1>3 DEF Knows, IdentityAt, Kept
  <2>2. TaskAt(r)'
    BY <1>1, <1>3 DEF Knows, IdentityAt, TaskAt, Kept, VideoLabels, RefundLabels, For,
          Done, Rejected
  <2>3. RefAt(r)'
    BY <1>1, <1>3 DEF Knows, IdentityAt, TaskAt, RefAt, Kept, Detached, Matches,
          RefundLabels, VideoLabels, NoRef, Done
  <2>4. MoneyAt(r)'
    BY <1>1, <1>3 DEF Knows, IdentityAt, TaskAt, MoneyAt, Kept, Afterwards,
          RefundLabels, VideoLabels, PaidBack, Open, Done, Rejected
  <2>5. GivenAt(r)'
    BY <1>1, <1>3 DEF Knows, IdentityAt, TaskAt, GivenAt, Kept, RefundLabels,
          VideoLabels, Done, Rejected
  <2> QED BY <2>1, <2>2, <2>3, <2>4, <2>5 DEF Knows
<1>7. ~TaskAhead(r)'
  BY <1>1 DEF TaskAhead, Early
<1> QED BY <1>1, <1>2, <1>4, <1>5, <1>6, <1>7, Unmoved DEF CalmInv, Kept, Afterwards

LEMMA CalmAskRefunded ==
  ASSUME TypeInv, Calm, CalmInv, NEW r \in Runs, AskRefunded(r)
  PROVE  CalmInv'
<1>1. /\ act[r].pc = "askRefunded"
      /\ \/ act'[r].pc = "mark"
         \/ act'[r].pc = "ended" /\ act'[r].outcome = "noretry"
      /\ Kept(r) /\ Others(r)
      /\ UNCHANGED <<charged, bill, ref, marker, upstream, given, msg, rows, order>>
  BY Goes, Stops DEF AskRefunded, money, table, redis, world, sched, At
<1>2. Underway(r) /\ Underway(r)'
  BY <1>1 DEF Underway, Alive, Early
<1>3. Knows(r)
  BY <1>2, Knowing
<1>4. Books' /\ Booked'
  BY <1>1, <1>2, Knowing, BooksKept
<1>5. RefIsTrue'
  BY <1>1, <1>2, Knowing, RefKept
<1>6. Knows(r)'
  <2>1. IdentityAt(r)'
    BY <1>1, <1>3 DEF Knows, IdentityAt, Kept
  <2>2. TaskAt(r)'
    BY <1>1, <1>3 DEF Knows, IdentityAt, TaskAt, Kept, VideoLabels, RefundLabels, For,
          Done, Rejected
  <2>3. RefAt(r)'
    BY <1>1, <1>3 DEF Knows, IdentityAt, TaskAt, RefAt, Kept, Detached, Matches,
          RefundLabels, VideoLabels, NoRef, Done
  <2>4. MoneyAt(r)'
    BY <1>1, <1>3 DEF Knows, IdentityAt, TaskAt, MoneyAt, Kept, Afterwards,
          RefundLabels, VideoLabels, PaidBack, Open, Done, Rejected
  <2>5. GivenAt(r)'
    BY <1>1, <1>3 DEF Knows, IdentityAt, TaskAt, GivenAt, Kept, RefundLabels,
          VideoLabels, Done, Rejected
  <2> QED BY <2>1, <2>2, <2>3, <2>4, <2>5 DEF Knows
<1>7. ~TaskAhead(r)'
  BY <1>1 DEF TaskAhead, Early
<1> QED BY <1>1, <1>2, <1>4, <1>5, <1>6, <1>7, Unmoved DEF CalmInv, Kept, Afterwards

LEMMA CalmConsume ==
  ASSUME TypeInv, Calm, CalmInv, NEW r \in Runs, Consume(r)
  PROVE  CalmInv'
<1>1. /\ act[r].pc = "consume"
      /\ act'[r].pc = "ended" /\ act'[r].outcome = "noretry"
      /\ Kept(r) /\ Others(r)
      /\ UNCHANGED <<charged, bill, marker, upstream, given, msg, rows, order>>
      /\ ref' = NoRef
  BY Goes, Stops DEF Consume, DeleteRef, money, table, redis, world, sched, At
<1>2. Underway(r) /\ Underway(r)'
  BY <1>1 DEF Underway, Alive, Early
<1>3. Knows(r)
  BY <1>2, Knowing
<1>4. Books' /\ Booked'
  BY <1>1, <1>2, Knowing, BooksKept
<1>5. RefIsTrue'
  BY <1>1, <1>2, Knowing, RefKept
<1>6. Knows(r)'
  <2>1. IdentityAt(r)'
    BY <1>1, <1>3 DEF Knows, IdentityAt, Kept
  <2>2. TaskAt(r)'
    BY <1>1, <1>3 DEF Knows, IdentityAt, TaskAt, Kept, VideoLabels, RefundLabels, For,
          Done, Rejected
  <2>3. RefAt(r)'
    BY <1>1, <1>3 DEF Knows, IdentityAt, TaskAt, RefAt, Kept, Detached, Matches,
          RefundLabels, VideoLabels, NoRef, Done
  <2>4. MoneyAt(r)'
    BY <1>1, <1>3 DEF Knows, IdentityAt, TaskAt, MoneyAt, Kept, Afterwards,
          RefundLabels, VideoLabels, PaidBack, Open, Done, Rejected
  <2>5. GivenAt(r)'
    BY <1>1, <1>3 DEF Knows, IdentityAt, TaskAt, GivenAt, Kept, RefundLabels,
          VideoLabels, Done, Rejected
  <2> QED BY <2>1, <2>2, <2>3, <2>4, <2>5 DEF Knows
<1>7. ~TaskAhead(r)'
  BY <1>1 DEF TaskAhead, Early
<1> QED BY <1>1, <1>2, <1>4, <1>5, <1>6, <1>7, Unmoved DEF CalmInv, Kept, Afterwards

LEMMA CalmAbandon ==
  ASSUME TypeInv, Calm, CalmInv, NEW r \in Runs, Abandon(r)
  PROVE  CalmInv'
<1>1. /\ act[r].pc = "abandon"
      /\ act'[r].pc = "recordAbandon"
      /\ Kept(r) /\ Others(r)
      /\ UNCHANGED <<charged, bill, marker, upstream, given, msg, rows, order>>
      /\ ref' = NoRef
  BY Goes, Stops DEF Abandon, DeleteRef, money, table, redis, world, sched, At
<1>2. Underway(r) /\ Underway(r)'
  BY <1>1 DEF Underway, Alive, Early
<1>3. Knows(r)
  BY <1>2, Knowing
<1>4. Books' /\ Booked'
  BY <1>1, <1>2, Knowing, BooksKept
<1>5. RefIsTrue'
  BY <1>1, <1>2, Knowing, RefKept
<1>6. Knows(r)'
  <2>1. IdentityAt(r)'
    BY <1>1, <1>3 DEF Knows, IdentityAt, Kept
  <2>2. TaskAt(r)'
    BY <1>1, <1>3 DEF Knows, IdentityAt, TaskAt, Kept, VideoLabels, RefundLabels, For,
          Done, Rejected
  <2>3. RefAt(r)'
    BY <1>1, <1>3 DEF Knows, IdentityAt, TaskAt, RefAt, Kept, Detached, Matches,
          RefundLabels, VideoLabels, NoRef, Done
  <2>4. MoneyAt(r)'
    BY <1>1, <1>3 DEF Knows, IdentityAt, TaskAt, MoneyAt, Kept, Afterwards,
          RefundLabels, VideoLabels, PaidBack, Open, Done, Rejected
  <2>5. GivenAt(r)'
    BY <1>1, <1>3 DEF Knows, IdentityAt, TaskAt, GivenAt, Kept, RefundLabels,
          VideoLabels, Done, Rejected
  <2> QED BY <2>1, <2>2, <2>3, <2>4, <2>5 DEF Knows
<1>7. ~TaskAhead(r)'
  BY <1>1 DEF TaskAhead, Early
<1> QED BY <1>1, <1>2, <1>4, <1>5, <1>6, <1>7, Unmoved DEF CalmInv, Kept, Afterwards

LEMMA CalmRecordAbandon ==
  ASSUME TypeInv, Calm, CalmInv, NEW r \in Runs, RecordAbandon(r)
  PROVE  CalmInv'
<1>1. /\ act[r].pc = "recordAbandon"
      /\ act'[r].pc = "ended" /\ act'[r].outcome = "noretry"
      /\ Kept(r) /\ Others(r)
      /\ UNCHANGED <<charged, bill, ref, marker, upstream, given, msg>>
  BY Goes, Stops DEF RecordAbandon, money, table, redis, world, sched, At
<1>2. Underway(r) /\ Underway(r)'
  BY <1>1 DEF Underway, Alive, Early
<1>3. Knows(r)
  BY <1>2, Knowing
<1>4. Books' /\ Booked'
  <2>1. RecordProviderTask(act[r].key, act[r].task, "pending_review", FALSE)
    BY DEF RecordAbandon
  <2> QED BY <1>1, <1>2, <1>3, <2>1, WriteStep DEF Knows, GivenAt
<1>5. RefIsTrue'
  BY <1>1, <1>2, Knowing, RefKept
<1>6. Knows(r)'
  <2>1. IdentityAt(r)'
    BY <1>1, <1>3 DEF Knows, IdentityAt, Kept
  <2>2. TaskAt(r)'
    BY <1>1, <1>3 DEF Knows, IdentityAt, TaskAt, Kept, VideoLabels, RefundLabels, For,
          Done, Rejected
  <2>3. RefAt(r)'
    BY <1>1, <1>3 DEF Knows, IdentityAt, TaskAt, RefAt, Kept, Detached, Matches,
          RefundLabels, VideoLabels, NoRef, Done
  <2>4. MoneyAt(r)'
    BY <1>1, <1>3 DEF Knows, IdentityAt, TaskAt, MoneyAt, Kept, Afterwards,
          RefundLabels, VideoLabels, PaidBack, Open, Done, Rejected
  <2>5. GivenAt(r)'
    BY <1>1, <1>3 DEF Knows, IdentityAt, TaskAt, GivenAt, Kept, RefundLabels,
          VideoLabels, Done, Rejected
  <2> QED BY <2>1, <2>2, <2>3, <2>4, <2>5 DEF Knows
<1>7. ~TaskAhead(r)'
  BY <1>1 DEF TaskAhead, Early
<1> QED BY <1>1, <1>2, <1>4, <1>5, <1>6, <1>7, Unmoved DEF CalmInv, Kept, Afterwards

LEMMA CalmRecordDelivered ==
  ASSUME TypeInv, Calm, CalmInv, NEW r \in Runs, RecordDelivered(r)
  PROVE  CalmInv'
<1>1. /\ act[r].pc = "recordDelivered"
      /\ act'[r].pc = "clearRef"
      /\ Kept(r) /\ Others(r)
      /\ UNCHANGED <<charged, bill, ref, marker, upstream, given, msg>>
  BY Goes, Stops DEF RecordDelivered, money, table, redis, world, sched, At
<1>2. Underway(r) /\ Underway(r)'
  BY <1>1 DEF Underway, Alive, Early
<1>3. Knows(r)
  BY <1>2, Knowing
<1>4. Books' /\ Booked'
  <2>1. RecordProviderTask(act[r].key, act[r].task, "delivered", FALSE)
    BY DEF RecordDelivered
  <2> QED BY <1>1, <1>2, <1>3, <2>1, WriteStep DEF Knows, GivenAt
<1>5. RefIsTrue'
  BY <1>1, <1>2, Knowing, RefKept
<1>6. Knows(r)'
  <2>1. IdentityAt(r)'
    BY <1>1, <1>3 DEF Knows, IdentityAt, Kept
  <2>2. TaskAt(r)'
    BY <1>1, <1>3 DEF Knows, IdentityAt, TaskAt, Kept, VideoLabels, RefundLabels, For,
          Done, Rejected
  <2>3. RefAt(r)'
    BY <1>1, <1>3 DEF Knows, IdentityAt, TaskAt, RefAt, Kept, Detached, Matches,
          RefundLabels, VideoLabels, NoRef, Done
  <2>4. MoneyAt(r)'
    BY <1>1, <1>3 DEF Knows, IdentityAt, TaskAt, MoneyAt, Kept, Afterwards,
          RefundLabels, VideoLabels, PaidBack, Open, Done, Rejected
  <2>5. GivenAt(r)'
    BY <1>1, <1>3 DEF Knows, IdentityAt, TaskAt, GivenAt, Kept, RefundLabels,
          VideoLabels, Done, Rejected
  <2> QED BY <2>1, <2>2, <2>3, <2>4, <2>5 DEF Knows
<1>7. ~TaskAhead(r)'
  BY <1>1 DEF TaskAhead, Early
<1> QED BY <1>1, <1>2, <1>4, <1>5, <1>6, <1>7, Unmoved DEF CalmInv, Kept, Afterwards

LEMMA CalmClearRef ==
  ASSUME TypeInv, Calm, CalmInv, NEW r \in Runs, ClearRef(r)
  PROVE  CalmInv'
<1>1. /\ act[r].pc = "clearRef"
      /\ act'[r].pc = "ended" /\ act'[r].outcome = "ok"
      /\ Kept(r) /\ Others(r)
      /\ UNCHANGED <<charged, bill, marker, upstream, given, msg, rows, order>>
      /\ ref' = NoRef
  BY Goes, Stops DEF ClearRef, DeleteRef, money, table, redis, world, sched, At
<1>2. Underway(r) /\ Underway(r)'
  BY <1>1 DEF Underway, Alive, Early
<1>3. Knows(r)
  BY <1>2, Knowing
<1>4. Books' /\ Booked'
  BY <1>1, <1>2, Knowing, BooksKept
<1>5. RefIsTrue'
  BY <1>1, <1>2, Knowing, RefKept
<1>6. Knows(r)'
  <2>1. IdentityAt(r)'
    BY <1>1, <1>3 DEF Knows, IdentityAt, Kept
  <2>2. TaskAt(r)'
    BY <1>1, <1>3 DEF Knows, IdentityAt, TaskAt, Kept, VideoLabels, RefundLabels, For,
          Done, Rejected
  <2>3. RefAt(r)'
    BY <1>1, <1>3 DEF Knows, IdentityAt, TaskAt, RefAt, Kept, Detached, Matches,
          RefundLabels, VideoLabels, NoRef, Done
  <2>4. MoneyAt(r)'
    BY <1>1, <1>3 DEF Knows, IdentityAt, TaskAt, MoneyAt, Kept, Afterwards,
          RefundLabels, VideoLabels, PaidBack, Open, Done, Rejected
  <2>5. GivenAt(r)'
    BY <1>1, <1>3 DEF Knows, IdentityAt, TaskAt, GivenAt, Kept, RefundLabels,
          VideoLabels, Done, Rejected
  <2> QED BY <2>1, <2>2, <2>3, <2>4, <2>5 DEF Knows
<1>7. ~TaskAhead(r)'
  BY <1>1 DEF TaskAhead, Early
<1> QED BY <1>1, <1>2, <1>4, <1>5, <1>6, <1>7, Unmoved DEF CalmInv, Kept, Afterwards

LEMMA CalmRecordFailure ==
  ASSUME TypeInv, Calm, CalmInv, NEW r \in Runs, RecordFailure(r)
  PROVE  CalmInv'
<1>1. /\ act[r].pc = "recordFailure"
      /\ \/ act[r].resumed /\ act'[r].pc = "takeRef"
         \/ ~act[r].resumed /\ ~act[r].own /\ act'[r].pc = "ended" /\ act'[r].outcome = "noretry"
         \/ act[r].own /\ act[r].why = "rejected" /\ act'[r].pc = "askRefunded"
         \/ act[r].own /\ act[r].why # "rejected" /\ act'[r].pc = "consume"
      /\ Kept(r) /\ Others(r)
      /\ UNCHANGED <<charged, bill, ref, marker, upstream, given, msg>>
  BY Goes, Stops DEF RecordFailure, money, table, redis, world, sched, At
<1>2. Underway(r) /\ Underway(r)'
  BY <1>1 DEF Underway, Alive, Early
<1>3. Knows(r)
  BY <1>2, Knowing
<1>4. Books' /\ Booked'
  <2>1. RecordProviderTask(act[r].key, act[r].task, "pending_review", FALSE)
    BY DEF RecordFailure
  <2> QED BY <1>1, <1>2, <1>3, <2>1, WriteStep DEF Knows, GivenAt
<1>5. RefIsTrue'
  BY <1>1, <1>2, Knowing, RefKept
<1>6. Knows(r)'
  <2>1. IdentityAt(r)'
    BY <1>1, <1>3 DEF Knows, IdentityAt, Kept
  <2>2. TaskAt(r)'
    BY <1>1, <1>3 DEF Knows, IdentityAt, TaskAt, Kept, VideoLabels, RefundLabels, For,
          Done, Rejected
  <2>3. RefAt(r)'
    BY <1>1, <1>3 DEF Knows, IdentityAt, TaskAt, RefAt, Kept, Detached, Matches,
          RefundLabels, VideoLabels, NoRef, Done
  <2>4. MoneyAt(r)'
    BY <1>1, <1>3 DEF Knows, IdentityAt, TaskAt, MoneyAt, Kept, Afterwards,
          RefundLabels, VideoLabels, PaidBack, Open, Done, Rejected
  <2>5. GivenAt(r)'
    BY <1>1, <1>3 DEF Knows, IdentityAt, TaskAt, GivenAt, Kept, RefundLabels,
          VideoLabels, Done, Rejected
  <2> QED BY <2>1, <2>2, <2>3, <2>4, <2>5 DEF Knows
<1>7. ~TaskAhead(r)'
  BY <1>1 DEF TaskAhead, Early
<1> QED BY <1>1, <1>2, <1>4, <1>5, <1>6, <1>7, Unmoved DEF CalmInv, Kept, Afterwards

LEMMA CalmSaveTaskRef ==
  ASSUME TypeInv, Calm, CalmInv, NEW r \in Runs, SaveTaskRef(r)
  PROVE  CalmInv'
<1>1. /\ act[r].pc = "saveRef"
      /\ act'[r].pc = "hook"
      /\ Kept(r) /\ Others(r)
      /\ UNCHANGED <<charged, bill, marker, upstream, given, msg, rows, order>>
      /\ ref' = [task |-> act[r].task, charge |-> act[r].charge,
                 key |-> act[r].key, failures |-> act[r].failures]
  BY Goes, Stops DEF SaveTaskRef, SaveRef, money, table, redis, world, sched, At
<1>2. Underway(r) /\ Underway(r)'
  BY <1>1 DEF Underway, Alive, Early
<1>3. Knows(r)
  BY <1>2, Knowing
<1>4. act[r].task # None
  BY <1>1, VideoChargeAssumption DEF TypeInv, TaskKnown, FollowLabels, Payers
<1>5. Books' /\ Booked'
  BY <1>1, <1>2, Knowing, BooksKept
<1>6. RefIsTrue'
  <2>1. ~PaidBack(act[r].charge) /\ act[r].charge \in Runs
    BY <1>1, <1>3 DEF Knows, IdentityAt, MoneyAt, Afterwards
  <2> QED BY <1>1, <1>3, <1>4, <2>1
          DEF Knows, IdentityAt, TaskAt, MoneyAt, RefIsTrue, For, PaidBack, Open
<1>7. Knows(r)'
  <2>1. IdentityAt(r)'
    BY <1>1, <1>3, <1>4 DEF Knows, IdentityAt, Kept
  <2>2. TaskAt(r)'
    BY <1>1, <1>3, <1>4 DEF Knows, IdentityAt, TaskAt, Kept, VideoLabels, RefundLabels,
          For, Done, Rejected
  <2>3. RefAt(r)'
    BY <1>1, <1>3, <1>4 DEF Knows, IdentityAt, TaskAt, RefAt, Kept, Detached, Matches,
          RefundLabels, VideoLabels, NoRef, Done
  <2>4. MoneyAt(r)'
    BY <1>1, <1>3, <1>4 DEF Knows, IdentityAt, TaskAt, MoneyAt, Kept, Afterwards,
          RefundLabels, VideoLabels, PaidBack, Open, Done, Rejected
  <2>5. GivenAt(r)'
    BY <1>1, <1>3, <1>4 DEF Knows, IdentityAt, TaskAt, GivenAt, Kept, RefundLabels,
          VideoLabels, Done, Rejected
  <2> QED BY <2>1, <2>2, <2>3, <2>4, <2>5 DEF Knows
<1>8. ~TaskAhead(r)'
  BY <1>1 DEF TaskAhead, Early
<1> QED BY <1>1, <1>2, <1>5, <1>6, <1>7, <1>8, Unmoved DEF CalmInv, Kept, Afterwards

LEMMA CalmRestore ==
  ASSUME TypeInv, Calm, CalmInv, NEW r \in Runs, Restore(r)
  PROVE  CalmInv'
<1>1. /\ act[r].pc = "restore"
      /\ act'[r].pc = "ended" /\ act'[r].outcome = "noretry"
      /\ Kept(r) /\ Others(r)
      /\ UNCHANGED <<charged, bill, marker, upstream, given, msg>>
      /\ ref' = [task |-> act[r].task, charge |-> act[r].charge,
                 key |-> act[r].key, failures |-> act[r].failures]
  BY Goes, Stops DEF Restore, SaveRef, money, table, redis, world, sched, At
<1>2. Underway(r) /\ Underway(r)'
  BY <1>1 DEF Underway, Alive, Early
<1>3. Knows(r)
  BY <1>2, Knowing
<1>4. act[r].task # None
  BY <1>1, VideoChargeAssumption DEF TypeInv, TaskKnown, FollowLabels, Payers
<1>5. Books' /\ Booked'
  <2>1. RecordProviderTask(act[r].key, act[r].task, "pending_review", FALSE)
    BY DEF Restore
  <2> QED BY <1>1, <1>2, <1>3, <2>1, WriteStep DEF Knows, GivenAt
<1>6. RefIsTrue'
  <2>1. ~PaidBack(act[r].charge) /\ act[r].charge \in Runs
    BY <1>1, <1>3 DEF Knows, IdentityAt, MoneyAt
  <2> QED BY <1>1, <1>3, <1>4, <2>1
          DEF Knows, IdentityAt, TaskAt, MoneyAt, RefIsTrue, For, PaidBack, Open
<1>7. Knows(r)'
  <2>1. IdentityAt(r)'
    BY <1>1, <1>3, <1>4 DEF Knows, IdentityAt, Kept
  <2>2. TaskAt(r)'
    BY <1>1, <1>3, <1>4 DEF Knows, IdentityAt, TaskAt, Kept, VideoLabels, RefundLabels,
          For, Done, Rejected
  <2>3. RefAt(r)'
    BY <1>1, <1>3, <1>4 DEF Knows, IdentityAt, TaskAt, RefAt, Kept, Detached, Matches,
          RefundLabels, VideoLabels, NoRef, Done
  <2>4. MoneyAt(r)'
    BY <1>1, <1>3, <1>4 DEF Knows, IdentityAt, TaskAt, MoneyAt, Kept, Afterwards,
          RefundLabels, VideoLabels, PaidBack, Open, Done, Rejected
  <2>5. GivenAt(r)'
    BY <1>1, <1>3, <1>4 DEF Knows, IdentityAt, TaskAt, GivenAt, Kept, RefundLabels,
          VideoLabels, Done, Rejected
  <2> QED BY <2>1, <2>2, <2>3, <2>4, <2>5 DEF Knows
<1>8. ~TaskAhead(r)'
  BY <1>1 DEF TaskAhead, Early
<1> QED BY <1>1, <1>2, <1>5, <1>6, <1>7, <1>8, Unmoved DEF CalmInv, Kept, Afterwards

LEMMA CalmRecordRefund ==
  ASSUME TypeInv, Calm, CalmInv, NEW r \in Runs, RecordRefund(r)
  PROVE  CalmInv'
<1>1. /\ act[r].pc = "recordRefund"
      /\ \/ act[r].resumed /\ act'[r].pc = "ended" /\ act'[r].outcome = "noretry"
         \/ ~act[r].resumed /\ act'[r].pc = "consume"
      /\ Kept(r) /\ Others(r)
      /\ UNCHANGED <<charged, bill, ref, marker, upstream, given, msg>>
  BY Goes, Stops DEF RecordRefund, money, table, redis, world, sched, At
<1>2. Underway(r) /\ Underway(r)'
  BY <1>1 DEF Underway, Alive, Early
<1>3. Knows(r)
  BY <1>2, Knowing
<1>4. Books' /\ Booked'
  <2>1. RecordProviderTask(act[r].key, act[r].task, "refunded", TRUE)
    BY DEF RecordRefund
  <2>2. PaidBack(act[r].charge)
    BY <1>1, <1>3 DEF Knows, MoneyAt
  <2>3. "refunded" \in Statuses \ {"failed"}
    BY DEF Statuses
  <2> QED BY <1>1, <1>2, <1>3, <2>1, <2>2, <2>3, Knowing, TableStep
<1>5. RefIsTrue'
  BY <1>1, <1>2, Knowing, RefKept
<1>6. Knows(r)'
  <2>1. IdentityAt(r)'
    BY <1>1, <1>3 DEF Knows, IdentityAt, Kept
  <2>2. TaskAt(r)'
    BY <1>1, <1>3 DEF Knows, IdentityAt, TaskAt, Kept, VideoLabels, RefundLabels, For,
          Done, Rejected
  <2>3. RefAt(r)'
    BY <1>1, <1>3 DEF Knows, IdentityAt, TaskAt, RefAt, Kept, Detached, Matches,
          RefundLabels, VideoLabels, NoRef, Done
  <2>4. MoneyAt(r)'
    BY <1>1, <1>3 DEF Knows, IdentityAt, TaskAt, MoneyAt, Kept, Afterwards,
          RefundLabels, VideoLabels, PaidBack, Open, Done, Rejected
  <2>5. GivenAt(r)'
    BY <1>1, <1>3 DEF Knows, IdentityAt, TaskAt, GivenAt, Kept, RefundLabels,
          VideoLabels, Done, Rejected
  <2> QED BY <2>1, <2>2, <2>3, <2>4, <2>5 DEF Knows
<1>7. ~TaskAhead(r)'
  BY <1>1 DEF TaskAhead, Early
<1> QED BY <1>1, <1>2, <1>4, <1>5, <1>6, <1>7, Unmoved DEF CalmInv, Kept, Afterwards

LEMMA CalmTakeRef ==
  ASSUME TypeInv, Calm, CalmInv, NEW r \in Runs, TakeRef(r)
  PROVE  CalmInv'
<1>1. /\ act[r].pc = "takeRef"
      /\ \/ act[r].why = "rejected" /\ act'[r].pc = "mark"
         \/ act'[r].pc = "ended" /\ act'[r].outcome = "noretry"
      /\ Kept(r) /\ Others(r)
      /\ UNCHANGED <<charged, bill, marker, upstream, given, msg, rows, order>>
      /\ ref' = NoRef
  <2>1. act[r].pc = "takeRef" /\ ref' = NoRef
        /\ UNCHANGED <<charged, bill, marker, upstream, given, msg, rows, order>>
    BY DEF TakeRef, DeleteRef, At, money, table, world, sched
  <2>2. Knows(r)
    BY <2>1, Knowing DEF Underway, Alive, Early
  <2>3. act[r].resumed /\ act[r].task # None
    BY <2>1, <2>2, VideoChargeAssumption DEF Knows, IdentityAt, TypeInv, TaskKnown, Payers
  <2>4. /\ ref.task = act[r].task /\ ref.charge = act[r].charge /\ ref.key = act[r].key
        /\ ref.failures = act[r].failures /\ ref # NoRef
    BY <2>1, <2>2, <2>3 DEF Knows, RefAt, Matches, Detached, RefundLabels, NoRef
  <2>5. CASE act[r].why # "rejected"
    BY <2>1, <2>4, <2>5, Stops DEF TakeRef
  <2>6. CASE act[r].why = "rejected"
    <3> DEFINE s == [act[r] EXCEPT !.pc = "mark", !.task = ref.task, !.charge = ref.charge,
                                   !.key = ref.key, !.failures = ref.failures]
    <3>1. act' = [act EXCEPT ![r] = s]
      BY <2>4, <2>6 DEF TakeRef
    <3>2. act[r] \in RunStates /\ act'[r] = s /\ Others(r)
      BY <3>1 DEF TypeInv, TypeOK, Others
    <3>3. /\ s.pc = "mark" /\ s.task = ref.task /\ s.charge = ref.charge /\ s.key = ref.key
          /\ s.failures = ref.failures /\ s.own = act[r].own /\ s.resumed = act[r].resumed
          /\ s.why = act[r].why
      BY <3>2 DEF RunStates
    <3> HIDE DEF s
    <3> QED BY <2>1, <2>4, <2>6, <3>2, <3>3 DEF Kept
  <2> QED BY <2>1, <2>5, <2>6
<1>2. Underway(r) /\ Underway(r)'
  BY <1>1 DEF Underway, Alive, Early
<1>3. Knows(r)
  BY <1>2, Knowing
<1>4. Books' /\ Booked'
  BY <1>1, <1>2, Knowing, BooksKept
<1>5. RefIsTrue'
  BY <1>1, <1>2, Knowing, RefKept
<1>6. Knows(r)'
  <2>1. IdentityAt(r)'
    BY <1>1, <1>3 DEF Knows, IdentityAt, Kept
  <2>2. TaskAt(r)'
    BY <1>1, <1>3 DEF Knows, IdentityAt, TaskAt, Kept, VideoLabels, RefundLabels, For,
          Done, Rejected
  <2>3. RefAt(r)'
    BY <1>1, <1>3 DEF Knows, IdentityAt, TaskAt, RefAt, Kept, Detached, Matches,
          RefundLabels, VideoLabels, NoRef, Done
  <2>4. MoneyAt(r)'
    BY <1>1, <1>3 DEF Knows, IdentityAt, TaskAt, MoneyAt, Kept, Afterwards,
          RefundLabels, VideoLabels, PaidBack, Open, Done, Rejected
  <2>5. GivenAt(r)'
    BY <1>1, <1>3 DEF Knows, IdentityAt, TaskAt, GivenAt, Kept, RefundLabels,
          VideoLabels, Done, Rejected
  <2> QED BY <2>1, <2>2, <2>3, <2>4, <2>5 DEF Knows
<1>7. ~TaskAhead(r)'
  BY <1>1 DEF TaskAhead, Early
<1> QED BY <1>1, <1>2, <1>4, <1>5, <1>6, <1>7, Unmoved DEF CalmInv, Kept, Afterwards
-----------------------------------------------------------------------------
(* The steps of a refund *)

\* While nobody pays, a marked task was paid for.
LEMMA MarkedIsPaid ==
  ASSUME CalmInv, NEW r \in Runs, Alive(r), act[r].pc \notin {"pay", "unmark"}
  PROVE  \A t \in marker : PaidBack(upstream[t].charge)
<1>1. \A q \in Runs \ {r} : ~Alive(q)
  BY OnlyOne DEF CalmInv, Flow
<1> QED BY <1>1 DEF CalmInv, Ledger, Marked, Alive

LEMMA CalmMark ==
  ASSUME TypeInv, Calm, CalmInv, NEW r \in Runs, Mark(r)
  PROVE  CalmInv'
<1>1. /\ act[r].pc = "mark" /\ Kept(r) /\ Others(r)
      /\ UNCHANGED <<charged, bill, ref, upstream, given, msg, rows, order>>
      /\ \/ /\ act'[r].pc = "pay" /\ act[r].task \notin marker
            /\ marker' = IF act[r].task = None THEN marker ELSE marker \cup {act[r].task}
         \/ act'[r].pc = "recordRefund" /\ act[r].task \in marker /\ UNCHANGED marker
  BY Goes DEF Mark, WinsMarker, Calm, money, table, world, sched, At
<1>2. Underway(r) /\ Underway(r)'
  BY <1>1 DEF Underway, Alive, Early
<1>3. Knows(r) /\ Alive(r) /\ Flow /\ Ledger /\ Books /\ Booked /\ RefIsTrue /\ Delivered
  BY <1>2, Knowing
<1>4. act[r].charge \in Runs /\ act[r].charge # None
  BY <1>1, <1>3, VideoChargeAssumption DEF Knows, IdentityAt, Payers
<1>5. \A t \in marker : PaidBack(upstream[t].charge)
  BY <1>1, <1>2, MarkedIsPaid DEF Underway
<1>6. act[r].task # None => For(act[r].task, act[r].charge)
  BY <1>3 DEF Knows, TaskAt
<1>7. act[r].task \in marker => act[r].task # None
  BY VideoChargeAssumption DEF TypeInv, TypeOK, Payers
<1>8. /\ act'[r].pc = "recordRefund" => PaidBack(act[r].charge)
      /\ act'[r].pc = "pay" => ~PaidBack(act[r].charge)
  BY <1>1, <1>3, <1>5, <1>6, <1>7 DEF For, Knows, MoneyAt, Afterwards
<1>9. ~TaskAhead(r)'
  BY <1>1 DEF TaskAhead, Early
<1>10. Flow' /\ Books' /\ Booked' /\ RefIsTrue' /\ Delivered'
  BY <1>1, <1>2, <1>3, <1>9, FlowGoesOn, BooksKept, RefKept, DeliveredKept DEF Kept
<1>11. Ledger'
  <2>1. ASSUME NEW t \in marker, t # act[r].task \/ act'[r].pc # "pay"
        PROVE  /\ upstream'[t].charge # None /\ upstream'[t].state # "none"
               /\ PaidBack(upstream[t].charge)'
    BY <1>1, <1>3, <1>5 DEF Ledger, Marked, PaidBack
  <2>2. ASSUME act[r].task # None, act'[r].pc = "pay"
        PROVE  /\ upstream'[act[r].task].charge # None
               /\ upstream'[act[r].task].state # "none" /\ act'[r].task = act[r].task
    BY <1>1, <1>4, <1>6, <2>2 DEF For, Kept
  <2>3. Marked'
    BY <1>1, <2>1, <2>2 DEF Marked, PaidBack
  <2>4. Repaid' /\ OneOutstandingCharge'
    BY <1>1, <1>3 DEF Ledger, Repaid, RefundOncePerCharge, Paid, Others, Afterwards,
                      OneOutstandingCharge, PaidBack
  <2> QED BY <2>3, <2>4 DEF Ledger
<1>12. Knows(r)'
  <2>1. IdentityAt(r)' /\ TaskAt(r)'
    BY <1>1, <1>3 DEF Knows, IdentityAt, TaskAt, Kept, VideoLabels, RefundLabels, For,
                      Done, Rejected
  <2>2. RefAt(r)'
    BY <1>1, <1>3 DEF Knows, RefAt, Kept, Detached, Matches, RefundLabels
  <2>3. MoneyAt(r)'
    BY <1>1, <1>3, <1>8 DEF Knows, MoneyAt, Kept, Afterwards, PaidBack, Open, Rejected
  <2>4. GivenAt(r)'
    BY <1>1, <1>3 DEF Knows, GivenAt, Kept, Done
  <2> QED BY <2>1, <2>2, <2>3, <2>4 DEF Knows
<1>13. RunKnows'
  BY <1>1, <1>3, <1>12, OthersKnow
<1> QED BY <1>10, <1>11, <1>13 DEF CalmInv

LEMMA CalmUnmark ==
  ASSUME TypeInv, Calm, CalmInv, NEW r \in Runs, Unmark(r)
  PROVE  CalmInv'
<1>1. /\ act[r].pc = "unmark" /\ Kept(r) /\ Others(r)
      /\ UNCHANGED <<charged, bill, ref, upstream, given, msg, rows, order>>
      /\ marker' = marker \ {act[r].task}
      /\ \/ act[r].resumed /\ act'[r].pc = "restore"
         \/ ~act[r].resumed /\ act'[r].pc = "ended" /\ act'[r].outcome = "noretry"
  BY Goes, Stops DEF Unmark, money, table, world, sched, At
<1>2. Underway(r) /\ Underway(r)'
  BY <1>1 DEF Underway, Alive, Early
<1>3. Knows(r) /\ Alive(r) /\ Flow /\ Ledger /\ Books /\ Booked /\ RefIsTrue /\ Delivered
  BY <1>2, Knowing
<1>4. ~PaidBack(act[r].charge) /\ act[r].charge \in Runs
  BY <1>1, <1>3 DEF Knows, IdentityAt, MoneyAt
<1>5. ~TaskAhead(r)'
  BY <1>1 DEF TaskAhead, Early
<1>6. Flow' /\ Books' /\ Booked' /\ Delivered'
  BY <1>1, <1>2, <1>3, <1>5, FlowGoesOn, BooksKept, DeliveredKept DEF Kept
<1>7. RefIsTrue'
  <2>1. ref # NoRef => ref.charge = act[r].charge
    BY <1>1, <1>3 DEF Knows, RefAt, Detached, Matches, RefundLabels
  <2> QED BY <1>1, <1>3, <1>4, <2>1 DEF RefIsTrue, For, PaidBack, Open
<1>8. Ledger'
  <2>1. \A q \in Runs : act[q].pc \in {"pay", "unmark"} => q = r
    BY <1>3, OnlyOne DEF Flow, Alive
  <2>2. Marked'
    BY <1>1, <1>3, <2>1 DEF Ledger, Marked, PaidBack
  <2>3. Repaid' /\ OneOutstandingCharge'
    BY <1>1, <1>3 DEF Ledger, Repaid, RefundOncePerCharge, Paid, Others, Afterwards,
                      OneOutstandingCharge, PaidBack
  <2> QED BY <2>2, <2>3 DEF Ledger
<1>9. Knows(r)'
  <2>1. IdentityAt(r)' /\ TaskAt(r)'
    BY <1>1, <1>3 DEF Knows, IdentityAt, TaskAt, Kept, VideoLabels, RefundLabels, For,
                      Done, Rejected
  <2>2. RefAt(r)'
    BY <1>1, <1>3 DEF Knows, RefAt, Kept, Detached, Matches, RefundLabels
  <2>3. MoneyAt(r)'
    BY <1>1, <1>3, <1>4 DEF Knows, MoneyAt, Kept, Afterwards, PaidBack, Open
  <2>4. GivenAt(r)'
    BY <1>1, <1>3 DEF Knows, GivenAt, Kept, Done
  <2> QED BY <2>1, <2>2, <2>3, <2>4 DEF Knows
<1>10. RunKnows'
  BY <1>1, <1>3, <1>9, OthersKnow
<1> QED BY <1>6, <1>7, <1>8, <1>10 DEF CalmInv

\* The payment returns one charge more: the one the run stands for.
LEMMA CalmPay ==
  ASSUME TypeInv, Calm, CalmInv, NEW r \in Runs, Pay(r)
  PROVE  CalmInv'
<1>1. /\ act[r].pc = "pay" /\ Kept(r) /\ Others(r)
      /\ UNCHANGED <<charged, ref, marker, upstream, given, msg, rows, order>>
      /\ \/ act'[r].pc = "unmark" /\ UNCHANGED bill
         \/ /\ act'[r].pc = "recordRefund"
            /\ bill' = [bill EXCEPT ![r] =
                 [charge |-> act[r].charge, task |-> act[r].task,
                  key |-> IF act[r].resumed THEN None ELSE act[r].key]]
  BY Goes DEF Pay, table, redis, world, sched, At
<1>2. Underway(r) /\ Underway(r)'
  BY <1>1 DEF Underway, Alive, Early
<1>3. Knows(r) /\ Alive(r) /\ Flow /\ Ledger /\ Books /\ Booked /\ RefIsTrue /\ Delivered
  BY <1>2, Knowing
<1>4. PICK c \in Runs : c = act[r].charge
  BY <1>1, <1>3 DEF Knows, IdentityAt
<1>5. c # None /\ r \in Payers
  BY VideoChargeAssumption DEF Payers
<1>6. ~PaidBack(c) /\ charged[c]
  BY <1>1, <1>3, <1>4 DEF Knows, MoneyAt, IdentityAt
<1>7. ~TaskAhead(r)'
  BY <1>1 DEF TaskAhead, Early
<1>8. CASE UNCHANGED bill
  <2>1. act'[r].pc \in {"unmark", "recordRefund"}
    BY <1>1
  <2>2. act'[r].pc = "unmark"
    <3>1. bill[r].charge # c
      BY <1>5, <1>6 DEF PaidBack
    <3>2. bill \in [Payers -> Bills]
      BY DEF TypeInv, TypeOK
    <3> QED BY <1>1, <1>4, <1>5, <1>8, <3>1, <3>2
  <2>3. Knows(r)'
    <3>1. IdentityAt(r)' /\ TaskAt(r)'
      BY <1>1, <1>3, <2>2 DEF Knows, IdentityAt, TaskAt, Kept, VideoLabels, RefundLabels,
                              For, Done, Rejected
    <3>2. RefAt(r)'
      BY <1>1, <1>3, <2>2 DEF Knows, RefAt, Kept, Detached, Matches, RefundLabels
    <3>3. MoneyAt(r)'
      BY <1>1, <1>3, <1>8, <2>2 DEF Knows, MoneyAt, Kept, Afterwards, PaidBack, Open, Rejected
    <3>4. GivenAt(r)'
      BY <1>1, <1>3, <2>2 DEF Knows, GivenAt, Kept, Done
    <3> QED BY <3>1, <3>2, <3>3, <3>4 DEF Knows
  <2>4. Books' /\ Booked' /\ RefIsTrue'
    BY <1>1, <1>3, <1>8, BooksKept, RefKept
  <2> QED BY <1>1, <1>2, <1>7, <1>8, <2>2, <2>3, <2>4, Unmoved
          DEF CalmInv, Kept, Afterwards
<1>9. CASE /\ act'[r].pc = "recordRefund"
           /\ bill' = [bill EXCEPT ![r] =
                [charge |-> act[r].charge, task |-> act[r].task,
                 key |-> IF act[r].resumed THEN None ELSE act[r].key]]
  <2>1. /\ bill'[r].charge = c /\ \A p \in Payers \ {r} : bill'[p] = bill[p]
    BY <1>4, <1>5, <1>9 DEF TypeInv, TypeOK
  <2>2. ~Paid(r)
    BY <1>1, <1>3 DEF Ledger, Repaid, Afterwards
  <2>3. \A d \in Runs : PaidBack(d)' <=> PaidBack(d) \/ d = c
    BY <1>5, <2>1, <2>2, VideoChargeAssumption DEF PaidBack, Paid, Payers
  <2>4. \A q \in Runs : act[q].pc \in {"pay", "unmark", "recordRefund"} => q = r
    BY <1>3, OnlyOne DEF Flow, Alive
  <2>5. Flow'
    <3>1. \A q \in Runs \ {r} :
            bill'[q] = bill[q] /\ (upstream[q].state = "none" => upstream'[q].state = "none")
      BY <1>1, <2>1 DEF Payers
    <3> QED BY <1>1, <1>2, <1>3, <1>7, <3>1, FlowGoesOn
  <2>6. Marked'
    <3> SUFFICES ASSUME NEW t \in marker
                 PROVE  PaidBack(upstream[t].charge)'
      BY <1>1, <1>3 DEF Ledger, Marked
    <3>1. upstream[t].charge \in Runs /\ upstream[t].charge # None
      BY <1>3 DEF Ledger, Marked, TypeInv, TypeOK, MaybeRun
    <3>2. PaidBack(upstream[t].charge) \/ upstream[t].charge = c
      BY <1>3, <1>4, <2>4, VideoChargeAssumption
         DEF Ledger, Marked, Knows, TaskAt, For, TypeInv, TypeOK, Payers
    <3>3. PICK d \in Runs : d = upstream[t].charge
      BY <3>1
    <3>4. PaidBack(d)'
      BY <2>3, <3>2, <3>3
    <3> QED BY <1>1, <3>1, <3>3, <3>4 DEF PaidBack
  <2>7. Repaid'
    <3>1. RefundOncePerCharge'
      BY <1>3, <1>5, <1>6, <2>1 DEF Ledger, Repaid, RefundOncePerCharge, Paid, PaidBack
    <3>2. \A p \in Runs : Paid(p)' => act'[p].pc \in Afterwards /\ charged'[bill'[p].charge]
      BY <1>1, <1>3, <1>6, <1>9, <2>1 DEF Ledger, Repaid, Paid, Afterwards, Others, Payers
    <3> QED BY <3>1, <3>2 DEF Repaid
  <2>8. OneOutstandingCharge'
    BY <1>1, <1>3, <2>3 DEF Ledger, OneOutstandingCharge
  <2>9. Books'
    <3>1. \A d \in Runs : RowOf(d)' = RowOf(d)
      BY <1>1 DEF RowOf
    <3> QED BY <1>1, <1>3, <2>3, <3>1 DEF Books, RowIsTrue, For
  <2>10. Booked'
    <3>1. \A d \in Runs : RowOf(d)' = RowOf(d)
      BY <1>1 DEF RowOf
    <3>2. act'[r].charge = c
      BY <1>1, <1>4 DEF Kept
    <3> QED BY <1>1, <1>3, <1>9, <2>3, <2>4, <3>1, <3>2 DEF Booked, At, Others
  <2>11. RefIsTrue'
    <3>1. ref # NoRef => ref.task = act[r].task /\ act[r].task # None
      BY <1>1, <1>3 DEF Knows, RefAt, Detached, Matches, RefundLabels
    <3>2. act[r].task # None => act[r].task \in marker /\ Rejected(act[r].task)
      BY <1>1, <1>3 DEF Knows, MoneyAt, TaskAt, RefundLabels
    <3>3. \A d \in Runs : Open(d)' => Open(d)
      BY <1>1, <2>3 DEF Open
    <3>4. ref # NoRef => ref.task \in marker /\ Rejected(ref.task)
      BY <3>1, <3>2
    <3> QED BY <1>1, <1>3, <3>3, <3>4 DEF RefIsTrue, For, Rejected
  <2>12. Delivered'
    <3>1. c \notin given
      BY <1>1, <1>3, <1>4 DEF Knows, GivenAt, TaskAt, RefundLabels, Done, Rejected
    <3>2. msg = "taken" /\ \A q \in Runs \ {r} : ~Alive(q)
      BY <1>3, OnlyOne DEF Flow
    <3>3. given = {}
      BY <1>1, <1>3, <1>4, <3>1, <3>2 DEF Delivered, At, Alive
    <3> QED BY <1>1, <3>3 DEF Delivered
  <2>13. Knows(r)'
    <3>1. IdentityAt(r)' /\ TaskAt(r)'
      BY <1>1, <1>3, <1>9 DEF Knows, IdentityAt, TaskAt, Kept, VideoLabels, RefundLabels,
                              For, Done, Rejected
    <3>2. RefAt(r)'
      BY <1>1, <1>3, <1>9 DEF Knows, RefAt, Kept, Detached, Matches, RefundLabels
    <3>3. PaidBack(act[r].charge)' /\ \A d \in Runs : Open(d)' => Open(d)
      <4>1. \A d \in Runs : Open(d)' => Open(d)
        BY <1>1, <2>3 DEF Open
      <4>2. PaidBack(c)'
        BY <2>3
      <4> QED BY <1>1, <1>4, <4>1, <4>2 DEF PaidBack, Kept
    <3>4. MoneyAt(r)'
      <4>1. act'[r].charge = c /\ PaidBack(c)'
        BY <1>1, <1>4, <2>3 DEF Kept
      <4>2. \A d \in Runs \ {c} : ~Open(d)'
        BY <1>3, <1>4, <3>3 DEF Knows, MoneyAt
      <4> QED BY <1>9, <4>1, <4>2 DEF MoneyAt, Afterwards, PaidBack
    <3>5. GivenAt(r)'
      BY <1>1, <1>3, <1>9 DEF Knows, GivenAt, Kept, Done
    <3> QED BY <3>1, <3>2, <3>4, <3>5 DEF Knows
  <2>14. RunKnows'
    BY <1>1, <1>3, <2>13, OthersKnow
  <2> QED BY <2>5, <2>6, <2>7, <2>8, <2>9, <2>10, <2>11, <2>12, <2>14 DEF CalmInv, Ledger
<1> QED BY <1>1, <1>8, <1>9
-----------------------------------------------------------------------------
(* The upstream task and the video *)

\* A task that was submitted keeps its charge, and a verdict is final.
UpstreamGoesOn ==
  \A t \in Runs : upstream[t].state # "none" =>
    /\ upstream'[t].charge = upstream[t].charge /\ upstream'[t].state # "none"
    /\ upstream[t].state \in {"done", "rejected"} => upstream'[t].state = upstream[t].state

LEMMA UpstreamMoves ==
  ASSUME TypeInv, CalmInv, NEW r \in Runs, Underway(r), Underway(r)', Others(r),
         act'[r].charge = act[r].charge, act[r].pc \in {"create", "poll"},
         UNCHANGED <<charged, bill, ref, marker, given, msg, rows, order>>,
         UpstreamGoesOn,
         \A q \in Runs \ {r} : upstream[q].state = "none" => upstream'[q].state = "none",
         ~TaskAhead(r)', Knows(r)'
  PROVE  CalmInv'
<1>1. Knows(r) /\ Alive(r) /\ Flow /\ Ledger /\ Books /\ Booked /\ RefIsTrue /\ Delivered
  BY Knowing
<1>2. Flow' /\ Delivered' /\ RunKnows'
  <2>1. \A q \in Runs \ {r} :
          bill'[q] = bill[q] /\ (upstream[q].state = "none" => upstream'[q].state = "none")
    OBVIOUS
  <2>2. Flow'
    BY <1>1, <2>1, FlowGoesOn
  <2>3. Delivered' /\ RunKnows'
    BY <1>1, DeliveredKept, OthersKnow
  <2> QED BY <2>2, <2>3
<1>3. \A t \in Runs, c \in Runs : For(t, c) => upstream'[t].charge = c /\ upstream'[t].state # "none"
  BY DEF UpstreamGoesOn, For
<1>4. Marked'
  <2> SUFFICES ASSUME NEW t \in marker
               PROVE  /\ upstream'[t].charge # None /\ upstream'[t].state # "none"
                      /\ \E p \in Payers : bill[p].charge = upstream'[t].charge
    BY DEF Marked, PaidBack
  <2>1. t \in Runs /\ upstream[t].charge # None /\ upstream[t].state # "none"
    BY <1>1 DEF Ledger, Marked, TypeInv, TypeOK
  <2>2. PaidBack(upstream[t].charge)
    BY <1>1, MarkedIsPaid
  <2> QED BY <2>1, <2>2 DEF UpstreamGoesOn, PaidBack
<1>5. Repaid' /\ OneOutstandingCharge'
  BY <1>1 DEF Ledger, Repaid, RefundOncePerCharge, Paid, Others, Afterwards,
              OneOutstandingCharge, PaidBack
<1>6. Books' /\ Booked'
  <2>1. \A c \in Runs : RowOf(c)' = RowOf(c) /\ (PaidBack(c)' <=> PaidBack(c))
    BY SameBills DEF RowOf
  <2>2. \A c \in Runs : RowOf(c).task \in MaybeRun
    BY KeysApart DEF RowOf, TypeInv, TypeOK, Row, MaybeRun
  <2>3. Books'
    <3> SUFFICES ASSUME NEW c \in Runs PROVE RowIsTrue(c)'
      BY <1>1 DEF Books
    <3>1. RowIsTrue(c)
      BY <1>1 DEF Books
    <3>2. RowOf(c).task # None => upstream'[RowOf(c).task].charge = c
                                  /\ upstream'[RowOf(c).task].state # "none"
      BY <1>3, <2>2, <3>1 DEF RowIsTrue, MaybeRun
    <3> QED BY <2>1, <3>1, <3>2 DEF RowIsTrue, For
  <2>4. Booked'
    BY <1>1, <2>1 DEF Booked, At, Others
  <2> QED BY <2>3, <2>4
<1>7. RefIsTrue'
  <2>1. ref # NoRef => ref.task \in Runs
    BY DEF TypeInv, TypeOK, Refs
  <2>2. ref # NoRef /\ PaidBack(ref.charge) => upstream'[ref.task].state = "rejected"
    BY <1>1, <2>1 DEF RefIsTrue, Rejected, UpstreamGoesOn
  <2> QED BY <1>1, <1>3, <2>1, <2>2 DEF RefIsTrue, For, Rejected, PaidBack, Open
<1> QED BY <1>2, <1>4, <1>5, <1>6, <1>7 DEF CalmInv, Ledger

LEMMA CalmCreate ==
  ASSUME TypeInv, Calm, CalmInv, NEW r \in Runs, Create(r)
  PROVE  CalmInv'
<1> DEFINE failed(why) == [act[r] EXCEPT !.pc = "recordFailure", !.why = why]
           made == [act[r] EXCEPT !.pc = "saveRef", !.task = r]
<1>1. /\ act[r].pc = "create"
      /\ UNCHANGED <<charged, bill, ref, marker, given, msg, rows, order>>
      /\ \/ act[r].task # None /\ Goto(r, "poll") /\ UNCHANGED upstream
         \/ /\ act[r].task = None
            /\ upstream' = [upstream EXCEPT ![r] = [state |-> "running", charge |-> act[r].charge]]
            /\ act' = [act EXCEPT ![r] = made] \/ act' = [act EXCEPT ![r] = failed("unknown")]
         \/ /\ act[r].task = None /\ UNCHANGED upstream
            /\ \E why \in {"rejected", "unknown"} : act' = [act EXCEPT ![r] = failed(why)]
  BY DEF Create, money, table, redis, sched, At
<1>2. act[r] \in RunStates
  BY RunFields DEF TypeInv
<1>3. /\ made.pc = "saveRef" /\ made.task = r /\ made.charge = act[r].charge
      /\ made.key = act[r].key /\ made.own = act[r].own /\ made.resumed = act[r].resumed
      /\ made.why = act[r].why /\ made.failures = act[r].failures
  BY <1>2 DEF RunStates
<1>4. \A why : LET s == failed(why) IN
        /\ s.pc = "recordFailure" /\ s.why = why /\ s.task = act[r].task
        /\ s.charge = act[r].charge /\ s.key = act[r].key /\ s.own = act[r].own
        /\ s.resumed = act[r].resumed /\ s.failures = act[r].failures
  BY <1>2 DEF RunStates
<1> HIDE DEF failed, made
<1>5. Others(r) /\ \A s : act' = [act EXCEPT ![r] = s] => act'[r] = s
  BY <1>1 DEF Goto, Others, TypeInv, TypeOK
<1>6. /\ act'[r].charge = act[r].charge /\ act'[r].key = act[r].key /\ act'[r].own = act[r].own
      /\ act'[r].resumed = act[r].resumed /\ act'[r].failures = act[r].failures
      /\ \/ /\ act[r].task # None /\ act'[r].pc = "poll" /\ UNCHANGED upstream
            /\ act'[r].task = act[r].task /\ act'[r].why = act[r].why
         \/ /\ act[r].task = None /\ act'[r].pc = "saveRef" /\ act'[r].task = r
            /\ act'[r].why = act[r].why
            /\ upstream' = [upstream EXCEPT ![r] = [state |-> "running", charge |-> act[r].charge]]
         \/ /\ act[r].task = None /\ act'[r].pc = "recordFailure" /\ act'[r].task = None
            /\ \/ UNCHANGED upstream
               \/ upstream' = [upstream EXCEPT ![r] = [state |-> "running", charge |-> act[r].charge]]
  <2>1. CASE act[r].task # None
    BY <1>1, <2>1, Goes DEF Kept
  <2>2. CASE act[r].task = None
    <3>1. act' = [act EXCEPT ![r] = made] => act'[r] = made
      BY <1>5
    <3>2. \A why : act' = [act EXCEPT ![r] = failed(why)] => act'[r] = failed(why)
      BY <1>5
    <3> QED BY <1>1, <1>3, <1>4, <2>2, <3>1, <3>2
  <2> QED BY <2>1, <2>2
<1>7. Underway(r) /\ Underway(r)' /\ ~TaskAhead(r)'
  BY <1>1, <1>6 DEF Underway, Alive, Early, TaskAhead
<1>8. Knows(r) /\ Flow
  BY <1>7, Knowing
<1>9. act[r].task = None => upstream[r].state = "none"
  BY <1>1, <1>8 DEF Flow, Unsubmitted, TaskAhead
<1>10. upstream \in [Runs -> [state : {"none", "running", "done", "rejected"}, charge : MaybeRun]]
  BY DEF TypeInv, TypeOK
<1>11. /\ \A q \in Runs \ {r} : upstream'[q] = upstream[q]
       /\ act[r].task # None => UNCHANGED upstream
       /\ act'[r].pc = "saveRef" => upstream'[r].charge = act[r].charge /\ upstream'[r].state = "running"
  BY <1>6, <1>10
<1>12. UpstreamGoesOn
  BY <1>9, <1>11 DEF UpstreamGoesOn
<1>13. Knows(r)'
  <2>1. IdentityAt(r)'
    BY <1>1, <1>6, <1>8 DEF Knows, IdentityAt
  <2>2. TaskAt(r)'
    BY <1>1, <1>6, <1>8, <1>11, VideoChargeAssumption
       DEF Knows, IdentityAt, TaskAt, VideoLabels, RefundLabels, For, Done, Rejected, Payers
  <2>3. RefAt(r)'
    BY <1>1, <1>6, <1>8 DEF Knows, RefAt, Detached, Matches, RefundLabels
  <2>4. MoneyAt(r)'
    BY <1>1, <1>6, <1>8, <1>11
       DEF Knows, IdentityAt, MoneyAt, Afterwards, PaidBack, Open, Rejected
  <2>5. GivenAt(r)'
    BY <1>1, <1>6, <1>8, <1>11 DEF Knows, IdentityAt, GivenAt, Done
  <2> QED BY <2>1, <2>2, <2>3, <2>4, <2>5 DEF Knows
<1> QED BY <1>1, <1>5, <1>6, <1>7, <1>11, <1>12, <1>13, UpstreamMoves

LEMMA CalmPoll ==
  ASSUME TypeInv, Calm, CalmInv, NEW r \in Runs, Poll(r)
  PROVE  CalmInv'
<1> DEFINE failed(why) == [act[r] EXCEPT !.pc = "recordFailure", !.why = why]
<1>1. /\ act[r].pc = "poll"
      /\ UNCHANGED <<charged, bill, ref, marker, given, msg, rows, order>>
      /\ \/ /\ Goto(r, "download") /\ upstream[act[r].task].state \in {"running", "done"}
            /\ upstream' = [upstream EXCEPT ![act[r].task].state = "done"]
         \/ /\ act' = [act EXCEPT ![r] = failed("rejected")]
            /\ upstream[act[r].task].state \in {"running", "rejected"}
            /\ upstream' = [upstream EXCEPT ![act[r].task].state = "rejected"]
         \/ act' = [act EXCEPT ![r] = failed("unknown")] /\ UNCHANGED upstream
  BY DEF Poll, money, table, redis, sched, At
<1>2. act[r] \in RunStates
  BY RunFields DEF TypeInv
<1>3. \A why : LET s == failed(why) IN
        /\ s.pc = "recordFailure" /\ s.why = why /\ s.task = act[r].task
        /\ s.charge = act[r].charge /\ s.key = act[r].key /\ s.own = act[r].own
        /\ s.resumed = act[r].resumed /\ s.failures = act[r].failures
  BY <1>2 DEF RunStates
<1> HIDE DEF failed
<1>4. Others(r) /\ \A why : act' = [act EXCEPT ![r] = failed(why)] => act'[r] = failed(why)
  BY <1>1 DEF Goto, Others, TypeInv, TypeOK
<1>5. /\ act'[r].charge = act[r].charge /\ act'[r].key = act[r].key /\ act'[r].own = act[r].own
      /\ act'[r].resumed = act[r].resumed /\ act'[r].failures = act[r].failures
      /\ act'[r].task = act[r].task
      /\ \/ /\ act'[r].pc = "download" /\ act'[r].why = act[r].why
            /\ upstream[act[r].task].state \in {"running", "done"}
            /\ upstream' = [upstream EXCEPT ![act[r].task].state = "done"]
         \/ /\ act'[r].pc = "recordFailure" /\ act'[r].why = "rejected"
            /\ upstream[act[r].task].state \in {"running", "rejected"}
            /\ upstream' = [upstream EXCEPT ![act[r].task].state = "rejected"]
         \/ act'[r].pc = "recordFailure" /\ act'[r].why = "unknown" /\ UNCHANGED upstream
  BY <1>1, <1>3, <1>4, Goes DEF Kept
<1>6. Underway(r) /\ Underway(r)' /\ ~TaskAhead(r)'
  BY <1>1, <1>5 DEF Underway, Alive, Early, TaskAhead
<1>7. Knows(r)
  BY <1>6, Knowing
<1>8. PICK t \in Runs : t = act[r].task
  BY <1>1 DEF TypeInv, TaskKnown, FollowLabels
<1>9. upstream \in [Runs -> [state : {"none", "running", "done", "rejected"}, charge : MaybeRun]]
  BY DEF TypeInv, TypeOK
<1>10. /\ \A q \in Runs \ {t} : upstream'[q] = upstream[q]
       /\ upstream'[t].charge = upstream[t].charge
       /\ \/ act'[r].pc = "download" /\ upstream[t].state # "rejected" /\ upstream'[t].state = "done"
          \/ /\ act'[r].pc = "recordFailure" /\ act'[r].why = "rejected"
             /\ upstream[t].state # "done" /\ upstream'[t].state = "rejected"
          \/ /\ act'[r].pc = "recordFailure" /\ act'[r].why = "unknown"
             /\ upstream'[t].state = upstream[t].state
  BY <1>5, <1>8, <1>9
<1>11. t # None /\ For(t, act[r].charge) /\ upstream[t].state # "none"
  BY <1>7, <1>8, VideoChargeAssumption DEF Knows, TaskAt, For, Payers
<1>12. UpstreamGoesOn
  BY <1>10 DEF UpstreamGoesOn
<1>13. Knows(r)'
  <2>1. IdentityAt(r)'
    BY <1>1, <1>5, <1>7 DEF Knows, IdentityAt
  <2>2. TaskAt(r)'
    BY <1>1, <1>5, <1>7, <1>8, <1>10, <1>11
       DEF Knows, TaskAt, VideoLabels, RefundLabels, For, Done, Rejected
  <2>3. RefAt(r)'
    BY <1>1, <1>5, <1>7, <1>8, <1>11 DEF Knows, RefAt, Detached, Matches, RefundLabels
  <2>4. MoneyAt(r)'
    BY <1>1, <1>5, <1>7, <1>8, <1>10
       DEF Knows, MoneyAt, Afterwards, PaidBack, Open, Rejected
  <2>5. GivenAt(r)'
    BY <1>1, <1>5, <1>7, <1>8, <1>10 DEF Knows, GivenAt, Done
  <2> QED BY <2>1, <2>2, <2>3, <2>4, <2>5 DEF Knows
<1>14. \A q \in Runs \ {r} : upstream[q].state = "none" => upstream'[q].state = "none"
  BY <1>10, <1>11
<1> QED BY <1>1, <1>4, <1>5, <1>6, <1>12, <1>13, <1>14, UpstreamMoves

LEMMA CalmCountFailure ==
  ASSUME TypeInv, Calm, CalmInv, NEW r \in Runs, CountFailure(r)
  PROVE  CalmInv'
<1> DEFINE n == act[r].failures + 1
           again == [act[r] EXCEPT !.failures = n, !.pc = "ended", !.outcome = "retry"]
           last == [act[r] EXCEPT !.failures = n, !.pc = "abandon"]
<1>1. /\ act[r].pc = "countFailure"
      /\ UNCHANGED <<charged, bill, marker, upstream, given, msg, rows, order>>
      /\ ref' = [task |-> act[r].task, charge |-> act[r].charge, key |-> act[r].key,
                 failures |-> n]
      /\ act' = [act EXCEPT ![r] = again] \/ act' = [act EXCEPT ![r] = last]
  BY DEF CountFailure, money, table, world, sched, At
<1>2. act[r] \in RunStates
  BY RunFields DEF TypeInv
<1>3. \A s \in {again, last} :
        /\ s.task = act[r].task /\ s.charge = act[r].charge /\ s.key = act[r].key
        /\ s.own = act[r].own /\ s.resumed = act[r].resumed /\ s.why = act[r].why
        /\ s.failures = n
  BY <1>2 DEF RunStates
<1>4. again.pc = "ended" /\ again.outcome = "retry" /\ last.pc = "abandon"
  BY <1>2 DEF RunStates
<1> HIDE DEF again, last
<1>5. Others(r) /\ act'[r] \in {again, last}
  BY <1>1 DEF Others, TypeInv, TypeOK
<1>6. /\ act'[r].task = act[r].task /\ act'[r].charge = act[r].charge
      /\ act'[r].key = act[r].key /\ act'[r].own = act[r].own
      /\ act'[r].resumed = act[r].resumed /\ act'[r].why = act[r].why
      /\ act'[r].failures = n
      /\ \/ act'[r].pc = "ended" /\ act'[r].outcome = "retry"
         \/ act'[r].pc = "abandon"
  BY <1>3, <1>4, <1>5
<1> HIDE DEF n
<1>7. Underway(r) /\ Underway(r)' /\ ~TaskAhead(r)'
  BY <1>1, <1>6 DEF Underway, Alive, Early, TaskAhead
<1>8. Knows(r) /\ Books /\ Booked /\ RefIsTrue
  BY <1>7, Knowing
<1>9. /\ act[r].charge \in Runs /\ act[r].task # None /\ Done(act[r].task)
      /\ ~PaidBack(act[r].charge)
  BY <1>1, <1>8 DEF Knows, IdentityAt, TaskAt, MoneyAt, VideoLabels, Afterwards, Done, Rejected
<1>10. RefIsTrue'
  BY <1>1, <1>8, <1>9 DEF Knows, IdentityAt, TaskAt, MoneyAt, RefIsTrue, For, PaidBack, Open
<1>11. Books' /\ Booked'
  BY <1>1, <1>5, <1>8, BooksKept
<1>12. Knows(r)'
  <2>1. IdentityAt(r)'
    BY <1>1, <1>6, <1>8, <1>9 DEF Knows, IdentityAt
  <2>2. TaskAt(r)'
    BY <1>1, <1>6, <1>8, <1>9 DEF Knows, TaskAt, VideoLabels, RefundLabels, For, Done, Rejected
  <2>3. RefAt(r)'
    BY <1>1, <1>6, <1>9 DEF RefAt, Detached, Matches, RefundLabels, Done
  <2>4. MoneyAt(r)'
    BY <1>1, <1>6, <1>8, <1>9 DEF Knows, MoneyAt, Afterwards, PaidBack, Open
  <2>5. GivenAt(r)'
    BY <1>1, <1>6, <1>8, <1>9 DEF Knows, GivenAt, Done
  <2> QED BY <2>1, <2>2, <2>3, <2>4, <2>5 DEF Knows
<1> QED BY <1>1, <1>5, <1>6, <1>7, <1>10, <1>11, <1>12, Unmoved DEF CalmInv, Afterwards

\* A video reaches the user: its charge was not returned.
LEMMA CalmRecordGeneration ==
  ASSUME TypeInv, Calm, CalmInv, NEW r \in Runs, RecordGeneration(r)
  PROVE  CalmInv'
<1>1. /\ act[r].pc = "history" /\ act'[r].pc = "recordDelivered"
      /\ Kept(r) /\ Others(r)
      /\ UNCHANGED <<charged, bill, ref, marker, upstream, msg, rows, order>>
      /\ given' = given \cup {act[r].charge}
  BY Goes DEF RecordGeneration, money, table, redis, sched, At
<1>2. Underway(r) /\ Underway(r)' /\ ~TaskAhead(r)'
  BY <1>1 DEF Underway, Alive, Early, TaskAhead
<1>3. Knows(r) /\ Alive(r) /\ Flow /\ Ledger /\ Books /\ Booked /\ RefIsTrue /\ Delivered
  BY <1>2, Knowing
<1>4. /\ act[r].charge \in Runs /\ act[r].task # None /\ Done(act[r].task)
      /\ ~PaidBack(act[r].charge) /\ charged[act[r].charge]
  BY <1>1, <1>3 DEF Knows, IdentityAt, TaskAt, MoneyAt, VideoLabels, Afterwards, Done, Rejected
<1>5. Flow' /\ Ledger' /\ Books' /\ Booked' /\ RefIsTrue'
  BY <1>1, <1>2, <1>3, FlowGoesOn, LedgerKept, BooksKept, RefKept DEF Afterwards
<1>6. Delivered'
  <2>1. msg = "taken" /\ \A q \in Runs \ {r} : ~Alive(q)
    BY <1>3, OnlyOne DEF Flow
  <2>2. \A c \in given : c = act[r].charge
    BY <1>1, <1>3, <2>1 DEF Delivered, At, Alive
  <2>3. \A c \in given' : c = act[r].charge /\ c = act'[r].charge
    BY <1>1, <2>2 DEF Kept
  <2>4. Alive(r)'
    BY <1>2 DEF Underway
  <2> QED BY <1>1, <1>4, <2>3, <2>4 DEF Delivered, PaidBack
<1>7. Knows(r)'
  <2>1. IdentityAt(r)' /\ TaskAt(r)'
    BY <1>1, <1>3 DEF Knows, IdentityAt, TaskAt, Kept, VideoLabels, RefundLabels, For,
                      Done, Rejected
  <2>2. RefAt(r)'
    BY <1>1, <1>3 DEF Knows, RefAt, Kept, Detached, Matches, RefundLabels
  <2>3. MoneyAt(r)'
    BY <1>1, <1>3, <1>4 DEF Knows, MoneyAt, Kept, Afterwards, PaidBack, Open
  <2>4. GivenAt(r)'
    BY <1>1, <1>3, <1>4 DEF Knows, GivenAt, Kept, Done
  <2> QED BY <2>1, <2>2, <2>3, <2>4 DEF Knows
<1>8. RunKnows'
  BY <1>1, <1>3, <1>7, OthersKnow
<1> QED BY <1>5, <1>6, <1>8 DEF CalmInv
-----------------------------------------------------------------------------
(* The first steps of a run *)

\* Between two runs, and while a run has not found or taken a charge, nothing
\* but its label moves.
LEMMA EarlyStep ==
  ASSUME TypeInv, CalmInv, NEW r \in Runs, Others(r), act[r].pc \in Early,
         act'[r] = [NoRun EXCEPT !.pc = act'[r].pc], act'[r].pc \in {"load", "check", "charge"},
         UNCHANGED <<charged, bill, ref, marker, upstream, given, rows, order>>,
         msg' = "taken", \A q \in Runs \ {r} : ~Alive(q),
         act'[r].pc \in {"check", "charge"} => ref = NoRef,
         act'[r].pc = "charge" => \A d \in Runs : ~Open(d),
         \A c \in given : act'[r].pc = "load" /\ Resumes(c)
  PROVE  CalmInv'
<1>1. \A l : [NoRun EXCEPT !.pc = l].pc = l /\ [NoRun EXCEPT !.pc = l].task = None
  BY DEF NoRun
<1>2. /\ Flow /\ Ledger /\ Books /\ Booked /\ RefIsTrue /\ Delivered
      /\ ~charged[r] /\ ~Paid(r) /\ upstream[r].state = "none"
  BY DEF CalmInv, Flow, Fresh, Unsubmitted, TaskAhead
<1>3. Serial'
  BY DEF Serial, Others, Alive
<1>4. Fresh' /\ Unsubmitted'
  BY <1>2 DEF Flow, Fresh, Unsubmitted, TaskAhead, Others, Paid, Early
<1>5. Starting'
  BY <1>2 DEF Flow, Starting, Others, Open, PaidBack, Alive
<1>6. Ledger' /\ Books' /\ Booked' /\ RefIsTrue'
  BY <1>2, LedgerKept, BooksKept, RefKept DEF Early, Afterwards
<1>7. Delivered'
  BY <1>2, SameBills DEF Delivered, At, Resumes, Done
<1>8. RunKnows'
  BY DEF RunKnows, Underway, Others, Alive, Early
<1> QED BY <1>3, <1>4, <1>5, <1>6, <1>7, <1>8 DEF CalmInv, Flow

\* A run comes to stand for a charge that is there already, or stops.
LEMMA EnterStep ==
  ASSUME TypeInv, CalmInv, NEW r \in Runs, Others(r), act[r].pc \in {"load", "check", "charge"},
         UNCHANGED <<charged, bill, ref, marker, upstream, given, msg, rows, order>>,
         Underway(r)', Knows(r)', \A c \in given : act'[r].charge = c
  PROVE  CalmInv'
<1>1. /\ Flow /\ Ledger /\ Books /\ Booked /\ RefIsTrue /\ Delivered
      /\ ~Paid(r) /\ upstream[r].state = "none" /\ Alive(r)
  BY DEF CalmInv, Flow, Fresh, Unsubmitted, TaskAhead, Alive, Early
<1>2. msg = "taken" /\ \A q \in Runs \ {r} : ~Alive(q)
  BY <1>1, OnlyOne DEF Flow
<1>3. Serial'
  BY <1>2 DEF Serial, Others, Alive
<1>4. Fresh' /\ Unsubmitted'
  BY <1>1 DEF Flow, Fresh, Unsubmitted, TaskAhead, Others, Paid, Underway
<1>5. Starting'
  BY <1>2 DEF Starting, Others, Alive, Underway, Early
<1>6. Ledger' /\ Books' /\ Booked' /\ RefIsTrue'
  BY <1>1, LedgerKept, BooksKept, RefKept DEF Afterwards
<1>7. Delivered'
  BY <1>1, SameBills DEF Delivered, Underway
<1>8. RunKnows'
  BY <1>1, OthersKnow
<1> QED BY <1>3, <1>4, <1>5, <1>6, <1>7, <1>8 DEF CalmInv, Flow

\* What a run that has not charged yet finds.
LEMMA EarlyKnowing ==
  ASSUME CalmInv, NEW r \in Runs, act[r].pc \in Early
  PROVE  /\ act[r] = [NoRun EXCEPT !.pc = act[r].pc]
         /\ act[r].charge = None /\ act[r].key = None /\ act[r].task = None
         /\ ~act[r].own /\ ~act[r].resumed /\ act[r].why = "none" /\ act[r].failures = 0
         /\ ~charged[r] /\ ~Paid(r) /\ upstream[r].state = "none"
BY DEF CalmInv, Flow, Fresh, Unsubmitted, TaskAhead, NoRun

LEMMA NoneIsNoRun == None \notin Runs
BY VideoChargeAssumption DEF Payers

LEMMA CalmStart ==
  ASSUME TypeInv, Calm, CalmInv, NEW r \in Runs, Start(r)
  PROVE  CalmInv'
<1>1. /\ act[r].pc = "idle" /\ act'[r].pc = "load" /\ msg = "queued" /\ msg' = "taken"
      /\ Others(r) /\ \A q \in Runs : ~Alive(q)
      /\ UNCHANGED <<charged, bill, ref, marker, upstream, given, rows, order>>
  BY Goes DEF Start, Calm, money, table, redis, world, At
<1>2. act'[r] = [NoRun EXCEPT !.pc = "load"]
  <2>1. act' = [act EXCEPT ![r] = [act[r] EXCEPT !.pc = "load"]]
    BY DEF Start, Goto
  <2>2. act'[r] = [act[r] EXCEPT !.pc = "load"]
    BY <2>1 DEF TypeInv, TypeOK
  <2> QED BY <1>1, <2>2, EarlyKnowing DEF Early, NoRun
<1>3. \A c \in given : Resumes(c)
  BY <1>1 DEF CalmInv, Delivered, At, Alive
<1> QED BY <1>1, <1>2, <1>3, EarlyStep DEF Early

LEMMA CalmLoad ==
  ASSUME TypeInv, Calm, CalmInv, NEW r \in Runs, Load(r)
  PROVE  CalmInv'
<1> DEFINE s == [act[r] EXCEPT !.pc = "create", !.resumed = TRUE, !.task = ref.task,
                   !.charge = ref.charge, !.key = ref.key, !.failures = ref.failures]
<1>1. /\ act[r].pc = "load"
      /\ UNCHANGED <<charged, bill, ref, marker, upstream, given, msg, rows, order>>
      /\ \/ ref = NoRef /\ Goto(r, "check")
         \/ ref # NoRef /\ act' = [act EXCEPT ![r] = s]
  BY DEF Load, money, table, redis, world, sched, At
<1>2. act[r] \in RunStates /\ act \in [Runs -> RunStates]
  BY RunFields DEF TypeInv, TypeOK
<1>3. /\ act[r] = [NoRun EXCEPT !.pc = act[r].pc]
      /\ act[r].charge = None /\ act[r].key = None /\ act[r].task = None
      /\ ~act[r].own /\ ~act[r].resumed /\ act[r].why = "none" /\ act[r].failures = 0
  BY <1>1, EarlyKnowing DEF Early
<1>4. Alive(r) /\ Flow /\ RefIsTrue /\ Delivered
  BY <1>1 DEF CalmInv, Alive
<1>5. msg = "taken" /\ \A q \in Runs \ {r} : ~Alive(q)
  BY <1>4, OnlyOne DEF Flow
<1>6. \A c \in given : Resumes(c)
  BY <1>1, <1>3, <1>4, <1>5, NoneIsNoRun DEF Delivered, At, Alive
<1>7. CASE ref = NoRef
  <2>1. act' = [act EXCEPT ![r] = [act[r] EXCEPT !.pc = "check"]]
    BY <1>1, <1>7 DEF Goto
  <2>2. Others(r) /\ act'[r] = [act[r] EXCEPT !.pc = "check"]
    BY <1>2, <2>1 DEF Others
  <2>3. act'[r] = [NoRun EXCEPT !.pc = "check"]
    BY <1>3, <2>2 DEF NoRun
  <2>4. given = {}
    BY <1>6, <1>7 DEF Resumes
  <2>5. act'[r].pc = "check"
    BY <2>3 DEF NoRun
  <2> QED BY <1>1, <1>5, <1>7, <2>2, <2>3, <2>4, <2>5, EarlyStep DEF Early
<1>8. CASE ref # NoRef
  <2>1. Others(r) /\ act'[r] = s
    BY <1>1, <1>2, <1>8 DEF Others
  <2>2. /\ s.pc = "create" /\ s.resumed /\ s.task = ref.task /\ s.charge = ref.charge
        /\ s.key = ref.key /\ s.failures = ref.failures /\ s.own = act[r].own
        /\ s.why = act[r].why
    BY <1>2 DEF RunStates
  <2> HIDE DEF s
  <2>3. ref.task \in Runs /\ ref \in Refs
    BY <1>8 DEF TypeInv, TypeOK, Refs
  <2>4. /\ ref.charge \in Runs /\ ref.key = ref.charge /\ charged[ref.charge]
        /\ For(ref.task, ref.charge)
        /\ PaidBack(ref.charge) => ref.task \in marker /\ Rejected(ref.task)
        /\ \A d \in Runs \ {ref.charge} : ~Open(d)
    BY <1>4, <1>8 DEF RefIsTrue
  <2>5. Underway(r)'
    BY <2>1, <2>2 DEF Underway, Alive, Early
  <2>6. Knows(r)'
    <3>1. IdentityAt(r)'
      BY <1>1, <1>3, <2>1, <2>2, <2>3, <2>4, NoneIsNoRun DEF IdentityAt
    <3>2. TaskAt(r)'
      BY <1>1, <1>3, <2>1, <2>2, <2>3, <2>4
         DEF TaskAt, For, VideoLabels, RefundLabels
    <3>3. ref = [task |-> ref.task, charge |-> ref.charge, key |-> ref.key,
                 failures |-> ref.failures]
      BY <1>8, <2>3 DEF Refs
    <3>4. RefAt(r)'
      BY <1>1, <2>1, <2>2, <2>3, <3>3, NoneIsNoRun DEF RefAt, Matches, Detached, RefundLabels
    <3>5. MoneyAt(r)'
      BY <1>1, <2>1, <2>2, <2>4 DEF MoneyAt, Afterwards, PaidBack, Open, Rejected
    <3>6. GivenAt(r)'
      BY <1>1, <1>6, <2>1, <2>2, <2>3, NoneIsNoRun DEF GivenAt, Resumes, Done
    <3> QED BY <3>1, <3>2, <3>4, <3>5, <3>6 DEF Knows
  <2>7. \A c \in given : act'[r].charge = c
    BY <1>6, <2>1, <2>2 DEF Resumes
  <2> QED BY <1>1, <2>1, <2>5, <2>6, <2>7, EnterStep
<1> QED BY <1>7, <1>8

\* An outstanding row is the row of the one open charge.
LEMMA OutstandingIsOpen ==
  ASSUME CalmInv, NEW r \in Runs, act[r].pc = "check"
  PROVE  /\ \A c \in Runs : Outstanding(RowOf(c)) <=> Open(c)
         /\ \A k \in RowKeys : Outstanding(rows[k]) => \E c \in Runs : k = ChargeRow(c)
<1>1. Books /\ Booked /\ \A q \in Runs : Alive(q) => q = r
  BY OnlyOne DEF CalmInv, Flow, Alive
<1>2. ASSUME NEW c \in Runs PROVE Outstanding(RowOf(c)) <=> Open(c)
  <2>1. charged[c] => Exists(RowOf(c))
    BY <1>1 DEF Booked, Alive
  <2>2. PaidBack(c) <=> RowOf(c).status = "refunded"
    BY <1>1 DEF Books, Booked, RowIsTrue, At, Alive
  <2> QED BY <1>1, <2>1, <2>2 DEF Books, RowIsTrue, Outstanding, Open
<1>3. ASSUME NEW k \in RowKeys, Outstanding(rows[k]) PROVE \E c \in Runs : k = ChargeRow(c)
  BY <1>1, <1>3, KeysApart DEF Books, Outstanding, Exists, NoRow
<1> QED BY <1>2, <1>3

LEMMA CalmCheck ==
  ASSUME TypeInv, Calm, CalmInv, NEW r \in Runs, Check(r)
  PROVE  CalmInv'
<1>1. /\ act[r].pc = "check"
      /\ UNCHANGED <<charged, bill, ref, marker, upstream, given, msg, rows, order>>
  BY DEF Check, money, table, redis, world, sched, At
<1>2. act[r] \in RunStates /\ act \in [Runs -> RunStates] /\ order \in Seq(RowKeys)
  BY RunFields DEF TypeInv, TypeOK
<1>3. /\ act[r] = [NoRun EXCEPT !.pc = act[r].pc]
      /\ act[r].charge = None /\ act[r].key = None /\ act[r].task = None
      /\ ~act[r].own /\ ~act[r].resumed /\ act[r].why = "none" /\ act[r].failures = 0
  BY <1>1, EarlyKnowing DEF Early
<1>4. Alive(r) /\ Flow /\ Ledger /\ Books /\ Booked /\ Delivered /\ ref = NoRef
  BY <1>1 DEF CalmInv, Alive, Flow, Starting
<1>5. msg = "taken" /\ \A q \in Runs \ {r} : ~Alive(q)
  BY <1>4, OnlyOne DEF Flow
<1>6. given = {}
  BY <1>1, <1>3, <1>4, <1>5, NoneIsNoRun DEF Delivered, At, Alive
<1>7. CASE ~SomeOutstanding /\ Goto(r, "charge")
  <2>1. \A d \in Runs : ~Open(d)
    <3> SUFFICES ASSUME NEW d \in Runs, Open(d) PROVE FALSE
      OBVIOUS
    <3>1. Outstanding(RowOf(d))
      BY <1>1, OutstandingIsOpen
    <3>2. PICK i \in DOMAIN order : order[i] = ChargeRow(d)
      BY <1>4, <3>1 DEF Books, RowIsTrue, Outstanding
    <3> QED BY <1>7, <3>1, <3>2 DEF SomeOutstanding, RowOf
  <2>2. act' = [act EXCEPT ![r] = [act[r] EXCEPT !.pc = "charge"]]
    BY <1>7 DEF Goto
  <2>3. Others(r) /\ act'[r] = [act[r] EXCEPT !.pc = "charge"]
    BY <1>2, <2>2 DEF Others
  <2>4. act'[r] = [NoRun EXCEPT !.pc = "charge"]
    BY <1>3, <2>3 DEF NoRun
  <2>5. act'[r].pc = "charge"
    BY <2>4 DEF NoRun
  <2> QED BY <1>1, <1>4, <1>5, <1>6, <2>1, <2>3, <2>4, <2>5, EarlyStep DEF Early
<1>8. ASSUME NEW i \in DOMAIN order, IsLatestOutstanding(i),
             act' = [act EXCEPT ![r] = [act[r] EXCEPT !.pc = "create",
                       !.charge = ChargeOfRow(order[i]), !.key = KeyOfRow(order[i])]]
      PROVE  CalmInv'
  <2> DEFINE s == [act[r] EXCEPT !.pc = "create", !.charge = ChargeOfRow(order[i]),
                                 !.key = KeyOfRow(order[i])]
  <2>1. order[i] \in RowKeys /\ Outstanding(rows[order[i]])
    BY <1>2, <1>8 DEF IsLatestOutstanding
  <2>2. PICK c \in Runs : order[i] = ChargeRow(c)
    BY <1>1, <2>1, OutstandingIsOpen
  <2>3. Open(c)
    BY <1>1, <2>1, <2>2, OutstandingIsOpen DEF RowOf
  <2>4. ChargeOfRow(order[i]) = c /\ KeyOfRow(order[i]) = c
    BY <2>2 DEF ChargeOfRow, KeyOfRow, ChargeRow
  <2>5. Others(r) /\ act'[r] = s
    BY <1>2, <1>8 DEF Others
  <2>6. /\ s.pc = "create" /\ s.charge = c /\ s.key = c /\ s.task = act[r].task
        /\ s.own = act[r].own /\ s.resumed = act[r].resumed /\ s.why = act[r].why
    BY <1>2, <2>4 DEF RunStates
  <2> HIDE DEF s
  <2>7. \A d \in Runs \ {c} : ~Open(d)
    BY <1>4, <2>3 DEF Ledger, OneOutstandingCharge, Open
  <2>8. Underway(r)'
    BY <2>5, <2>6 DEF Underway, Alive, Early
  <2>9. Knows(r)'
    <3>1. IdentityAt(r)'
      BY <1>1, <1>3, <2>3, <2>5, <2>6 DEF IdentityAt, Open
    <3>2. TaskAt(r)' /\ RefAt(r)'
      BY <1>1, <1>3, <1>4, <2>5, <2>6
         DEF TaskAt, RefAt, VideoLabels, RefundLabels, Detached
    <3>3. MoneyAt(r)'
      BY <1>1, <2>3, <2>5, <2>6, <2>7 DEF MoneyAt, Afterwards, PaidBack, Open
    <3>4. GivenAt(r)'
      BY <1>1, <1>6, <2>5, <2>6 DEF GivenAt
    <3> QED BY <3>1, <3>2, <3>3, <3>4 DEF Knows
  <2> QED BY <1>1, <1>6, <2>5, <2>8, <2>9, EnterStep
<1> QED BY <1>7, <1>8 DEF Check

LEMMA CalmCharge ==
  ASSUME TypeInv, Calm, CalmInv, NEW r \in Runs, Charge(r)
  PROVE  CalmInv'
<1> DEFINE s == [act[r] EXCEPT !.pc = "recordCharge", !.own = TRUE, !.charge = r, !.key = r]
<1>1. /\ act[r].pc = "charge"
      /\ UNCHANGED <<bill, ref, marker, upstream, given, msg, rows, order>>
      /\ \/ charged' = [charged EXCEPT ![r] = TRUE] /\ act' = [act EXCEPT ![r] = s]
         \/ UNCHANGED charged /\ End(r, "retry")
  BY DEF Charge, table, redis, world, sched, At
<1>2. act[r] \in RunStates /\ act \in [Runs -> RunStates] /\ charged \in [Runs -> BOOLEAN]
  BY RunFields DEF TypeInv, TypeOK
<1>3. /\ act[r].charge = None /\ act[r].key = None /\ act[r].task = None
      /\ ~act[r].own /\ ~act[r].resumed /\ act[r].why = "none"
      /\ ~charged[r] /\ ~Paid(r) /\ upstream[r].state = "none"
  BY <1>1, EarlyKnowing DEF Early
<1>4. /\ Alive(r) /\ Flow /\ Ledger /\ Books /\ Booked /\ Delivered /\ ref = NoRef
      /\ \A d \in Runs : ~Open(d)
  BY <1>1 DEF CalmInv, Alive, Flow, Starting
<1>5. msg = "taken" /\ \A q \in Runs \ {r} : ~Alive(q)
  BY <1>4, OnlyOne DEF Flow
<1>6. given = {}
  BY <1>1, <1>3, <1>4, <1>5, NoneIsNoRun DEF Delivered, At, Alive
<1>7. ~PaidBack(r)
  <2> SUFFICES ASSUME NEW p \in Payers, bill[p].charge = r PROVE FALSE
    BY DEF PaidBack
  <2>1. p \in Runs /\ Paid(p)
    BY NoneIsNoRun DEF Calm, Payers, Paid
  <2> QED BY <1>3, <1>4, <2>1 DEF Ledger, Repaid
<1>8. CASE charged' = [charged EXCEPT ![r] = TRUE] /\ act' = [act EXCEPT ![r] = s]
  <2>1. Others(r) /\ act'[r] = s
    BY <1>2, <1>8 DEF Others
  <2>2. /\ s.pc = "recordCharge" /\ s.own /\ s.charge = r /\ s.key = r
        /\ s.task = act[r].task /\ s.resumed = act[r].resumed /\ s.why = act[r].why
    BY <1>2 DEF RunStates
  <2> HIDE DEF s
  <2>3. charged'[r] /\ \A d \in Runs \ {r} : charged'[d] = charged[d]
    BY <1>2, <1>8
  <2>4. \A c : PaidBack(c)' <=> PaidBack(c)
    BY <1>1, SameBills
  <2>5. \A d \in Runs \ {r} : ~Open(d)'
    BY <1>4, <2>3, <2>4 DEF Open
  <2>6. Flow'
    <3>1. Serial' /\ Fresh'
      BY <1>1, <1>4, <1>5, <2>1, <2>2, <2>3
         DEF Serial, Fresh, Flow, Others, Alive, Early, Paid
    <3>2. Unsubmitted' /\ Starting'
      BY <1>1, <1>3, <1>4, <1>5, <2>1, <2>2
         DEF Unsubmitted, Starting, Flow, TaskAhead, Others, Alive
    <3> QED BY <3>1, <3>2 DEF Flow
  <2>7. Ledger'
    <3>1. Marked'
      BY <1>1, <1>4, <2>1, <2>4 DEF Ledger, Marked, Others
    <3>2. Repaid'
      <4>1. \A p \in Runs : Paid(p) => bill[p].charge \in Runs
        BY DEF TypeInv, TypeOK, Bills, MaybeRun, Paid, Payers
      <4> QED BY <1>1, <1>3, <1>4, <2>1, <2>3, <4>1
              DEF Ledger, Repaid, RefundOncePerCharge, Paid, Others
    <3>3. OneOutstandingCharge'
      BY <2>5 DEF OneOutstandingCharge, Open
    <3> QED BY <3>1, <3>2, <3>3 DEF Ledger
  <2>8. Books' /\ Booked'
    <3>1. \A c : RowOf(c)' = RowOf(c)
      BY <1>1 DEF RowOf
    <3>2. Books'
      BY <1>1, <1>4, <2>3, <2>4, <3>1 DEF Books, RowIsTrue, For
    <3>3. Booked'
      BY <1>1, <1>4, <2>1, <2>2, <2>3, <2>4, <3>1 DEF Booked, At, Others
    <3> QED BY <3>2, <3>3
  <2>9. RefIsTrue' /\ Delivered'
    BY <1>1, <1>4, <1>6 DEF RefIsTrue, Delivered
  <2>10. Knows(r)'
    <3>1. IdentityAt(r)'
      BY <1>3, <2>1, <2>2, <2>3 DEF IdentityAt
    <3>2. TaskAt(r)' /\ RefAt(r)'
      BY <1>1, <1>3, <1>4, <2>1, <2>2
         DEF TaskAt, RefAt, VideoLabels, RefundLabels, Detached
    <3>3. MoneyAt(r)'
      BY <1>1, <1>7, <2>1, <2>2, <2>5 DEF MoneyAt, PaidBack
    <3>4. GivenAt(r)'
      BY <1>1, <1>6, <2>1, <2>2 DEF GivenAt
    <3> QED BY <3>1, <3>2, <3>3, <3>4 DEF Knows
  <2>11. RunKnows'
    BY <1>4, <2>1, <2>10, OthersKnow
  <2> QED BY <2>6, <2>7, <2>8, <2>9, <2>11 DEF CalmInv
<1>9. CASE UNCHANGED charged /\ End(r, "retry")
  <2>1. act'[r].pc = "ended" /\ act'[r].outcome = "retry" /\ Kept(r) /\ Others(r)
    BY <1>9, Stops
  <2>2. Underway(r)'
    BY <2>1 DEF Underway, Alive, Early
  <2>3. Knows(r)'
    <3>1. IdentityAt(r)'
      BY <1>3, <2>1, NoneIsNoRun DEF IdentityAt, Kept
    <3>2. TaskAt(r)' /\ RefAt(r)'
      BY <1>1, <1>3, <1>4, <2>1
         DEF TaskAt, RefAt, VideoLabels, RefundLabels, Detached, Kept
    <3>3. MoneyAt(r)'
      BY <1>1, <1>3, <1>4, <1>9, <2>1 DEF MoneyAt, PaidBack, Afterwards, Open, Kept
    <3>4. GivenAt(r)'
      BY <1>1, <1>6, <2>1 DEF GivenAt, Kept
    <3> QED BY <3>1, <3>2, <3>3, <3>4 DEF Knows
  <2> QED BY <1>1, <1>6, <1>9, <2>1, <2>2, <2>3, EnterStep
<1> QED BY <1>1, <1>8, <1>9
-----------------------------------------------------------------------------
(* The queue's side *)

\* The run is over; another one comes only if the message is queued again.
LEMMA LeaveStep ==
  ASSUME TypeInv, CalmInv, NEW r \in Runs, Alive(r), Goto(r, "over"),
         UNCHANGED <<charged, bill, marker, upstream, given, rows, order>>,
         ref' \in {ref, NoRef},
         act[r].pc \notin {"recordCharge", "recordRefund", "pay", "unmark"},
         msg' = "gone" \/ (msg' = "queued" /\ \A c \in given : Resumes(c)')
  PROVE  CalmInv'
<1>1. act'[r].pc = "over" /\ Kept(r) /\ Others(r)
  BY Goes
<1>2. Flow /\ Ledger /\ Books /\ Booked /\ RefIsTrue /\ Delivered
  BY DEF CalmInv
<1>3. \A q \in Runs : ~Alive(q)'
  BY <1>1, <1>2, OnlyOne DEF Flow, Alive, Others
<1>4. Serial' /\ RunKnows'
  BY <1>3 DEF Serial, RunKnows, Underway
<1>5. Fresh' /\ Unsubmitted' /\ Starting'
  BY <1>1, <1>2, <1>3 DEF Flow, Fresh, Unsubmitted, Starting, TaskAhead, Others, Early, Paid, Alive
<1>6. Ledger' /\ Books' /\ Booked' /\ RefIsTrue'
  BY <1>1, <1>2, LedgerKept, BooksKept, RefKept DEF Afterwards
<1>7. Delivered'
  BY <1>2, SameBills DEF Delivered
<1> QED BY <1>4, <1>5, <1>6, <1>7 DEF CalmInv, Flow

LEMMA CalmFinish ==
  ASSUME TypeInv, Calm, CalmInv, NEW r \in Runs, Finish(r)
  PROVE  CalmInv'
<1>1. /\ act[r].pc = "ended" /\ Goto(r, "over")
      /\ UNCHANGED <<charged, bill, marker, upstream, given, rows, order>>
      /\ ref' \in {ref, NoRef}
      /\ \/ msg' = "gone"
         \/ msg' = "queued" /\ act[r].outcome = "retry" /\ UNCHANGED ref
  BY DEF Finish, money, table, world, At, Goto, DeleteRef
<1>2. Underway(r) /\ Alive(r)
  BY <1>1 DEF Underway, Alive, Early
<1>3. Knows(r) /\ Flow /\ Delivered
  BY <1>2, Knowing
<1>4. ASSUME msg' = "queued", NEW c \in given PROVE Resumes(c)'
  <2>1. msg = "taken" /\ \A q \in Runs \ {r} : ~Alive(q)
    BY <1>2, <1>3, OnlyOne DEF Flow
  <2>2. c \in Runs /\ act[r].charge = c
    BY <1>1, <1>3, <2>1 DEF Delivered, At, Alive
  <2>3. Matches(r) /\ Done(act[r].task) /\ act[r].task # None
    BY <1>1, <1>3, <1>4, <2>2, NoneIsNoRun DEF Knows, RefAt, GivenAt
  <2>4. ref # NoRef /\ ref.charge = c /\ Done(ref.task)
    BY <2>2, <2>3 DEF Matches, NoRef
  <2>5. Done(ref.task)'
    BY <1>1, <1>4, <2>4 DEF Done
  <2> QED BY <1>1, <1>4, <2>4, <2>5 DEF Resumes
<1>5. msg' = "gone" \/ (msg' = "queued" /\ \A c \in given : Resumes(c)')
  BY <1>1, <1>4
<1>6. act[r].pc \notin {"recordCharge", "recordRefund", "pay", "unmark"}
  BY <1>1
<1> QED BY <1>1, <1>2, <1>5, <1>6, LeaveStep

LEMMA CalmCrash ==
  ASSUME TypeInv, Calm, CalmInv, NEW r \in Runs, Crash(r)
  PROVE  CalmInv'
<1>1. /\ Alive(r) /\ act[r].pc \notin Unrecorded /\ Goto(r, "over")
      /\ UNCHANGED <<charged, bill, ref, marker, upstream, given, rows, order>>
      /\ msg' = IF msg = "taken" THEN "queued" ELSE msg
  BY DEF Crash, Calm, money, table, redis, world
<1>2. Flow /\ Delivered
  BY DEF CalmInv
<1>3. msg = "taken" /\ \A q \in Runs \ {r} : ~Alive(q)
  BY <1>1, <1>2, OnlyOne DEF Flow
<1>4. ASSUME NEW c \in given PROVE Resumes(c)
  <2>1. c \in Runs /\ (Resumes(c) \/ act[r].charge = c)
    BY <1>2, <1>3 DEF Delivered, At, Alive
  <2>2. CASE act[r].charge = c
    <3>1. Underway(r)
      BY <1>1, <2>1, <2>2, EarlyKnowing, NoneIsNoRun DEF Underway
    <3>2. Knows(r)
      BY <3>1, Knowing
    <3>3. /\ act[r].task # None /\ Done(act[r].task)
          /\ act[r].resumed \/ act[r].pc \in {"recordDelivered", "clearRef"}
      BY <1>1, <2>2, <3>2 DEF Knows, GivenAt, Unrecorded
    <3>4. ~Detached(r)
      BY <1>1, <3>2, <3>3
         DEF Knows, IdentityAt, TaskAt, Detached, RefundLabels, Unrecorded, Done, Rejected
    <3>5. Matches(r)
      BY <1>1, <3>2, <3>3, <3>4 DEF Knows, RefAt, Unrecorded
    <3> QED BY <2>2, <3>3, <3>5 DEF Matches, Resumes, NoRef
  <2> QED BY <2>1, <2>2
<1>5. ASSUME NEW c \in given PROVE Resumes(c)'
  BY <1>1, <1>4, <1>5 DEF Resumes, Done
<1>6. act[r].pc \notin {"recordCharge", "recordRefund", "pay", "unmark"}
  BY <1>1 DEF Unrecorded
<1> QED BY <1>1, <1>3, <1>5, <1>6, LeaveStep

\* The queue gives the message up.
LEMMA CalmGone ==
  ASSUME TypeInv, CalmInv, RefusePlan \/ SkipDone
  PROVE  CalmInv'
<1>1. /\ msg = "queued" /\ msg' = "gone"
      /\ UNCHANGED <<act, charged, bill, ref, marker, upstream, given, rows, order>>
  BY DEF RefusePlan, SkipDone, money, table, redis, world
<1>2. \A q \in Runs : ~Alive(q)
  BY <1>1 DEF CalmInv, Flow, Serial
<1>3. Flow'
  BY <1>1, <1>2 DEF CalmInv, Flow, Serial, Fresh, Unsubmitted, Starting, TaskAhead, Alive, Paid,
        Open, PaidBack
<1>4. Ledger'
  BY <1>1, SameBills DEF CalmInv, Ledger, Marked, Repaid, RefundOncePerCharge,
        OneOutstandingCharge, Paid
<1>5. Books' /\ Booked'
  <2>1. \A c : RowOf(c)' = RowOf(c)
    BY <1>1 DEF RowOf
  <2> QED BY <1>1, <2>1, SameBills DEF CalmInv, Books, Booked, RowIsTrue, For, At
<1>6. RefIsTrue'
  BY <1>1, RefKept DEF CalmInv
<1>7. Delivered' /\ RunKnows'
  BY <1>1, <1>2, SameBills DEF CalmInv, Delivered, RunKnows, Underway, Alive
<1> QED BY <1>3, <1>4, <1>5, <1>6, <1>7 DEF CalmInv

LEMMA CalmStutters ==
  ASSUME CalmInv, UNCHANGED vars
  PROVE  CalmInv'
<1>1. UNCHANGED <<act, charged, bill, ref, marker, upstream, given, rows, order, msg>>
  BY DEF vars
<1>2. /\ \A c : RowOf(c)' = RowOf(c) /\ (PaidBack(c)' <=> PaidBack(c))
      /\ \A c : Open(c)' <=> Open(c)
  BY <1>1, SameBills, SameMoney DEF RowOf
<1>3. Flow' /\ Ledger'
  BY <1>1, <1>2 DEF CalmInv, Flow, Serial, Fresh, Unsubmitted, Starting, TaskAhead, Alive, Paid,
        Ledger, Marked, Repaid, RefundOncePerCharge, OneOutstandingCharge
<1>4. Books' /\ Booked' /\ RefIsTrue' /\ Delivered'
  BY <1>1, <1>2, RefKept
     DEF CalmInv, Books, Booked, RowIsTrue, For, At, Delivered, Resumes, Done, Alive
<1>5. RunKnows'
  <2> SUFFICES ASSUME NEW r \in Runs, Underway(r)' PROVE Knows(r)'
    BY DEF RunKnows
  <2>1. Knows(r)
    BY <1>1 DEF CalmInv, RunKnows, Underway, Alive
  <2>2. IdentityAt(r)' /\ TaskAt(r)' /\ RefAt(r)' /\ GivenAt(r)'
    BY <1>1, <2>1 DEF Knows, IdentityAt, TaskAt, RefAt, GivenAt, For, Done, Rejected, Matches,
          Detached
  <2>3. MoneyAt(r)'
    BY <1>1, <2>1 DEF Knows, MoneyAt, PaidBack, Open, Rejected
  <2> QED BY <2>1, <2>2, <2>3 DEF Knows
<1> QED BY <1>3, <1>4, <1>5 DEF CalmInv
-----------------------------------------------------------------------------
(* The invariant is inductive *)

\* Without a watchdog nobody wakes.
Asleep == dog.pc = "idle"

LEMMA CalmInit ==
  ASSUME Init
  PROVE  CalmInv /\ Asleep
<1>1. /\ \A r \in Runs : act[r] = NoRun /\ ~charged[r] /\ upstream[r].state = "none"
      /\ \A p \in Payers : bill[p] = NoBill
      /\ \A k \in RowKeys : rows[k] = NoRow
      /\ ref = NoRef /\ marker = {} /\ given = {} /\ order = <<>>
  BY DEF Init
<1>2. NoRun.pc = "idle" /\ NoBill.charge = None
      /\ NoRow.status = "absent" /\ NoRow.task = None /\ NoRow.refunded = FALSE
  BY DEF NoRun, NoBill, NoRow
<1>3. \A p \in Payers : ~Paid(p)
  BY <1>1, <1>2 DEF Paid
<1>4. \A c \in Runs : ~PaidBack(c) /\ ~Open(c)
  BY <1>1, <1>2, NoneIsNoRun DEF PaidBack, Open
<1>5. \A r \in Runs : ~Alive(r)
  BY <1>1, <1>2 DEF Alive
<1>6. Fresh
  BY <1>1, <1>2, <1>3 DEF Fresh, NoRun, Payers
<1>7. Serial /\ Unsubmitted /\ Starting /\ RunKnows
  BY <1>1, <1>2, <1>5 DEF Serial, Unsubmitted, Starting, RunKnows, Underway
<1>8. Ledger
  BY <1>1, <1>3 DEF Ledger, Marked, Repaid, RefundOncePerCharge, OneOutstandingCharge, Payers
<1>9. \A c \in Runs : RowOf(c) = NoRow
  BY <1>1, KeysApart DEF RowOf
<1>10. Books /\ Booked
  BY <1>1, <1>2, <1>4, <1>9, KeysApart DEF Books, Booked, RowIsTrue, Exists
<1>11. RefIsTrue /\ Delivered
  BY <1>1 DEF RefIsTrue, Delivered
<1>12. Asleep
  BY DEF Init, Asleep, NoDog
<1> QED BY <1>6, <1>7, <1>8, <1>10, <1>11, <1>12 DEF CalmInv, Flow

LEMMA CalmRunStep ==
  ASSUME TypeInv, Calm, CalmInv, NEW r \in Runs, RunStep(r)
  PROVE  CalmInv'
<1>1. CASE Load(r) \/ Check(r) \/ Charge(r) \/ RecordLocalCharge(r) \/ Create(r)
           \/ SaveTaskRef(r) \/ SubmittedHook(r) \/ Poll(r)
  BY <1>1, CalmLoad, CalmCheck, CalmCharge, CalmRecordLocalCharge, CalmCreate,
     CalmSaveTaskRef, CalmSubmittedHook, CalmPoll
<1>2. CASE RecordFailure(r) \/ TakeRef(r) \/ AskRefunded(r) \/ Mark(r) \/ Pay(r)
           \/ Unmark(r) \/ Restore(r) \/ RecordRefund(r) \/ Consume(r)
  BY <1>2, CalmRecordFailure, CalmTakeRef, CalmAskRefunded, CalmMark, CalmPay,
     CalmUnmark, CalmRestore, CalmRecordRefund, CalmConsume
<1>3. CASE Download(r) \/ CountFailure(r) \/ Abandon(r) \/ RecordAbandon(r)
           \/ RecordGeneration(r) \/ RecordDelivered(r) \/ ClearRef(r) \/ Finish(r)
  BY <1>3, CalmDownload, CalmCountFailure, CalmAbandon, CalmRecordAbandon,
     CalmRecordGeneration, CalmRecordDelivered, CalmClearRef, CalmFinish
<1> QED BY <1>1, <1>2, <1>3 DEF RunStep

\* What can still happen in a calm world.
CalmNext ==
  \/ \E r \in Runs : Start(r) \/ RunStep(r) \/ Crash(r)
  \/ RefusePlan \/ SkipDone

LEMMA CalmSteps ==
  ASSUME Calm, Asleep, Next
  PROVE  CalmNext
BY DEF Next, CalmNext, Calm, Asleep, Redeliver, Overlapping, Sweep, Judge, Close

LEMMA CalmStep == Calm /\ TypeInv /\ Asleep /\ CalmInv /\ [Next]_vars => CalmInv' /\ Asleep'
<1> SUFFICES ASSUME Calm, TypeInv, Asleep, CalmInv, [Next]_vars PROVE CalmInv' /\ Asleep'
  OBVIOUS
<1>1. CASE CalmNext
  <2>1. CalmInv'
    BY <1>1, CalmStart, CalmRunStep, CalmCrash, CalmGone DEF CalmNext
  <2>2. UNCHANGED dog
    BY <1>1 DEF CalmNext, Start, RunStep, Crash, RefusePlan, SkipDone, Load, Check, Charge,
       RecordLocalCharge, Create, SaveTaskRef, SubmittedHook, Poll, RecordFailure, TakeRef,
       AskRefunded, Mark, Pay, Unmark, Restore, RecordRefund, Consume, Download,
       CountFailure, Abandon, RecordAbandon, RecordGeneration, RecordDelivered, ClearRef,
       Finish, sched
  <2> QED BY <2>1, <2>2 DEF Asleep
<1>2. CASE UNCHANGED vars
  BY <1>2, CalmStutters DEF Asleep, vars
<1> QED BY <1>1, <1>2, CalmSteps

\* The calm world keeps its books: the invariant of everything below.
THEOREM CalmHolds ==
  ASSUME Calm
  PROVE  Spec => [](TypeInv /\ CalmInv)
<1>1. Init => RowKnown
  BY DEF Init, RowKnown
<1>2. Init => CalmInv /\ Asleep
  BY CalmInit
<1>3. TypeInv /\ Asleep /\ CalmInv /\ [Next]_vars => CalmInv' /\ Asleep'
  BY CalmStep
<1> QED BY <1>1, <1>2, <1>3, TypeInit, TypeStep, RowKnownStep, PTL DEF Spec
-----------------------------------------------------------------------------
(* The promises *)

\* billing/doc.go, first hard rule (refundCharge, asyncresume.go): however many
\* runs crash, resume the task or find the charge, and however often a payment
\* fails, the credits of a charge come back at most once.
THEOREM ChargeReturnedOnce ==
  ASSUME Calm
  PROVE  Spec => []RefundOncePerCharge
<1>1. CalmInv => RefundOncePerCharge
  BY DEF CalmInv, Ledger, Repaid
<1> QED BY <1>1, CalmHolds, PTL

\* billing/doc.go, second hard rule: a charge whose video reached the user
\* (RecordGeneration) is not returned, before or after.
THEOREM DeliveredStaysPaid ==
  ASSUME Calm
  PROVE  Spec => []DeliveredNeverRefunded
<1>1. CalmInv => DeliveredNeverRefunded
  BY DEF CalmInv, Delivered, DeliveredNeverRefunded
<1> QED BY <1>1, CalmHolds, PTL

\* VideoExecutor.Execute, the reuse branch: of two charges of a node one has
\* been returned.
THEOREM ChargedOnceAtATime ==
  ASSUME Calm
  PROVE  Spec => []OneOutstandingCharge
<1>1. CalmInv => OneOutstandingCharge
  BY DEF CalmInv, Ledger
<1> QED BY <1>1, CalmHolds, PTL

\* recordProviderTask after refundCharge: a row that says refunded stands for
\* credits that were returned.
THEOREM RefundedRowsArePaid ==
  ASSUME Calm
  PROVE  Spec => []RefundedMeansPaid
<1>1. CalmInv => RefundedMeansPaid
  <2> SUFFICES ASSUME CalmInv, NEW k \in RowKeys, rows[k].status = "refunded"
               PROVE  PaidBack(ChargeOfRow(k))
    BY DEF RefundedMeansPaid
  <2>1. PICK c \in Runs : k = ChargeRow(c) \/ k = TaskRow(c)
    BY KeysApart
  <2>2. k # TaskRow(c)
    BY DEF CalmInv, Books, NoRow
  <2>3. ChargeOfRow(k) = c
    BY <2>1, <2>2 DEF ChargeOfRow, ChargeRow
  <2> QED BY <2>1, <2>2, <2>3 DEF CalmInv, Books, RowIsTrue, RowOf
<1> QED BY <1>1, CalmHolds, PTL
-----------------------------------------------------------------------------
(* The life of a charge *)

\* The state of a charge in the abstract specification.
LEMMA FateOf ==
  ASSUME NEW c
  PROVE  /\ PaidBack(c) => StateOfCharge(c) = "returned"
         /\ ~PaidBack(c) /\ c \in given => StateOfCharge(c) = "delivered"
         /\ ~PaidBack(c) /\ c \notin given /\ charged[c] => StateOfCharge(c) = "open"
         /\ ~PaidBack(c) /\ c \notin given /\ ~charged[c] => StateOfCharge(c) = "none"
BY Zenon DEF StateOfCharge

Paying == {p \in Payers : Paid(p)}
Charged == {c \in Runs : charged[c]}
Fate == [c \in Runs |-> StateOfCharge(c)]

LEMMA FiniteMoney ==
  ASSUME IsFiniteSet(Runs), Calm
  PROVE  /\ IsFiniteSet(Paying) /\ Cardinality(Paying) \in Nat
         /\ IsFiniteSet(Charged) /\ Cardinality(Charged) \in Nat
<1>1. Paying \in SUBSET Runs /\ Charged \in SUBSET Runs
  BY DEF Paying, Charged, Payers, Calm
<1>2. IsFiniteSet(Paying) /\ IsFiniteSet(Charged)
  BY <1>1, FS_Subset
<1> QED BY <1>2, FS_CardinalityType

\* A charge that changes its fate alone changes the function of fates there.
LEMMA FateMoves ==
  ASSUME NEW c \in Runs, \A d \in Runs \ {c} : (PaidBack(d)' <=> PaidBack(d))
                            /\ (d \in given' <=> d \in given) /\ (charged'[d] <=> charged[d])
  PROVE  Fate' = [Fate EXCEPT ![c] = StateOfCharge(c)']
<1>1. ASSUME NEW d \in Runs \ {c} PROVE StateOfCharge(d)' = StateOfCharge(d)
  <2>1. (PaidBack(d)' <=> PaidBack(d)) /\ (d \in given' <=> d \in given)
        /\ (charged'[d] <=> charged[d])
    OBVIOUS
  <2>2. /\ PaidBack(d)' => StateOfCharge(d)' = "returned"
        /\ ~PaidBack(d)' /\ d \in given' => StateOfCharge(d)' = "delivered"
        /\ ~PaidBack(d)' /\ d \notin given' /\ charged'[d] => StateOfCharge(d)' = "open"
        /\ ~PaidBack(d)' /\ d \notin given' /\ ~charged'[d] => StateOfCharge(d)' = "none"
    BY Zenon DEF StateOfCharge
  <2> QED BY <2>1, <2>2, FateOf
<1> QED BY <1>1 DEF Fate

LEMMA SameFate ==
  ASSUME UNCHANGED <<charged, bill, given>>
  PROVE  Fate' = Fate /\ Balance' = Balance
BY DEF Fate, StateOfCharge, PaidBack, Balance, Paid

\* Charge: the user pays.
LEMMA ChargeTakes ==
  ASSUME IsFiniteSet(Runs), TypeInv, Calm, CalmInv, NEW r \in Runs, Charge(r),
         charged' # charged
  PROVE  /\ Fate[r] = "none" /\ \A d \in Runs : Fate[d] \in {"none", "returned"}
         /\ Fate' = [Fate EXCEPT ![r] = "open"]
         /\ Balance' = Balance - 1
<1>1. act[r].pc = "charge" /\ charged' = [charged EXCEPT ![r] = TRUE] /\ UNCHANGED <<bill, given>>
  BY DEF Charge, world, At
<1>2. ~charged[r] /\ act[r].charge = None
  BY <1>1, EarlyKnowing DEF Early
<1>3. Alive(r) /\ Flow /\ Ledger /\ Delivered /\ \A d \in Runs : ~Open(d)
  BY <1>1 DEF CalmInv, Alive, Flow, Starting
<1>4. msg = "taken" /\ \A q \in Runs \ {r} : ~Alive(q)
  BY <1>3, OnlyOne DEF Flow
<1>5. given = {}
  BY <1>1, <1>2, <1>3, <1>4, NoneIsNoRun DEF Delivered, At, Alive
<1>6. ~PaidBack(r)
  <2> SUFFICES ASSUME NEW p \in Payers, bill[p].charge = r PROVE FALSE
    BY DEF PaidBack
  <2>1. p \in Runs /\ Paid(p)
    BY NoneIsNoRun DEF Calm, Payers, Paid
  <2> QED BY <1>2, <1>3, <2>1 DEF Ledger, Repaid
<1>7. charged \in [Runs -> BOOLEAN]
  BY DEF TypeInv, TypeOK
<1>8. \A c : PaidBack(c)' <=> PaidBack(c)
  BY <1>1, SameBills
<1>9. Fate[r] = "none" /\ \A d \in Runs : Fate[d] \in {"none", "returned"}
  <2>1. StateOfCharge(r) = "none"
    BY <1>2, <1>5, <1>6, FateOf
  <2>2. \A d \in Runs : StateOfCharge(d) \in {"none", "returned"}
    BY <1>3, <1>5, FateOf DEF Open
  <2> QED BY <2>1, <2>2 DEF Fate
<1>10. Fate' = [Fate EXCEPT ![r] = "open"]
  <2>1. charged'[r] /\ \A d \in Runs \ {r} : charged'[d] = charged[d]
    BY <1>1, <1>7
  <2>2. ~PaidBack(r)' /\ r \notin given'
    BY <1>1, <1>5, <1>6, <1>8
  <2>3. StateOfCharge(r)' = "open"
    BY <2>1, <2>2, Zenon DEF StateOfCharge
  <2>4. \A d \in Runs \ {r} : (PaidBack(d)' <=> PaidBack(d))
           /\ (d \in given' <=> d \in given) /\ (charged'[d] <=> charged[d])
    BY <1>1, <1>8, <2>1
  <2> QED BY <2>3, <2>4, FateMoves
<1>11. Balance' = Balance - 1
  <2>1. Paying' = Paying
    BY <1>1 DEF Paying, Paid
  <2>2. Charged' = Charged \cup {r} /\ r \notin Charged
    BY <1>1, <1>2, <1>7 DEF Charged
  <2>3. Cardinality(Charged') = Cardinality(Charged) + 1
    BY <2>2, FiniteMoney, FS_AddElement
  <2>4. Balance = Cardinality(Paying) - Cardinality(Charged)
        /\ Balance' = Cardinality(Paying') - Cardinality(Charged')
    BY DEF Balance, Paying, Charged
  <2> QED BY <2>1, <2>3, <2>4, FiniteMoney
<1> QED BY <1>9, <1>10, <1>11

\* RecordGeneration: the user has the video.
LEMMA GenerationDelivers ==
  ASSUME TypeInv, Calm, CalmInv, NEW r \in Runs, RecordGeneration(r), given' # given
  PROVE  \E c \in Runs :
           /\ Fate[c] = "open" /\ Fate' = [Fate EXCEPT ![c] = "delivered"]
           /\ Balance' = Balance
<1>1. /\ act[r].pc = "history" /\ given' = given \cup {act[r].charge}
      /\ UNCHANGED <<charged, bill>>
  BY DEF RecordGeneration, money, At
<1>2. Knows(r)
  BY <1>1, Knowing DEF Underway, Alive, Early
<1>3. PICK c \in Runs : c = act[r].charge
  BY <1>1, <1>2 DEF Knows, IdentityAt
<1>4. charged[c] /\ ~PaidBack(c) /\ c \notin given
  <2>1. Done(act[r].task) /\ charged[c]
    BY <1>1, <1>2, <1>3 DEF Knows, IdentityAt, TaskAt, VideoLabels
  <2>2. ~PaidBack(c)
    BY <1>1, <1>2, <1>3, <2>1 DEF Knows, MoneyAt, Afterwards, Done, Rejected
  <2> QED BY <1>1, <1>3, <2>1, <2>2
<1>5. \A x : PaidBack(x)' <=> PaidBack(x)
  BY <1>1, SameBills
<1>6. StateOfCharge(c) = "open"
  BY <1>4, FateOf
<1>7. StateOfCharge(c)' = "delivered"
  <2>1. ~PaidBack(c)' /\ c \in given'
    BY <1>1, <1>3, <1>4, <1>5
  <2> QED BY <2>1, Zenon DEF StateOfCharge
<1>8. Fate' = [Fate EXCEPT ![c] = "delivered"]
  BY <1>1, <1>3, <1>5, <1>7, FateMoves
<1>9. Balance' = Balance
  BY <1>1 DEF Balance, Paid
<1> QED BY <1>6, <1>8, <1>9 DEF Fate

\* Pay: the credits come back.
LEMMA PayReturns ==
  ASSUME IsFiniteSet(Runs), TypeInv, Calm, CalmInv, NEW r \in Runs, Pay(r), bill' # bill
  PROVE  \E c \in Runs :
           /\ Fate[c] = "open" /\ Fate' = [Fate EXCEPT ![c] = "returned"]
           /\ Balance' = Balance + 1
<1> DEFINE b == [charge |-> act[r].charge, task |-> act[r].task,
                 key |-> IF act[r].resumed THEN None ELSE act[r].key]
<1>1. act[r].pc = "pay" /\ bill' = [bill EXCEPT ![r] = b] /\ UNCHANGED <<charged, given>>
  BY DEF Pay, world, At
<1>2. Knows(r)
  BY <1>1, Knowing DEF Underway, Alive, Early
<1>3. PICK c \in Runs : c = act[r].charge
  BY <1>1, <1>2 DEF Knows, IdentityAt
<1>4. charged[c] /\ ~PaidBack(c)
  BY <1>1, <1>2, <1>3 DEF Knows, IdentityAt, MoneyAt
<1>5. c \notin given
  BY <1>1, <1>2, <1>3 DEF Knows, GivenAt, TaskAt, RefundLabels, Done, Rejected
<1>6. bill \in [Payers -> Bills] /\ r \in Payers /\ b.charge = c
  BY <1>3 DEF TypeInv, TypeOK, Payers
<1> HIDE DEF b
<1>7. bill'[r].charge = c /\ \A p \in Payers \ {r} : bill'[p] = bill[p]
  BY <1>1, <1>6
<1>8. ~Paid(r)
  BY <1>1 DEF CalmInv, Ledger, Repaid, Afterwards
<1>9. PaidBack(c)'
  BY <1>6, <1>7 DEF PaidBack
<1>10. ASSUME NEW d \in Runs \ {c} PROVE PaidBack(d)' <=> PaidBack(d)
  BY <1>7, <1>8, NoneIsNoRun DEF PaidBack, Paid
<1>11. StateOfCharge(c) = "open"
  BY <1>4, <1>5, FateOf
<1>12. StateOfCharge(c)' = "returned"
  BY <1>9, Zenon DEF StateOfCharge
<1>13. Fate' = [Fate EXCEPT ![c] = "returned"]
  BY <1>1, <1>10, <1>12, FateMoves
<1>14. Balance' = Balance + 1
  <2>1. Charged' = Charged
    BY <1>1 DEF Charged
  <2>2. Paying' = Paying \cup {r} /\ r \notin Paying
    BY <1>6, <1>7, <1>8, NoneIsNoRun DEF Paying, Paid
  <2>3. Cardinality(Paying') = Cardinality(Paying) + 1
    BY <2>2, FiniteMoney, FS_AddElement
  <2>4. Balance = Cardinality(Paying) - Cardinality(Charged)
        /\ Balance' = Cardinality(Paying') - Cardinality(Charged')
    BY DEF Balance, Paying, Charged
  <2> QED BY <2>1, <2>3, <2>4, FiniteMoney
<1> QED BY <1>11, <1>13, <1>14 DEF Fate

\* Nothing else touches the money or the history.
LEMMA MoneySteps ==
  ASSUME CalmNext
  PROVE  \/ UNCHANGED <<charged, bill, given>>
         \/ \E r \in Runs : Charge(r) \/ RecordGeneration(r) \/ Pay(r)
<1>1. ASSUME NEW r \in Runs, Load(r) \/ Check(r) \/ RecordLocalCharge(r) \/ Create(r)
             \/ SaveTaskRef(r) \/ SubmittedHook(r) \/ Poll(r) \/ RecordFailure(r)
             \/ TakeRef(r) \/ AskRefunded(r) \/ Mark(r) \/ Unmark(r) \/ Restore(r)
      PROVE  UNCHANGED <<charged, bill, given>>
  BY <1>1 DEF Load, Check, RecordLocalCharge, Create, SaveTaskRef, SubmittedHook, Poll,
     RecordFailure, TakeRef, AskRefunded, Mark, Unmark, Restore, money, world
<1>2. ASSUME NEW r \in Runs, RecordRefund(r) \/ Consume(r) \/ Download(r)
             \/ CountFailure(r) \/ Abandon(r) \/ RecordAbandon(r)
             \/ RecordDelivered(r) \/ ClearRef(r) \/ Finish(r) \/ Start(r) \/ Crash(r)
      PROVE  UNCHANGED <<charged, bill, given>>
  BY <1>2 DEF RecordRefund, Consume, Download, CountFailure, Abandon, RecordAbandon,
     RecordDelivered, ClearRef, Finish, Start, Crash, money, world
<1>3. CASE RefusePlan \/ SkipDone
  BY <1>3 DEF RefusePlan, SkipDone, money, world
<1> QED BY <1>1, <1>2, <1>3 DEF CalmNext, RunStep

LEMMA LifecycleInit ==
  ASSUME IsFiniteSet(Runs), Calm, Init
  PROVE  Lifecycle!Init
<1>1. /\ \A c \in Runs : ~charged[c] /\ ~PaidBack(c) /\ c \notin given
      /\ \A p \in Payers : ~Paid(p)
  BY NoneIsNoRun DEF Init, PaidBack, Paid, NoBill, Payers
<1>2. \A c \in Runs : StateOfCharge(c) = "none"
  BY <1>1, FateOf
<1>3. Balance = 0
  <2>1. {p \in Payers : Paid(p)} = {} /\ {c \in Runs : charged[c]} = {}
    BY <1>1
  <2> QED BY <2>1, FS_EmptySet DEF Balance
<1> QED BY <1>2, <1>3 DEF Lifecycle!Init

LEMMA LifecycleStep ==
  ASSUME IsFiniteSet(Runs), Calm, TypeInv, Asleep, CalmInv, [Next]_vars
  PROVE  [Lifecycle!Next]_(Lifecycle!lifecycle)
<1>1. CASE UNCHANGED <<charged, bill, given>>
  <2>1. Fate' = Fate /\ Balance' = Balance
    BY <1>1, SameFate
  <2> QED BY <2>1 DEF Fate, Lifecycle!lifecycle
<1>2. ASSUME NEW r \in Runs, Charge(r), charged' # charged PROVE Lifecycle!Next
  <2>1. /\ Fate[r] = "none" /\ \A d \in Runs : Fate[d] \in {"none", "returned"}
        /\ Fate' = [Fate EXCEPT ![r] = "open"] /\ Balance' = Balance - 1
    BY <1>2, ChargeTakes
  <2> QED BY <2>1 DEF Fate, Lifecycle!Next, Lifecycle!Take
<1>3. ASSUME NEW r \in Runs, RecordGeneration(r), given' # given PROVE Lifecycle!Next
  <2>1. PICK c \in Runs : /\ Fate[c] = "open" /\ Fate' = [Fate EXCEPT ![c] = "delivered"]
                          /\ Balance' = Balance
    BY <1>3, GenerationDelivers
  <2> QED BY <2>1 DEF Fate, Lifecycle!Next, Lifecycle!Deliver
<1>4. ASSUME NEW r \in Runs, Pay(r), bill' # bill PROVE Lifecycle!Next
  <2>1. PICK c \in Runs : /\ Fate[c] = "open" /\ Fate' = [Fate EXCEPT ![c] = "returned"]
                          /\ Balance' = Balance + 1
    BY <1>4, PayReturns
  <2> QED BY <2>1 DEF Fate, Lifecycle!Next, Lifecycle!Return
<1>5. \A r \in Runs :
        /\ Charge(r) => UNCHANGED <<bill, given>>
        /\ RecordGeneration(r) => UNCHANGED <<charged, bill>>
        /\ Pay(r) => UNCHANGED <<charged, given>>
  BY DEF Charge, RecordGeneration, Pay, money, world
<1>6. CASE Next
  <2>1. CASE \E r \in Runs : Charge(r) \/ RecordGeneration(r) \/ Pay(r)
    BY <1>1, <1>2, <1>3, <1>4, <1>5, <2>1
  <2> QED BY <1>1, <1>6, <2>1, CalmSteps, MoneySteps
<1> QED BY <1>1, <1>6 DEF vars

\* The whole machinery of runs, rows, references and markers keeps the promise
\* of billing/doc.go step by step: a charge is taken while nothing is open, then
\* delivered or returned, once, and the credits move with it.
THEOREM KeepsThePromise ==
  ASSUME Calm, IsFiniteSet(Runs)
  PROVE  Spec => ImplementsLifecycle
<1>1. Init => RowKnown
  BY DEF Init, RowKnown
<1>2. Init => CalmInv /\ Asleep
  BY CalmInit
<1>3. TypeInv /\ Asleep /\ CalmInv /\ [Next]_vars => CalmInv' /\ Asleep'
  BY CalmStep
<1>4. Init => Lifecycle!Init
  BY LifecycleInit
<1>5. TypeInv /\ Asleep /\ CalmInv /\ [Next]_vars => [Lifecycle!Next]_(Lifecycle!lifecycle)
  BY LifecycleStep
<1> QED BY <1>1, <1>2, <1>3, <1>4, <1>5, TypeInit, TypeStep, RowKnownStep,
           PTL DEF Spec, ImplementsLifecycle, Lifecycle!Spec
-----------------------------------------------------------------------------
(* Nothing stays open.  The queue gives up only after a run that left the       *)
(* charge delivered, returned or under review: a retry is asked for only by a   *)
(* failed download, and the reference counts those as the queue counts retries. *)

Steady ==
  /\ Calm /\ Faults \cap {"plan", "charge"} = {}
  /\ DownloadFailureLimit <= MaxRetry + 1

Reviewed(c) == PaidBack(c) \/ c \in given \/ RowOf(c).status = "pending_review"

ReviewLabels == {"takeRef", "askRefunded", "mark", "pay", "unmark", "restore",
                 "recordRefund", "consume"}
Ends(r, outcome) == act[r].pc = "ended" /\ act[r].outcome = outcome

ReviewedAt(r) ==
  /\ act[r].pc \in ReviewLabels \/ Ends(r, "noretry") => Reviewed(act[r].charge)
  /\ Ends(r, "retry") => retries < ref.failures /\ ref.failures < DownloadFailureLimit
  /\ act[r].pc # "ended" \/ act[r].outcome \in {"ok", "retry", "noretry"}

\* A retried message resumes a finished task that failed to download as often
\* as the message was retried, or its run is on the way out.
Leaving(r) == act[r].pc = "recordAbandon" \/ (act[r].pc = "ended" /\ ~Ends(r, "retry"))
Counted == ref # NoRef /\ retries <= ref.failures /\ Done(ref.task)

Settling ==
  /\ \A r \in Runs : ReviewedAt(r)
  /\ retries > 0 /\ msg # "gone" => Counted \/ \E r \in Runs : Leaving(r)
  /\ msg = "gone" => \A c \in Runs : charged[c] => Reviewed(c)
  /\ exec = "done" => msg = "gone"

LEMMA Unreviewed ==
  ASSUME NEW r \in Runs, act'[r].pc \notin ReviewLabels \cup {"ended"}
  PROVE  ReviewedAt(r)'
BY DEF ReviewedAt, Ends

LEMMA ReviewGoesOn ==
  ASSUME NEW r \in Runs, NEW c \in Runs, act'[r].charge = c, Reviewed(c)',
         act'[r].pc = "ended" => act'[r].outcome = "noretry"
  PROVE  ReviewedAt(r)'
<1>1. Ends(r, "retry")' => FALSE
  BY DEF Ends
<1>2. Ends(r, "noretry")' => act'[r].pc = "ended"
  BY DEF Ends
<1> QED BY <1>1, <1>2 DEF ReviewedAt, Reviewed, PaidBack, RowOf

LEMMA StaysReviewed ==
  ASSUME NEW c \in Runs, Reviewed(c), UNCHANGED <<bill, given, rows>>
  PROVE  Reviewed(c)'
BY DEF Reviewed, PaidBack, RowOf

LEMMA SettlingKept ==
  ASSUME TypeInv, CalmInv, Settling, NEW r \in Runs, Alive(r), Others(r),
         UNCHANGED <<msg, retries, exec>>, ReviewedAt(r)',
         \/ retries = 0
         \/ Leaving(r)'
         \/ /\ UNCHANGED ref /\ ~Leaving(r)
            /\ \A t \in Runs : Done(t) => Done(t)'
  PROVE  Settling'
<1>1. msg = "taken" /\ \A q \in Runs \ {r} : ~Alive(q)
  BY OnlyOne DEF CalmInv, Flow
<1>2. \A q \in Runs \ {r} : act'[q].pc \in {"idle", "over"} /\ ~Leaving(q)
  BY <1>1 DEF Alive, Leaving, Others
<1>3. \A q \in Runs : ReviewedAt(q)'
  BY <1>2, Unreviewed DEF ReviewLabels
<1>4. retries' > 0 /\ msg' # "gone" => Counted' \/ \E q \in Runs : Leaving(q)'
  <2> SUFFICES ASSUME retries > 0, ~Leaving(r)' PROVE Counted'
    OBVIOUS
  <2>1. /\ UNCHANGED ref /\ ~Leaving(r)
        /\ \A t \in Runs : Done(t) => Done(t)'
    OBVIOUS
  <2>2. Counted
    BY <1>1, <1>2, <2>1 DEF Settling
  <2>3. ref.task \in Runs
    BY <2>2 DEF Counted, TypeInv, TypeOK, Refs
  <2>4. PICK t \in Runs : t = ref.task
    BY <2>3
  <2>5. Done(t)'
    BY <2>1, <2>2, <2>4 DEF Counted
  <2> QED BY <2>1, <2>2, <2>4, <2>5 DEF Counted, Done
<1>5. msg' # "gone" /\ exec' # "done"
  BY <1>1 DEF Settling
<1> QED BY <1>3, <1>4, <1>5 DEF Settling

\* A write of pending_review leaves its charge under review at least.
LEMMA ReviewWritten ==
  ASSUME TypeInv, Calm, CalmInv, NEW r \in Runs, Underway(r), Others(r),
         act[r].pc \notin {"recordRefund", "ended"}, NEW c \in Runs, act[r].charge = c,
         RecordProviderTask(act[r].key, act[r].task, "pending_review", FALSE),
         UNCHANGED <<charged, bill, given, upstream>>
  PROVE  Reviewed(c)'
<1>1. Knows(r) /\ Flow /\ Books /\ Booked
  BY Knowing
<1>2. "pending_review" \in Statuses \ {"failed"}
  BY DEF Statuses
<1>3. RowOf(c)' = Upserted(RowOf(c), [status |-> "pending_review", refunded |-> FALSE,
                                      task |-> act[r].task])
  BY <1>1, <1>2, TableStep
<1>4. RowIsTrue(c)
  BY <1>1 DEF Books
<1>5. RowOf(c)'.status = "pending_review" \/ RowOf(c).status \in {"delivered", "refunded"}
  BY <1>3, <1>4 DEF Upserted, Merged, Writable, RowIsTrue
<1>6. RowOf(c).status \in {"delivered", "refunded"} => PaidBack(c) \/ c \in given
  BY <1>4 DEF RowIsTrue
<1>7. PaidBack(c) => PaidBack(c)'
  BY SameBills
<1> QED BY <1>5, <1>6, <1>7 DEF Reviewed

\* Steps before the failure or the delivery is known leave the reference alone.
LEMMA SettlingEarly ==
  ASSUME TypeInv, Steady, CalmInv, Settling, NEW r \in Runs,
         Load(r) \/ Check(r) \/ Charge(r) \/ RecordLocalCharge(r) \/ SubmittedHook(r)
           \/ Download(r) \/ RecordGeneration(r) \/ RecordDelivered(r)
  PROVE  Settling'
<1>1. act[r] \in RunStates /\ act \in [Runs -> RunStates]
  BY RunFields DEF TypeInv, TypeOK
<1>2. UNCHANGED <<ref, msg, retries, exec>>
  BY DEF Load, Check, Charge, RecordLocalCharge, SubmittedHook, Download,
     RecordGeneration, RecordDelivered, redis, sched
<1>3. Alive(r) /\ ~Leaving(r)
  BY DEF Load, Check, Charge, RecordLocalCharge, SubmittedHook, Download,
     RecordGeneration, RecordDelivered, Alive, Leaving, At
<1>4. \A t \in Runs : Done(t) => Done(t)'
  BY DEF Load, Check, Charge, RecordLocalCharge, SubmittedHook, Download,
     RecordGeneration, RecordDelivered, world, Done
<1>5. Others(r) /\ act'[r].pc \notin ReviewLabels \cup {"ended"}
  <2>1. CASE Load(r)
    <3> DEFINE s == [act[r] EXCEPT !.pc = "create", !.resumed = TRUE, !.task = ref.task,
                       !.charge = ref.charge, !.key = ref.key, !.failures = ref.failures]
    <3>1. Goto(r, "check") \/ act' = [act EXCEPT ![r] = s]
      BY <2>1 DEF Load
    <3>2. s.pc = "create"
      BY <1>1 DEF RunStates
    <3> HIDE DEF s
    <3>3. CASE act' = [act EXCEPT ![r] = s]
      BY <1>1, <3>2, <3>3 DEF Others, ReviewLabels
    <3> QED BY <3>1, <3>3, Goes DEF ReviewLabels
  <2>2. CASE Check(r)
    BY <1>1, <2>2 DEF Check, Goto, Others, ReviewLabels, RunStates
  <2>3. CASE Charge(r)
    <3> DEFINE s == [act[r] EXCEPT !.pc = "recordCharge", !.own = TRUE, !.charge = r, !.key = r]
    <3>1. act' = [act EXCEPT ![r] = s]
      BY <2>3 DEF Charge, Steady
    <3>2. s.pc = "recordCharge"
      BY <1>1 DEF RunStates
    <3> HIDE DEF s
    <3> QED BY <1>1, <3>1, <3>2 DEF Others, ReviewLabels
  <2>4. CASE RecordLocalCharge(r) \/ SubmittedHook(r) \/ Download(r)
             \/ RecordGeneration(r) \/ RecordDelivered(r)
    <3>1. PICK l \in {"create", "poll", "history", "countFailure", "recordDelivered",
                      "clearRef"} : Goto(r, l)
      BY <2>4 DEF RecordLocalCharge, SubmittedHook, Download, RecordGeneration, RecordDelivered
    <3> QED BY <3>1, Goes DEF ReviewLabels
  <2> QED BY <2>1, <2>2, <2>3, <2>4
<1> QED BY <1>2, <1>3, <1>4, <1>5, Unreviewed, SettlingKept

LEMMA SettlingCreate ==
  ASSUME TypeInv, CalmInv, Settling, NEW r \in Runs, Create(r)
  PROVE  Settling'
<1>1. act[r] \in RunStates /\ act \in [Runs -> RunStates]
  BY RunFields DEF TypeInv, TypeOK
<1>2. /\ UNCHANGED <<ref, msg, retries, exec>> /\ act[r].pc = "create"
      /\ Alive(r) /\ ~Leaving(r)
  BY DEF Create, redis, sched, Alive, Leaving, At
<1>3. Others(r) /\ act'[r].pc \in {"poll", "saveRef", "recordFailure"}
  BY <1>1 DEF Create, Goto, Others, RunStates
<1>4. act[r].task = None => upstream[r].state = "none"
  BY <1>2 DEF CalmInv, Flow, Unsubmitted, TaskAhead
<1>5. ASSUME NEW t \in Runs, Done(t) PROVE Done(t)'
  BY <1>4, <1>5 DEF Create, Done, TypeInv, TypeOK
<1>6. ReviewedAt(r)'
  BY <1>3, Unreviewed DEF ReviewLabels
<1> QED BY <1>2, <1>3, <1>5, <1>6, SettlingKept

LEMMA SettlingPoll ==
  ASSUME TypeInv, CalmInv, Settling, NEW r \in Runs, Poll(r)
  PROVE  Settling'
<1>1. act[r] \in RunStates /\ act \in [Runs -> RunStates]
  BY RunFields DEF TypeInv, TypeOK
<1>2. /\ UNCHANGED <<ref, msg, retries, exec>> /\ act[r].pc = "poll"
      /\ Alive(r) /\ ~Leaving(r)
  BY DEF Poll, redis, sched, Alive, Leaving, At
<1>3. Others(r) /\ act'[r].pc \in {"download", "recordFailure"}
  <2>1. CASE Goto(r, "download")
    BY <2>1, Goes
  <2>2. ASSUME NEW why, act' = [act EXCEPT ![r] =
                                  [act[r] EXCEPT !.pc = "recordFailure", !.why = why]]
        PROVE  Others(r) /\ act'[r].pc = "recordFailure"
    BY <1>1, <2>2 DEF Others, RunStates
  <2> QED BY <2>1, <2>2 DEF Poll
<1>4. ASSUME NEW t \in Runs, Done(t) PROVE Done(t)'
  BY <1>4 DEF Poll, Done, TypeInv, TypeOK
<1>5. ReviewedAt(r)'
  BY <1>3, Unreviewed DEF ReviewLabels
<1> QED BY <1>2, <1>3, <1>4, <1>5, SettlingKept

LEMMA Known ==
  ASSUME CalmInv, NEW r \in Runs, act[r].pc \notin Early \cup {"over", "ended"}
  PROVE  Underway(r) /\ Alive(r) /\ Knows(r) /\ act[r].charge \in Runs
<1>1. Underway(r)
  BY DEF Underway, Alive, Early
<1> QED BY <1>1, Knowing DEF Knows, IdentityAt

\* A failed generation is under review from the first write of its row on.
LEMMA SettlingFailure ==
  ASSUME TypeInv, Calm, CalmInv, Settling, NEW r \in Runs,
         RecordFailure(r) \/ Restore(r) \/ RecordAbandon(r)
  PROVE  Settling'
<1>1. /\ act[r].pc \in {"recordFailure", "restore", "recordAbandon"}
      /\ RecordProviderTask(act[r].key, act[r].task, "pending_review", FALSE)
      /\ UNCHANGED <<charged, bill, given, upstream, msg, retries, exec>>
  BY DEF RecordFailure, Restore, RecordAbandon, At, money, redis, world, sched
<1>2. Underway(r) /\ Alive(r) /\ Knows(r) /\ act[r].charge \in Runs
  BY <1>1, Known DEF Early
<1>3. /\ Kept(r) /\ Others(r)
      /\ act'[r].pc = "ended" => act'[r].outcome = "noretry"
      /\ act[r].pc \in {"restore", "recordAbandon"} => act'[r].pc = "ended"
  <2>1. CASE RecordFailure(r)
    <3>1. End(r, "noretry") \/ \E l \in {"takeRef", "askRefunded", "consume"} : Goto(r, l)
      BY <2>1 DEF RecordFailure
    <3> QED BY <2>1, <3>1, Goes, Stops DEF RecordFailure, At
  <2>2. CASE Restore(r) \/ RecordAbandon(r)
    BY <2>2, Stops DEF Restore, RecordAbandon
  <2> QED BY <2>1, <2>2
<1>4. PICK c \in Runs : act[r].charge = c
  BY <1>2
<1>5. Reviewed(c)'
  BY <1>1, <1>2, <1>3, <1>4, ReviewWritten
<1>6. ReviewedAt(r)'
  BY <1>3, <1>4, <1>5, ReviewGoesOn DEF Kept
<1>7. CASE RecordFailure(r)
  <2>1. UNCHANGED ref /\ ~Leaving(r)
    BY <1>7 DEF RecordFailure, redis, Leaving, At
  <2> QED BY <1>1, <1>2, <1>3, <1>6, <2>1, SettlingKept DEF Done
<1>8. CASE Restore(r) \/ RecordAbandon(r)
  <2>1. act'[r].pc = "ended" /\ act'[r].outcome = "noretry"
    BY <1>3, <1>8 DEF Restore, RecordAbandon, At
  <2>2. Leaving(r)'
    BY <2>1 DEF Leaving, Ends
  <2> QED BY <1>1, <1>2, <1>3, <1>6, <2>2, SettlingKept
<1> QED BY <1>7, <1>8

\* The refund of a charge under review.
LEMMA SettlingRefund ==
  ASSUME TypeInv, Calm, CalmInv, Settling, NEW r \in Runs,
         AskRefunded(r) \/ Mark(r) \/ Pay(r) \/ Unmark(r) \/ RecordRefund(r) \/ Consume(r)
  PROVE  Settling'
<1>1. /\ act[r].pc \in {"askRefunded", "mark", "pay", "unmark", "recordRefund", "consume"}
      /\ UNCHANGED <<charged, given, upstream, msg, retries, exec>>
  BY DEF AskRefunded, Mark, Pay, Unmark, RecordRefund, Consume, At, money, world, sched
<1>2. Underway(r) /\ Alive(r) /\ Knows(r) /\ act[r].charge \in Runs
  BY <1>1, Known DEF Early
<1>3. /\ Kept(r) /\ Others(r)
      /\ act'[r].pc = "ended" => act'[r].outcome = "noretry"
      /\ act[r].pc = "consume" => act'[r].pc = "ended"
  <2>1. \/ End(r, "noretry")
        \/ /\ act[r].pc # "consume"
           /\ \E l \in {"mark", "pay", "unmark", "restore", "recordRefund", "consume"} : Goto(r, l)
    BY DEF AskRefunded, Mark, Pay, Unmark, RecordRefund, Consume, At
  <2> QED BY <2>1, Goes, Stops
<1>4. PICK c \in Runs : act[r].charge = c
  BY <1>2
<1>5. Reviewed(c)
  BY <1>1, <1>4 DEF Settling, ReviewedAt, ReviewLabels
<1>6. Reviewed(c)'
  <2>1. CASE AskRefunded(r) \/ Mark(r) \/ Unmark(r) \/ Consume(r)
    BY <1>5, <2>1, StaysReviewed DEF AskRefunded, Mark, Unmark, Consume, money, table, world
  <2>2. CASE Pay(r) /\ UNCHANGED bill
    BY <1>5, <2>2, StaysReviewed DEF Pay, table, world
  <2>3. CASE Pay(r) /\ ~UNCHANGED bill
    <3>1. /\ r \in Payers /\ bill \in [Payers -> Bills]
          /\ bill' = [bill EXCEPT ![r] =
                        [charge |-> act[r].charge, task |-> act[r].task,
                         key |-> IF act[r].resumed THEN None ELSE act[r].key]]
      BY <2>3 DEF Pay, Payers, TypeInv, TypeOK
    <3>2. bill'[r].charge = c
      BY <1>4, <3>1
    <3> QED BY <3>1, <3>2 DEF Reviewed, PaidBack
  <2>4. CASE RecordRefund(r)
    <3>1. PaidBack(c) /\ UNCHANGED bill
      BY <1>2, <1>4, <2>4 DEF Knows, MoneyAt, RecordRefund, At, money
    <3> QED BY <3>1, SameBills DEF Reviewed
  <2> QED BY <2>1, <2>2, <2>3, <2>4
<1>7. ReviewedAt(r)'
  BY <1>3, <1>4, <1>6, ReviewGoesOn DEF Kept
<1>8. CASE ~Consume(r)
  <2>1. UNCHANGED ref /\ ~Leaving(r)
    BY <1>1, <1>8 DEF AskRefunded, Mark, Pay, Unmark, RecordRefund, redis, Leaving
  <2> QED BY <1>1, <1>2, <1>3, <1>7, <2>1, SettlingKept DEF Done
<1>9. CASE Consume(r)
  <2>1. act'[r].pc = "ended" /\ act'[r].outcome = "noretry"
    BY <1>3, <1>9 DEF Consume, At
  <2>2. Leaving(r)'
    BY <2>1 DEF Leaving, Ends
  <2> QED BY <1>1, <1>2, <1>3, <1>7, <2>2, SettlingKept
<1> QED BY <1>8, <1>9

\* A run that holds no reference of a finished task is the first delivery.
LEMMA FirstDelivery ==
  ASSUME TypeInv, CalmInv, Settling, NEW r \in Runs, Alive(r), ~Leaving(r), ~Counted
  PROVE  retries = 0
<1>1. msg = "taken" /\ \A q \in Runs \ {r} : ~Leaving(q)
  BY OnlyOne DEF CalmInv, Flow, Alive, Leaving
<1>2. ~(retries > 0) /\ retries \in Nat
  BY <1>1 DEF Settling, TypeInv, TypeOK
<1> QED BY <1>2

LEMMA SettlingSaveTaskRef ==
  ASSUME TypeInv, CalmInv, Settling, NEW r \in Runs, SaveTaskRef(r)
  PROVE  Settling'
<1>1. /\ act[r].pc = "saveRef" /\ act'[r].pc = "hook" /\ Others(r)
      /\ UNCHANGED <<msg, retries, exec>>
  BY Goes DEF SaveTaskRef, At, sched
<1>2. Alive(r) /\ Knows(r)
  BY <1>1, Known DEF Early
<1>3. ~Leaving(r) /\ ~Counted
  BY <1>1, <1>2 DEF Leaving, Counted, Knows, RefAt, Detached
<1>4. retries = 0
  BY <1>2, <1>3, FirstDelivery
<1>5. ReviewedAt(r)'
  BY <1>1, Unreviewed DEF ReviewLabels
<1> QED BY <1>1, <1>2, <1>4, <1>5, SettlingKept

LEMMA SettlingTakeRef ==
  ASSUME TypeInv, CalmInv, Settling, NEW r \in Runs, TakeRef(r)
  PROVE  Settling'
<1> DEFINE s == [act[r] EXCEPT !.pc = "mark", !.task = ref.task, !.charge = ref.charge,
                               !.key = ref.key, !.failures = ref.failures]
<1>1. /\ act[r].pc = "takeRef" /\ UNCHANGED <<bill, given, rows, msg, retries, exec>>
      /\ \/ End(r, "noretry")
         \/ ref # NoRef /\ act[r].why = "rejected" /\ act' = [act EXCEPT ![r] = s]
  BY DEF TakeRef, At, money, table, world, sched
<1>2. Alive(r) /\ Knows(r) /\ act[r].charge \in Runs
  BY <1>1, Known DEF Early
<1>3. PICK c \in Runs : act[r].charge = c
  BY <1>2
<1>4. Reviewed(c)'
  BY <1>1, <1>3, StaysReviewed DEF Settling, ReviewedAt, ReviewLabels
<1>5. CASE End(r, "noretry")
  <2>1. act'[r].pc = "ended" /\ act'[r].outcome = "noretry" /\ Kept(r) /\ Others(r)
    BY <1>5, Stops
  <2>2. ReviewedAt(r)'
    BY <1>3, <1>4, <2>1, ReviewGoesOn DEF Kept
  <2>3. Leaving(r)'
    BY <2>1 DEF Leaving, Ends
  <2> QED BY <1>1, <1>2, <2>1, <2>2, <2>3, SettlingKept
<1>6. CASE ref # NoRef /\ act[r].why = "rejected" /\ act' = [act EXCEPT ![r] = s]
  <2>1. act[r] \in RunStates /\ act \in [Runs -> RunStates]
    BY RunFields DEF TypeInv, TypeOK
  <2>2. s.pc = "mark" /\ s.charge = ref.charge
    BY <2>1 DEF RunStates
  <2> HIDE DEF s
  <2>3. act'[r] = s /\ Others(r)
    BY <1>6, <2>1 DEF Others
  <2>4. Matches(r) /\ act[r].task # None
    BY <1>1, <1>2, <1>6 DEF Knows, RefAt, IdentityAt, Detached, RefundLabels
  <2>5. ref.charge = c /\ ref.task = act[r].task
    BY <1>3, <2>4 DEF Matches
  <2>6. ~Leaving(r) /\ ~Counted
    BY <1>1, <1>2, <1>6, <2>4, <2>5 DEF Leaving, Counted, Knows, TaskAt, Done, Rejected
  <2>7. retries = 0
    BY <1>2, <2>6, FirstDelivery
  <2>8. ReviewedAt(r)'
    BY <1>4, <2>2, <2>3, <2>5, ReviewGoesOn
  <2> QED BY <1>1, <1>2, <2>3, <2>7, <2>8, SettlingKept
<1> QED BY <1>1, <1>5, <1>6

LEMMA SettlingAbandon ==
  ASSUME TypeInv, CalmInv, Settling, NEW r \in Runs, Abandon(r) \/ ClearRef(r)
  PROVE  Settling'
<1>1. act[r].pc \in {"abandon", "clearRef"} /\ UNCHANGED <<msg, retries, exec>>
  BY DEF Abandon, ClearRef, At, sched
<1>2. Alive(r)
  BY <1>1 DEF Alive
<1>3. /\ Others(r)
      /\ \/ act'[r].pc = "recordAbandon"
         \/ act'[r].pc = "ended" /\ act'[r].outcome = "ok"
  BY Goes, Stops DEF Abandon, ClearRef
<1>4. Leaving(r)' /\ ReviewedAt(r)'
  BY <1>3 DEF Leaving, ReviewedAt, Ends, ReviewLabels
<1> QED BY <1>1, <1>2, <1>3, <1>4, SettlingKept

\* A retry is asked for while the reference counts fewer failures than the limit.
LEMMA SettlingCountFailure ==
  ASSUME TypeInv, CalmInv, Settling, NEW r \in Runs, CountFailure(r)
  PROVE  Settling'
<1> DEFINE n == act[r].failures + 1
           stop == [act[r] EXCEPT !.failures = n, !.pc = "ended", !.outcome = "retry"]
           go == [act[r] EXCEPT !.failures = n, !.pc = "abandon"]
<1>1. /\ act[r].pc = "countFailure" /\ UNCHANGED <<upstream, msg, retries, exec>>
      /\ ref' = [task |-> act[r].task, charge |-> act[r].charge, key |-> act[r].key,
                 failures |-> n]
      /\ act' = IF n < DownloadFailureLimit THEN [act EXCEPT ![r] = stop]
                ELSE [act EXCEPT ![r] = go]
  BY DEF CountFailure, At, world, sched
<1>2. Alive(r) /\ Knows(r) /\ act[r].charge \in Runs
  BY <1>1, Known DEF Early
<1>3. act[r] \in RunStates /\ act \in [Runs -> RunStates] /\ act[r].failures \in Nat
  BY RunFields DEF TypeInv, TypeOK
<1>4. /\ stop.pc = "ended" /\ stop.outcome = "retry"
      /\ go.pc = "abandon"
  BY <1>3 DEF RunStates
<1>5. /\ Others(r)
      /\ \/ act'[r] = stop /\ n < DownloadFailureLimit
         \/ act'[r] = go
  BY <1>1, <1>3 DEF Others
<1>6. act[r].task # None /\ Matches(r) /\ Done(act[r].task)
  BY <1>1, <1>2 DEF Knows, TaskAt, RefAt, VideoLabels, Detached, RefundLabels
<1>7. retries < n
  <2>1. CASE Counted
    BY <1>3, <1>6, <2>1 DEF Counted, Matches, TypeInv, TypeOK
  <2>2. CASE ~Counted
    <3>1. ~Leaving(r)
      BY <1>1 DEF Leaving
    <3>2. retries = 0
      BY <1>2, <2>2, <3>1, FirstDelivery
    <3> QED BY <1>3, <3>2
  <2> QED BY <2>1, <2>2
<1>8. ref'.failures = n /\ ref'.task = act[r].task
  BY <1>1
<1>9. n \in Nat
  BY <1>3
<1> HIDE DEF stop, go, n
<1>10. msg = "taken" /\ \A q \in Runs \ {r} : ~Alive(q)
  BY <1>2, OnlyOne DEF CalmInv, Flow
<1>11. \A q \in Runs : ReviewedAt(q)'
  <2>1. ASSUME NEW q \in Runs \ {r} PROVE ReviewedAt(q)'
    BY <1>5, <1>10, Unreviewed DEF Alive, Others, ReviewLabels
  <2>2. ReviewedAt(r)'
    BY <1>1, <1>4, <1>5, <1>7, <1>8 DEF ReviewedAt, Ends, ReviewLabels
  <2> QED BY <2>1, <2>2
<1>12. Counted'
  <2>1. PICK t \in Runs : t = act[r].task
    BY <1>3, <1>6 DEF RunStates, MaybeRun
  <2>2. Done(t)'
    BY <1>1, <1>6, <2>1 DEF Done
  <2>3. ref' # NoRef
    BY <1>6, <1>8 DEF NoRef
  <2>4. retries' <= ref'.failures
    BY <1>1, <1>7, <1>8, <1>9 DEF TypeInv, TypeOK
  <2> QED BY <1>8, <2>1, <2>2, <2>3, <2>4 DEF Counted, Done
<1>13. msg' # "gone" /\ exec' # "done"
  BY <1>1, <1>10 DEF Settling
<1> QED BY <1>11, <1>12, <1>13 DEF Settling

LEMMA SettlingStart ==
  ASSUME TypeInv, Calm, CalmInv, Settling, NEW r \in Runs, Start(r)
  PROVE  Settling'
<1>1. /\ act'[r].pc = "load" /\ Others(r) /\ \A q \in Runs : ~Alive(q)
      /\ msg = "queued" /\ msg' = "taken" /\ exec' = "running"
      /\ UNCHANGED <<ref, upstream, retries>>
  BY Goes DEF Start, Calm, redis, world
<1>2. \A q \in Runs : ReviewedAt(q)'
  <2>1. \A q \in Runs : act'[q].pc \in {"idle", "over", "load"}
    BY <1>1 DEF Alive, Others
  <2> QED BY <2>1, Unreviewed DEF ReviewLabels
<1>3. retries > 0 => Counted
  BY <1>1 DEF Settling, Leaving, Alive
<1>4. retries' > 0 => Counted'
  BY <1>1, <1>3 DEF Counted, Done
<1> QED BY <1>1, <1>2, <1>4 DEF Settling

LEMMA SettlingCrash ==
  ASSUME TypeInv, Calm, CalmInv, Settling, NEW r \in Runs, Crash(r)
  PROVE  Settling'
<1>1. /\ Alive(r) /\ act[r].pc \notin Unrecorded /\ act'[r].pc = "over" /\ Others(r)
      /\ UNCHANGED <<ref, upstream, retries, exec>>
      /\ msg' = IF msg = "taken" THEN "queued" ELSE msg
  BY Goes DEF Crash, Calm, redis, world
<1>2. msg = "taken" /\ \A q \in Runs \ {r} : ~Alive(q)
  BY <1>1, OnlyOne DEF CalmInv, Flow
<1>3. \A q \in Runs : ReviewedAt(q)'
  <2>1. \A q \in Runs : act'[q].pc \in {"idle", "over"}
    BY <1>1, <1>2 DEF Alive, Others
  <2> QED BY <2>1, Unreviewed DEF ReviewLabels
<1>4. retries > 0 => Counted
  BY <1>1, <1>2 DEF Settling, Leaving, Alive, Unrecorded
<1>5. retries' > 0 => Counted'
  BY <1>1, <1>4 DEF Counted, Done
<1> QED BY <1>1, <1>2, <1>3, <1>5 DEF Settling

LEMMA SettlingFinish ==
  ASSUME TypeInv, Steady, CalmInv, Settling, NEW r \in Runs, Finish(r)
  PROVE  Settling'
<1>1. /\ act[r].pc = "ended" /\ act'[r].pc = "over" /\ Others(r)
      /\ UNCHANGED <<charged, bill, given, rows, upstream>>
  BY Goes DEF Finish, Goto, At, money, table, world
<1>2. Underway(r) /\ Alive(r) /\ Knows(r)
  BY <1>1, Knowing DEF Underway, Alive, Early
<1>3. \A q \in Runs \ {r} : ~Alive(q)
  BY <1>2, OnlyOne DEF CalmInv, Flow
<1>4. \A q \in Runs : ReviewedAt(q)'
  <2>1. \A q \in Runs : act'[q].pc \in {"idle", "over"}
    BY <1>1, <1>3 DEF Alive, Others
  <2> QED BY <2>1, Unreviewed DEF ReviewLabels
<1>5. ASSUME act[r].outcome \in {"ok", "noretry"}, NEW c \in Runs, charged[c]
      PROVE  Reviewed(c)'
  <2>1. CASE act[r].charge = c
    <3>1. Reviewed(c)
      BY <1>1, <1>2, <1>5, <2>1 DEF Settling, ReviewedAt, Ends, Reviewed, Knows, GivenAt
    <3> QED BY <1>1, <3>1, StaysReviewed
  <2>2. CASE act[r].charge # c
    <3>1. PaidBack(c)
      BY <1>2, <1>5, <2>2 DEF Knows, MoneyAt, Open
    <3> QED BY <1>1, <3>1, SameBills DEF Reviewed
  <2> QED BY <2>1, <2>2
<1>6. CASE act[r].outcome \in {"ok", "noretry"}
  BY <1>1, <1>4, <1>5, <1>6 DEF Finish, Settling
<1>7. CASE act[r].outcome = "retry"
  <2>1. retries < ref.failures /\ ref.failures < DownloadFailureLimit
    BY <1>1, <1>7 DEF Settling, ReviewedAt, Ends
  <2>2. retries \in Nat /\ ref.failures \in Nat /\ MaxRetry \in Nat
        /\ DownloadFailureLimit \in Nat /\ DownloadFailureLimit <= MaxRetry + 1
    BY VideoChargeAssumption DEF TypeInv, TypeOK, Refs, NoRef, Steady
  <2>3. retries < MaxRetry
    BY <2>1, <2>2
  <2>4. msg' = "queued" /\ retries' = retries + 1 /\ UNCHANGED ref /\ exec' = "failed"
    BY <1>7, <2>3 DEF Finish
  <2>5. ref # NoRef
    BY <2>1, <2>2 DEF NoRef
  <2>6. Done(ref.task)
    BY <1>1, <1>2, <1>7, <2>5, NoneIsNoRun DEF Knows, RefAt, IdentityAt, Matches
  <2>7. Counted'
    BY <1>1, <2>1, <2>2, <2>4, <2>5, <2>6 DEF Counted, Done
  <2> QED BY <1>4, <2>4, <2>7 DEF Settling
<1> QED BY <1>1, <1>6, <1>7 DEF Settling, ReviewedAt

LEMMA SettlingInit ==
  ASSUME Init
  PROVE  Settling
<1>1. \A r \in Runs : act[r].pc = "idle"
  BY DEF Init, NoRun
<1>2. \A r \in Runs : ReviewedAt(r)
  BY <1>1 DEF ReviewedAt, Ends, ReviewLabels
<1> QED BY <1>2 DEF Init, Settling

LEMMA SettlingRunStep ==
  ASSUME TypeInv, Steady, CalmInv, Settling, NEW r \in Runs, RunStep(r)
  PROVE  Settling'
<1>1. Calm
  BY DEF Steady
<1>2. CASE Load(r) \/ Check(r) \/ Charge(r) \/ RecordLocalCharge(r) \/ SubmittedHook(r)
             \/ Download(r) \/ RecordGeneration(r) \/ RecordDelivered(r)
  BY <1>2, SettlingEarly
<1>3. CASE Create(r) \/ Poll(r) \/ SaveTaskRef(r) \/ TakeRef(r) \/ CountFailure(r) \/ Finish(r)
  BY <1>3, SettlingCreate, SettlingPoll, SettlingSaveTaskRef, SettlingTakeRef,
     SettlingCountFailure, SettlingFinish
<1>4. CASE AskRefunded(r) \/ Mark(r) \/ Pay(r) \/ Unmark(r) \/ RecordRefund(r) \/ Consume(r)
  BY <1>1, <1>4, SettlingRefund
<1>5. CASE RecordFailure(r) \/ Restore(r) \/ RecordAbandon(r)
  BY <1>1, <1>5, SettlingFailure
<1>6. CASE Abandon(r) \/ ClearRef(r)
  BY <1>6, SettlingAbandon
<1> QED BY <1>2, <1>3, <1>4, <1>5, <1>6 DEF RunStep

LEMMA SettlingStep ==
  Steady /\ TypeInv /\ Asleep /\ CalmInv /\ Settling /\ [Next]_vars => Settling'
<1> SUFFICES ASSUME Steady, TypeInv, Asleep, CalmInv, Settling, [Next]_vars PROVE Settling'
  OBVIOUS
<1>1. Calm
  BY DEF Steady
<1>2. CASE Next
  <2>1. ~RefusePlan
    BY DEF Steady, RefusePlan
  <2>2. ~SkipDone
    BY DEF Settling, SkipDone
  <2> QED BY <1>1, <1>2, <2>1, <2>2, CalmSteps, SettlingStart, SettlingRunStep, SettlingCrash
          DEF CalmNext
<1>3. CASE UNCHANGED vars
  <2>1. UNCHANGED <<act, charged, bill, given, rows, ref, upstream, msg, retries, exec>>
    BY <1>3 DEF vars
  <2>2. ASSUME NEW r \in Runs PROVE ReviewedAt(r)'
    BY <2>1 DEF Settling, ReviewedAt, Ends, Reviewed, PaidBack, RowOf
  <2>3. \A c \in Runs : Reviewed(c) => Reviewed(c)'
    BY <2>1, StaysReviewed
  <2> QED BY <2>1, <2>2, <2>3 DEF Settling, Counted, Leaving, Ends, Done
<1> QED BY <1>2, <1>3

\* billing/policy.go: once nothing runs, every charge was delivered, was
\* returned, or waits on a row that an administrator can refund: provided that
\* the queue retries as often as downloads may fail.
THEOREM NothingStaysOpen ==
  ASSUME Steady
  PROVE  Spec => []SettledWhenQuiet
<1>1. Init => RowKnown
  BY DEF Init, RowKnown
<1>2. Init => CalmInv /\ Asleep /\ Settling
  BY CalmInit, SettlingInit
<1>3. TypeInv /\ Asleep /\ CalmInv /\ [Next]_vars => CalmInv' /\ Asleep'
  BY CalmStep DEF Steady
<1>4. TypeInv /\ Asleep /\ CalmInv /\ Settling /\ [Next]_vars => Settling'
  BY SettlingStep
<1>5. CalmInv /\ Settling => SettledWhenQuiet
  <2> SUFFICES ASSUME CalmInv, Settling, Quiet, NEW c \in Runs, charged[c] PROVE Settled(c)
    BY DEF SettledWhenQuiet
  <2>1. Reviewed(c)
    BY DEF Settling, Quiet
  <2>2. ChargeRow(c) \in RowKeys /\ ChargeOfRow(ChargeRow(c)) = c
    BY KeysApart DEF ChargeRow, ChargeOfRow
  <2>3. RowOf(c).refunded <=> RowOf(c).status = "refunded"
    BY DEF CalmInv, Books, RowIsTrue
  <2>4. RowOf(c).status = "pending_review" => Claimable(rows[ChargeRow(c)])
    BY <2>3 DEF RowOf, Claimable
  <2> QED BY <2>1, <2>2, <2>4 DEF Reviewed, Settled
<1> QED BY <1>1, <1>2, <1>3, <1>4, <1>5, TypeInit, TypeStep, RowKnownStep, PTL DEF Spec
=============================================================================
