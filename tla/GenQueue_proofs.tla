-------------------------- MODULE GenQueue_proofs --------------------------
(***************************************************************************)
(* Proofs about the generation queue: its type invariant, that no two runs *)
(* of one execution ever overlap, and that Redis alone keeps a way to      *)
(* handle every execution that is not brought to an end.                   *)
(***************************************************************************)
EXTENDS MCQueues, TLAPS

-----------------------------------------------------------------------------
(* Types *)

\* What XADD with MAXLEN leaves in the stream.
LEMMA Added ==
  ASSUME stream \in Seq(Tasks), base \in 0..Len(stream), Len(stream) <= MaxEntries,
         NEW task \in Tasks, Add(task)
  PROVE  /\ stream' \in Seq(Tasks)
         /\ Len(stream') = Len(stream) + 1
         /\ Len(stream') <= MaxEntries
         /\ \A m \in 1..Len(stream) : stream'[m] = stream[m]
         /\ stream'[Len(stream) + 1] = task
         /\ base' \in base..Len(stream')
         /\ base' = base \/ base' <= Len(stream') - MaxLen
<1>1. stream' = Append(stream, task) /\ Len(stream) < MaxEntries
  BY DEF Add
<1>2. Len(stream) \in Nat
  BY SMT
<1>3. base' \in base..Len(stream') /\ (base' = base \/ base' <= Len(stream') - MaxLen)
  BY DEF Add
<1> QED
  BY <1>1, <1>2, <1>3, GenQueueAssumption

LEMMA EntriesAre ==
  ASSUME stream \in Seq(Tasks)
  PROVE  Entries = 1..Len(stream) /\ Len(stream) \in Nat /\ \A m \in Entries : stream[m] \in Tasks
BY DEF Entries

\* A consumer in hand of an entry moves on to another label.
LEMMA Moves ==
  ASSUME con \in [Consumers -> Work], NEW c \in Consumers, NEW l \in Labels, Goto(c, l)
  PROVE  /\ con' \in [Consumers -> Work]
         /\ con'[c].pc = l /\ con'[c].msg = con[c].msg /\ con'[c].locked = con[c].locked
         /\ \A d \in Consumers : d # c => con'[d] = con[d]
         /\ \A d \in Consumers : con'[d].msg = con[d].msg /\ con'[d].locked = con[d].locked
<1>1. con[c] \in Work
  OBVIOUS
<1>2. [con[c] EXCEPT !.pc = l] \in Work
  BY <1>1 DEF Work
<1>3. con' = [con EXCEPT ![c] = [con[c] EXCEPT !.pc = l]]
  BY DEF Goto
<1> QED
  BY <1>1, <1>2, <1>3 DEF Work

\* A consumer leaves handle.
LEMMA Leaves ==
  ASSUME con \in [Consumers -> Work], NEW c \in Consumers, Leave(c)
  PROVE  /\ con' \in [Consumers -> Work]
         /\ con'[c] = NoWork
         /\ \A d \in Consumers : d # c => con'[d] = con[d]
<1>1. NoWork \in Work
  BY GenQueueAssumption DEF NoWork, Work, Labels
<1> QED
  BY <1>1 DEF Leave
-----------------------------------------------------------------------------
\* A consumer holds one entry of the stream.
InHand(c) == con[c].pc \notin {"idle", "moving"}
InStream == \A c \in Consumers : InHand(c) => con[c].msg \in Entries
TypeInv == TypeOK /\ InStream

LEMMA TypeInit ==
  Init => TypeInv
<1> SUFFICES ASSUME Init PROVE TypeInv
  OBVIOUS
<1>1. Len(<<>>) = 0 /\ <<>> \in Seq(Tasks)
  OBVIOUS
<1>2. con \in [Consumers -> Work] /\ \A c \in Consumers : con[c].msg = 0 /\ ~InHand(c)
  BY GenQueueAssumption DEF Init, NoWork, Work, Labels, InHand
<1>3. TypeOK
  BY <1>1, <1>2, GenQueueAssumption DEF Init, TypeOK, RunsCap, Consumers
<1> QED
  BY <1>2, <1>3 DEF TypeInv, InStream

\* Execute enqueues an execution, or runs it in the process.
LEMMA TypeSubmit ==
  ASSUME TypeInv, NEW e \in Execs, Enqueue(e) \/ RunDirect(e) \/ FinishDirect(e)
  PROVE  TypeInv'
<1> DEFINE task == [exec |-> e, retry |-> 0]
<1>1. task \in Tasks
  BY GenQueueAssumption DEF Tasks
<1>2. con' = con /\ cursor' = cursor
  BY DEF Enqueue, RunDirect, FinishDirect, local, redis
<1>3. \/ Add(task) \/ UNCHANGED <<stream, base>>
  BY DEF Enqueue, RunDirect, FinishDirect, redis
<1>4. /\ stream' \in Seq(Tasks) /\ Len(stream') \in Nat /\ Len(stream') <= MaxEntries
      /\ Len(stream) \in Nat /\ Len(stream) <= Len(stream')
      /\ base' \in 0..Len(stream')
  BY <1>1, <1>3, Added DEF TypeInv, TypeOK
<1>5. runs' \in [Execs -> 0..RunsCap] /\ refused' \subseteq Execs
  BY GenQueueAssumption
  DEF TypeInv, TypeOK, Enqueue, RunDirect, FinishDirect, seen, RunsCap
<1>6. /\ pending' = pending /\ idle' = idle /\ due' = due /\ dead' = dead
      /\ doneKey' = doneKey /\ lock' = lock /\ batch' = batch /\ phase' = phase
      /\ moving' = moving /\ crashes' = crashes
  BY DEF Enqueue, RunDirect, FinishDirect, redis, local
<1>7. /\ status' \in [Execs -> {"none", "pending", "running", "done", "failed"}]
      /\ direct' \in [Execs -> {"no", "running", "over"}]
  BY DEF TypeInv, TypeOK, Enqueue, RunDirect, FinishDirect
<1>8. TypeOK'
  BY <1>2, <1>4, <1>5, <1>6, <1>7 DEF TypeInv, TypeOK
<1>9. InStream'
  BY <1>2, <1>4, EntriesAre DEF TypeInv, TypeOK, InStream, InHand, Entries
<1> QED
  BY <1>8, <1>9 DEF TypeInv

LEMMA Checking ==
  ASSUME NEW m \in 0..MaxEntries, NEW s, s = [NoWork EXCEPT !.pc = "check", !.msg = m]
  PROVE  s \in Work /\ s.pc = "check" /\ s.msg = m /\ ~s.locked
<1> DEFINE checking == [NoWork EXCEPT !.pc = "check"]
<1>1. NoWork \in Work
  BY GenQueueAssumption DEF NoWork, Work, Labels
<1>2. checking \in Work /\ checking.pc = "check" /\ ~checking.locked
  <2>1. ~NoWork.locked
    BY DEF NoWork
  <2> QED
    BY <1>1, <2>1 DEF Work, Labels
<1>3. s = [checking EXCEPT !.msg = m]
  BY Zenon
<1> HIDE DEF checking
<1> QED
  BY <1>2, <1>3 DEF Work

\* A worker reads an entry, or the reclaimer takes one over.
LEMMA Begins ==
  ASSUME TypeInv, NEW c \in Consumers, NEW m \in Entries,
         con' = [con EXCEPT ![c] = [NoWork EXCEPT !.pc = "check", !.msg = m]]
  PROVE  /\ con' \in [Consumers -> Work]
         /\ con'[c].pc = "check" /\ con'[c].msg = m /\ ~con'[c].locked
         /\ \A d \in Consumers : d # c => con'[d] = con[d]
<1>1. m \in 0..MaxEntries
  BY EntriesAre, GenQueueAssumption DEF TypeInv, TypeOK
<1> DEFINE s == [NoWork EXCEPT !.pc = "check", !.msg = m]
<1>2. s \in Work /\ s.pc = "check" /\ s.msg = m /\ ~s.locked
  BY <1>1, Checking
<1>3. con' = [con EXCEPT ![c] = s]
  OBVIOUS
<1> HIDE DEF s
<1>4. con \in [Consumers -> Work]
  BY DEF TypeInv, TypeOK
<1> QED
  BY <1>2, <1>3, <1>4

LEMMA TypeRead ==
  ASSUME TypeInv, NEW w \in Workers, Read(w)
  PROVE  TypeInv'
<1>1. PICK m \in Entries :
        /\ m > cursor
        /\ cursor' = m
        /\ pending' = pending \cup {m}
        /\ con' = [con EXCEPT ![w] = [NoWork EXCEPT !.pc = "check", !.msg = m]]
  BY DEF Read
<1>2. w \in Consumers
  BY DEF Consumers
<1>3. /\ con' \in [Consumers -> Work]
      /\ con'[w].pc = "check" /\ con'[w].msg = m /\ ~con'[w].locked
      /\ \A d \in Consumers : d # w => con'[d] = con[d]
  BY <1>1, <1>2, Begins
<1>4. Entries = 1..Len(stream) /\ Len(stream) \in Nat
  BY EntriesAre DEF TypeInv, TypeOK
<1>5. stream' = stream
  BY DEF Read
<1>6. TypeOK'
  BY <1>1, <1>3, <1>4 DEF TypeInv, TypeOK, Read, seen
<1>7. InStream'
  BY <1>3, <1>5 DEF TypeInv, InStream, InHand, Entries
<1> QED
  BY <1>6, <1>7 DEF TypeInv

LEMMA TypeTakeNext ==
  ASSUME TypeInv, TakeNext
  PROVE  TypeInv'
<1>1. PICK m \in batch :
        /\ con' = [con EXCEPT ![Reclaimer] = [NoWork EXCEPT !.pc = "check", !.msg = m]]
        /\ batch' = batch \ {m}
  BY DEF TakeNext
<1>2. Reclaimer \in Consumers
  BY DEF Consumers
<1>3. Entries = 1..Len(stream) /\ Len(stream) \in Nat /\ m \in Entries
  BY EntriesAre DEF TypeInv, TypeOK
<1>4. /\ con' \in [Consumers -> Work]
      /\ con'[Reclaimer].pc = "check" /\ con'[Reclaimer].msg = m
      /\ ~con'[Reclaimer].locked
      /\ \A d \in Consumers : d # Reclaimer => con'[d] = con[d]
  BY <1>1, <1>2, <1>3, Begins
<1>5. TypeOK'
  BY <1>1, <1>3, <1>4 DEF TypeInv, TypeOK, TakeNext, seen, redis
<1>6. InStream'
  <2>1. stream' = stream
    BY DEF TakeNext, redis
  <2> QED
    BY <1>3, <1>4, <2>1 DEF TypeInv, InStream, InHand, Entries
<1> QED
  BY <1>5, <1>6 DEF TypeInv
-----------------------------------------------------------------------------
LEMMA FindLabel ==
  ASSUME NEW s \in Work
  PROVE  /\ [s EXCEPT !.pc = "find"] \in Work
         /\ [s EXCEPT !.pc = "find"].pc = "find"
         /\ [s EXCEPT !.pc = "find"].msg = s.msg
BY DEF Work, Labels

LEMMA LockedWork ==
  ASSUME NEW s \in Work
  PROVE  /\ [s EXCEPT !.locked = TRUE] \in Work
         /\ [s EXCEPT !.locked = TRUE].pc = s.pc
         /\ [s EXCEPT !.locked = TRUE].msg = s.msg
         /\ [s EXCEPT !.locked = TRUE].locked
BY DEF Work

\* The consumer that gets the lock.
LEMMA Locks ==
  ASSUME con \in [Consumers -> Work], NEW c \in Consumers, NEW s,
         s = [con[c] EXCEPT !.pc = "find", !.locked = TRUE], con' = [con EXCEPT ![c] = s]
  PROVE  /\ con' \in [Consumers -> Work]
         /\ con'[c].pc = "find" /\ con'[c].msg = con[c].msg /\ con'[c].locked
         /\ \A d \in Consumers : d # c => con'[d] = con[d]
<1> DEFINE finding == [con[c] EXCEPT !.pc = "find"]
<1>1. finding \in Work /\ finding.pc = "find" /\ finding.msg = con[c].msg
  BY FindLabel, Zenon
<1>2. s = [finding EXCEPT !.locked = TRUE]
  BY Zenon
<1> HIDE DEF finding
<1>3. s \in Work /\ s.pc = "find" /\ s.msg = con[c].msg /\ s.locked
  BY <1>1, <1>2, LockedWork, Zenon
<1> QED
  BY <1>3, Zenon

\* What a step of handle does to its consumer.
LEMMA Handles ==
  ASSUME TypeInv, NEW c \in Consumers, Handle(c)
  PROVE  /\ InHand(c)
         /\ con' \in [Consumers -> Work]
         /\ \A d \in Consumers : d # c => con'[d] = con[d]
         /\ \/ con'[c].msg = con[c].msg /\ InHand(c)'
            \/ con'[c] = NoWork
<1> USE DEF TypeInv, TypeOK, At, InHand
<1>1. CASE CheckDone(c)
  BY <1>1, Moves DEF CheckDone, Labels
<1>2. CASE TakeLock(c)
  <2>1. CASE Leave(c)
    BY <1>2, <2>1, Leaves DEF TakeLock
  <2>2. CASE con' = [con EXCEPT ![c] = [@ EXCEPT !.pc = "find", !.locked = TRUE]]
    BY <1>2, <2>2, Locks DEF TakeLock
  <2> QED
    BY <1>2, <2>1, <2>2 DEF TakeLock
<1>3. CASE Find(c)
  BY <1>3, Moves DEF Find, Labels
<1>4. CASE Start(c)
  BY <1>4, Moves DEF Start, Labels
<1>5. CASE Finish(c)
  BY <1>5, Moves DEF Finish, Labels
<1>6. CASE SetDone(c)
  BY <1>6, Moves DEF SetDone, Labels
<1>7. CASE ScheduleRetry(c)
  BY <1>7, Moves DEF ScheduleRetry, Labels
<1>8. CASE ToDead(c)
  BY <1>8, Moves DEF ToDead, Labels
<1>9. CASE Ack(c)
  BY <1>9, Moves, Leaves DEF Ack, Labels
<1>10. CASE Release(c)
  BY <1>10, Leaves DEF Release
<1> QED
  BY <1>1, <1>2, <1>3, <1>4, <1>5, <1>6, <1>7, <1>8, <1>9, <1>10 DEF Handle
LEMMA TypeHandle ==
  ASSUME TypeInv, NEW c \in Consumers, Handle(c)
  PROVE  TypeInv'
<1> DEFINE m == con[c].msg
<1>1. /\ con' \in [Consumers -> Work]
      /\ \A d \in Consumers : con'[d].msg \in {0, con[d].msg}
      /\ \A d \in Consumers : InHand(d)' => InHand(d) /\ con'[d].msg = con[d].msg
  BY Handles DEF NoWork, InHand
<1>2. m \in Entries /\ Exec(m) \in Execs /\ stream[m] \in Tasks
  BY Handles, EntriesAre DEF TypeInv, TypeOK, InStream, Exec, Tasks
<1>3. UNCHANGED <<stream, base, cursor, batch, phase, moving, crashes, direct>>
  BY DEF Handle, CheckDone, TakeLock, Find, Start, Finish, SetDone, ScheduleRetry,
         ToDead, Ack, Release, redis
<1>4. /\ pending' \subseteq pending
      /\ \/ pending' = pending /\ idle' = idle
         \/ \E gone : pending' = pending \ gone /\ idle' = idle \ gone
  BY DEF Handle, CheckDone, TakeLock, Find, Start, Finish, SetDone, ScheduleRetry,
         ToDead, Ack, Release, redis
<1>5. due \subseteq due' /\ due' \subseteq Tasks
  <2>1. CASE ScheduleRetry(c)
    <3>1. due' = due \/ /\ stream[m].retry < MaxRetry
                        /\ due' = due \cup {[stream[m] EXCEPT !.retry = @ + 1]}
      BY <2>1 DEF ScheduleRetry
    <3>2. stream[m].retry < MaxRetry => [stream[m] EXCEPT !.retry = @ + 1] \in Tasks
      BY <1>2, GenQueueAssumption DEF Tasks
    <3> QED
      BY <3>1, <3>2 DEF TypeInv, TypeOK
  <2>2. CASE ~ScheduleRetry(c)
    <3>1. due' = due
      BY <2>2 DEF Handle, CheckDone, TakeLock, Find, Start, Finish, SetDone,
                  ToDead, Ack, Release, redis
    <3> QED
      BY <3>1 DEF TypeInv, TypeOK
  <2> QED
    BY <2>1, <2>2
<1>6. dead' \subseteq Tasks
  BY <1>2 DEF Handle, CheckDone, TakeLock, Find, Start, Finish, SetDone, ScheduleRetry,
              ToDead, Ack, Release, redis, TypeInv, TypeOK
<1>7. doneKey' \subseteq Execs
  BY <1>2 DEF Handle, CheckDone, TakeLock, Find, Start, Finish, SetDone, ScheduleRetry,
              ToDead, Ack, Release, redis, TypeInv, TypeOK
<1>8. lock' \in [Execs -> Consumers \cup {Nobody}]
  BY <1>2 DEF Handle, CheckDone, TakeLock, Find, Start, Finish, SetDone, ScheduleRetry,
              ToDead, Ack, Release, redis, TypeInv, TypeOK
<1>9. status' \in [Execs -> {"none", "pending", "running", "done", "failed"}]
  BY <1>2 DEF Handle, CheckDone, TakeLock, Find, Start, Engine, Finish, SetDone,
              ScheduleRetry, ToDead, Ack, Release, TypeInv, TypeOK
<1>10. runs' \in [Execs -> 0..RunsCap]
  <2>1. runs' = runs \/ Engine(Exec(m))
    BY DEF Handle, CheckDone, TakeLock, Find, Start, Finish, SetDone, ScheduleRetry,
           ToDead, Ack, Release, seen
  <2>2. RunsCap \in Nat
    BY GenQueueAssumption DEF RunsCap
  <2>3. runs \in [Execs -> 0..RunsCap]
    BY DEF TypeInv, TypeOK
  <2> QED
    BY <2>1, <2>2, <2>3 DEF Engine
<1>11. refused' \subseteq Execs
  BY <1>2 DEF Handle, CheckDone, TakeLock, Find, Start, Engine, Finish, Refuse, SetDone,
              ScheduleRetry, ToDead, Ack, Release, seen, TypeInv, TypeOK
<1>12. TypeOK'
  <2>1. /\ idle' \subseteq pending' /\ pending' \subseteq 1..cursor'
        /\ moving' \subseteq due'
    BY <1>3, <1>4, <1>5 DEF TypeInv, TypeOK
  <2>2. /\ stream' \in Seq(Tasks) /\ Len(stream') <= MaxEntries /\ base' \in 0..Len(stream')
        /\ cursor' \in 0..Len(stream') /\ batch' \subseteq 1..Len(stream')
        /\ phase' \in {"clear", "first", "claim", "move"} /\ crashes' \in 0..MaxCrash
        /\ direct' \in [Execs -> {"no", "running", "over"}]
    BY <1>3 DEF TypeInv, TypeOK
  <2>3. \A d \in Consumers : con'[d].msg \in 0..Len(stream')
    <3>1. Len(stream) \in Nat /\ stream' = stream
      BY <1>3, EntriesAre DEF TypeInv, TypeOK
    <3>2. \A d \in Consumers : con[d].msg \in 0..Len(stream)
      BY DEF TypeInv, TypeOK
    <3>3. \A d \in Consumers : con'[d].msg \in 0..Len(stream)
      BY <1>1, <3>1, <3>2
    <3> QED
      BY <3>1, <3>3
  <2> QED
    BY <1>1, <1>5, <1>6, <1>7, <1>8, <1>9, <1>10, <1>11, <2>1, <2>2, <2>3 DEF TypeOK
<1>13. InStream'
  <2>1. Entries' = Entries
    BY <1>3 DEF Entries
  <2> QED
    BY <1>1, <2>1 DEF TypeInv, InStream
<1> QED
  BY <1>12, <1>13 DEF TypeInv

LEMMA TypeLeases ==
  ASSUME TypeInv,
         (\E m \in Entries : LeaseOut(m)) \/ (\E e \in Execs : LockOut(e)) \/ ClearLocks
  PROVE  TypeInv'
<1>1. idle' \subseteq pending
  <2>1. idle' = idle \/ \E m \in pending : idle' = idle \cup {m}
    BY DEF LeaseOut, LockOut, ClearLocks
  <2> QED
    BY <2>1 DEF TypeInv, TypeOK
<1>2. lock' \in [Execs -> Consumers \cup {Nobody}] /\ phase' \in {"clear", "first", "claim", "move"}
  BY DEF LeaseOut, LockOut, ClearLocks, local, TypeInv, TypeOK
<1>3. UNCHANGED <<stream, base, cursor, pending, due, dead, doneKey, status, con, batch,
                  moving, direct, crashes, runs, refused>>
  BY DEF LeaseOut, LockOut, ClearLocks, local, seen
<1>4. TypeOK'
  BY <1>1, <1>2, <1>3 DEF TypeInv, TypeOK
<1>5. InStream'
  BY <1>3 DEF TypeInv, InStream, InHand, Entries
<1> QED
  BY <1>4, <1>5 DEF TypeInv

LEMMA TypeReclaim ==
  ASSUME TypeInv, Claim \/ Tick
  PROVE  TypeInv'
<1>1. UNCHANGED <<stream, base, cursor, due, dead, doneKey, lock, status, con, moving,
                  direct, crashes, runs, refused>>
  BY DEF Claim, Tick, redis, seen
<1>2. /\ pending' \subseteq pending /\ idle' \subseteq pending' /\ batch' \subseteq 1..Len(stream)
      /\ phase' \in {"clear", "first", "claim", "move"}
  <2>1. CASE Claim
    <3>1. PICK old \in SUBSET pending :
            /\ batch' = {m \in old : m > base}
            /\ pending' = {m \in pending : m \in old => m > base}
            /\ idle' = idle \ old
      BY <2>1 DEF Claim, TypeInv, TypeOK
    <3>2. idle \subseteq pending /\ pending \subseteq 1..cursor /\ cursor \in 0..Len(stream)
          /\ Len(stream) \in Nat
      BY EntriesAre DEF TypeInv, TypeOK
    <3>3. pending' \subseteq pending /\ idle' \subseteq pending'
      BY <3>1, <3>2
    <3>4. batch' \subseteq 1..Len(stream)
      <4>1. batch' \subseteq pending
        BY <3>1
      <4>2. pending \subseteq 1..Len(stream)
        BY <3>2
      <4> QED
        BY <4>1, <4>2
    <3> QED
      BY <2>1, <3>3, <3>4 DEF Claim
  <2>2. CASE Tick
    BY <2>2 DEF Tick, redis, TypeInv, TypeOK
  <2> QED
    BY <2>1, <2>2
<1>3. TypeOK'
  BY <1>1, <1>2 DEF TypeInv, TypeOK
<1>4. InStream'
  BY <1>1 DEF TypeInv, InStream, InHand, Entries
<1> QED
  BY <1>3, <1>4 DEF TypeInv

LEMMA TypeMove ==
  ASSUME TypeInv, MoveAdd \/ MoveRemove
  PROVE  TypeInv'
<1>1. Reclaimer \in Consumers
  BY DEF Consumers
<1>2. /\ con' \in [Consumers -> Work]
      /\ \A d \in Consumers : con'[d].msg = con[d].msg
      /\ \A d \in Consumers : InHand(d)' => InHand(d)
  BY <1>1, Moves DEF MoveAdd, MoveRemove, TypeInv, TypeOK, Labels, InHand
<1>3. CASE MoveAdd
  <2>1. PICK t \in due : Add(t) /\ moving' = {t}
    BY <1>3 DEF MoveAdd
  <2>2. /\ stream' \in Seq(Tasks) /\ Len(stream') = Len(stream) + 1 /\ Len(stream) \in Nat
        /\ Len(stream') <= MaxEntries /\ base' \in 0..Len(stream')
    BY <2>1, Added DEF TypeInv, TypeOK
  <2>3. UNCHANGED <<cursor, pending, idle, due, dead, doneKey, lock, status, batch,
                    phase, direct, crashes, runs, refused>>
    BY <1>3 DEF MoveAdd, seen
  <2>4. TypeOK'
    <3>1. /\ cursor' \in 0..Len(stream') /\ batch' \subseteq 1..Len(stream')
          /\ \A d \in Consumers : con'[d].msg \in 0..Len(stream')
      <4>1. cursor \in 0..Len(stream) /\ batch \subseteq 1..Len(stream)
            /\ \A d \in Consumers : con[d].msg \in 0..Len(stream)
        BY DEF TypeInv, TypeOK
      <4>2. 1..Len(stream) \subseteq 1..Len(stream') /\ 0..Len(stream) \subseteq 0..Len(stream')
        BY <2>2
      <4> QED
        BY <1>2, <2>3, <4>1, <4>2
    <3>2. moving' \subseteq due'
      BY <2>1, <2>3
    <3>3. idle' \subseteq pending' /\ pending' \subseteq 1..cursor'
      BY <2>3 DEF TypeInv, TypeOK
    <3> QED
      BY <1>2, <2>2, <2>3, <3>1, <3>2, <3>3 DEF TypeInv, TypeOK
  <2>5. InStream'
    BY <1>2, <2>2, EntriesAre DEF TypeInv, TypeOK, InStream, Entries
  <2> QED
    BY <2>4, <2>5 DEF TypeInv
<1>4. CASE MoveRemove
  <2>1. due' \subseteq due /\ moving' = {}
    BY <1>4 DEF MoveRemove
  <2>2. UNCHANGED <<stream, base, cursor, pending, idle, dead, doneKey, lock, status,
                    batch, phase, direct, crashes, runs, refused>>
    BY <1>4 DEF MoveRemove, seen
  <2>3. TypeOK'
    BY <1>2, <2>1, <2>2 DEF TypeInv, TypeOK
  <2>4. InStream'
    <3>1. Entries' = Entries
      BY <2>2 DEF Entries
    <3> QED
      BY <1>2, <3>1 DEF TypeInv, InStream
  <2> QED
    BY <2>3, <2>4 DEF TypeInv
<1> QED
  BY <1>3, <1>4

LEMMA Restarts ==
  ASSUME TypeInv, Restart
  PROVE  /\ con' \in [Consumers -> Work]
         /\ \A c \in Consumers : con'[c] = NoWork /\ con'[c].msg = 0 /\ ~InHand(c)'
BY GenQueueAssumption DEF Restart, NoWork, Work, Labels, InHand

LEMMA TypeRestart ==
  ASSUME TypeInv, Restart
  PROVE  TypeInv'
<1>1. direct' \in [Execs -> {"no", "running", "over"}] /\ crashes' \in 0..MaxCrash
  BY GenQueueAssumption DEF Restart, TypeInv, TypeOK
<1>2. UNCHANGED <<stream, base, cursor, pending, idle, due, dead, doneKey, lock, status,
                  runs, refused>> /\ batch' = {} /\ phase' = "clear" /\ moving' = {}
  BY DEF Restart, redis, seen
<1>3. TypeOK'
  BY <1>1, <1>2, Restarts, EntriesAre DEF TypeInv, TypeOK
<1> QED
  BY <1>3, Restarts DEF TypeInv, InStream

LEMMA TypeStep ==
  ASSUME TypeInv, [Next]_vars
  PROVE  TypeInv'
<1>1. CASE UNCHANGED vars
  BY <1>1 DEF vars, redis, local, seen, TypeInv, TypeOK, InStream, InHand, Entries
<1>2. CASE \E e \in Execs : Enqueue(e) \/ RunDirect(e) \/ FinishDirect(e)
  BY <1>2, TypeSubmit
<1>3. CASE \E w \in Workers : Read(w)
  BY <1>3, TypeRead
<1>4. CASE \E c \in Consumers : Handle(c)
  BY <1>4, TypeHandle
<1>5. CASE (\E m \in Entries : LeaseOut(m)) \/ (\E e \in Execs : LockOut(e)) \/ ClearLocks
  BY <1>5, TypeLeases
<1>6. CASE Claim \/ Tick
  BY <1>6, TypeReclaim
<1>7. CASE MoveAdd \/ MoveRemove
  BY <1>7, TypeMove
<1>8. CASE TakeNext
  BY <1>8, TypeTakeNext
<1>9. CASE Restart
  BY <1>9, TypeRestart
<1> QED
  BY <1>1, <1>2, <1>3, <1>4, <1>5, <1>6, <1>7, <1>8, <1>9 DEF Next, Reclaim

\* Every reachable state has the types of TypeOK, and every consumer past
\* XREADGROUP or XAUTOCLAIM holds an entry of the stream.
THEOREM TypeCorrect == Spec => []TypeInv
<1>1. Init => TypeInv
  BY TypeInit
<1>2. TypeInv /\ [Next]_vars => TypeInv'
  BY TypeStep
<1> QED
  BY <1>1, <1>2, PTL DEF Spec
-----------------------------------------------------------------------------
(* Who has which entry *)

\* A consumer holds one entry that was read, is its own and nobody else's, and
\* stays pending until it is acknowledged.
HandAt(c) ==
  /\ ~InHand(c) => con[c].msg = 0 /\ ~con[c].locked
  /\ InHand(c) =>
       /\ con[c].msg \in 1..cursor
       /\ con[c].msg \notin batch
       /\ c \in Workers => con[c].msg \notin idle
       /\ con[c].pc # "release" => con[c].msg \in pending
       /\ \A d \in Consumers : InHand(d) /\ con[d].msg = con[c].msg => d = c
  /\ con[c].pc = "moving" => c = Reclaimer
  /\ con[c].pc \in {"check", "lock"} => ~con[c].locked
  /\ con[c].pc \in {"find", "start", "running", "setDone", "retry", "dead", "release"} =>
       con[c].locked

ReclaimerAt ==
  /\ batch \subseteq pending
  /\ phase # "move" => batch = {} /\ At(Reclaimer, "idle")
  /\ moving # {} => At(Reclaimer, "moving")

Hands == (\A c \in Consumers : HandAt(c)) /\ ReclaimerAt

LEMMA HandsInit ==
  Init => Hands
BY DEF Init, Hands, HandAt, ReclaimerAt, InHand, NoWork, At, Consumers

\* The labels of handle.
LEMMA Labelled ==
  ASSUME TypeInv, NEW c \in Consumers, Handle(c)
  PROVE  \/ /\ con[c].pc = "check"
            /\ con'[c].pc \in {"lock", "ack"} /\ con'[c].locked = con[c].locked
         \/ con[c].pc = "lock" /\ con'[c].pc = "find" /\ con'[c].locked
         \/ /\ con[c].pc \in {"find", "start", "running", "setDone", "retry", "dead"}
            /\ con'[c].pc \in {"start", "running", "setDone", "retry", "dead", "ack"}
            /\ con'[c].locked = con[c].locked
         \/ con[c].pc = "ack" /\ con'[c].pc = "release" /\ con[c].locked /\ con'[c].locked
         \/ con[c].pc = "ack" /\ con'[c] = NoWork /\ ~con[c].locked
         \/ con[c].pc \in {"lock", "release"} /\ con'[c] = NoWork
<1> USE DEF TypeInv, TypeOK, At
<1>1. CASE CheckDone(c)
  BY <1>1, Moves DEF CheckDone, Labels
<1>2. CASE TakeLock(c)
  <2>1. CASE Leave(c)
    BY <1>2, <2>1, Leaves DEF TakeLock
  <2>2. CASE con' = [con EXCEPT ![c] = [@ EXCEPT !.pc = "find", !.locked = TRUE]]
    BY <1>2, <2>2, Locks DEF TakeLock
  <2> QED
    BY <1>2, <2>1, <2>2 DEF TakeLock
<1>3. CASE Find(c)
  BY <1>3, Moves DEF Find, Labels
<1>4. CASE Start(c)
  BY <1>4, Moves DEF Start, Labels
<1>5. CASE Finish(c)
  BY <1>5, Moves DEF Finish, Labels
<1>6. CASE SetDone(c)
  BY <1>6, Moves DEF SetDone, Labels
<1>7. CASE ScheduleRetry(c)
  BY <1>7, Moves DEF ScheduleRetry, Labels
<1>8. CASE ToDead(c)
  BY <1>8, Moves DEF ToDead, Labels
<1>9. CASE Ack(c)
  BY <1>9, Moves, Leaves DEF Ack, Labels
<1>10. CASE Release(c)
  BY <1>10, Leaves DEF Release
<1> QED
  BY <1>1, <1>2, <1>3, <1>4, <1>5, <1>6, <1>7, <1>8, <1>9, <1>10 DEF Handle

\* Only Ack takes an entry from the pending ones, and only its own.
LEMMA Acks ==
  ASSUME NEW c \in Consumers, Handle(c)
  PROVE  /\ con[c].pc # "ack" => pending' = pending /\ idle' = idle
         /\ con[c].pc = "ack" => \/ pending' = pending /\ idle' = idle
                                 \/ /\ pending' = pending \ {con[c].msg}
                                    /\ idle' = idle \ {con[c].msg}
BY DEF Handle, CheckDone, TakeLock, Find, Start, Finish, SetDone, ScheduleRetry, ToDead,
       Ack, Release, redis, At

\* handle leaves the stream, the reclaimer's batch and its phase alone.
LEMMA Untouched ==
  ASSUME NEW c \in Consumers, Handle(c)
  PROVE  UNCHANGED <<stream, base, cursor, batch, phase, moving, crashes, direct>>
BY DEF Handle, CheckDone, TakeLock, Find, Start, Finish, SetDone, ScheduleRetry, ToDead,
       Ack, Release, redis

LEMMA HandsHandle ==
  ASSUME TypeInv, Hands, NEW c \in Consumers, Handle(c)
  PROVE  Hands'
<1>1. /\ InHand(c)
      /\ \A d \in Consumers : d # c => con'[d] = con[d]
      /\ \/ con'[c].msg = con[c].msg /\ InHand(c)'
         \/ con'[c] = NoWork
  BY Handles
<1>2. ~InHand(c)' => con'[c].msg = 0 /\ ~con'[c].locked
  BY <1>1, Labelled DEF NoWork, InHand
<1>3. UNCHANGED <<stream, base, cursor, batch, phase, moving>>
  BY Untouched
<1>4. ReclaimerAt'
  <2>1. batch \subseteq pending'
    BY <1>1, Acks DEF Hands, HandAt, ReclaimerAt
  <2>2. phase # "move" => c # Reclaimer
    BY <1>1 DEF Hands, ReclaimerAt, At, InHand
  <2>3. moving # {} => c # Reclaimer
    BY <1>1 DEF Hands, ReclaimerAt, At, InHand
  <2>4. Reclaimer \in Consumers
    BY DEF Consumers
  <2> QED
    BY <1>1, <1>3, <2>1, <2>2, <2>3, <2>4 DEF Hands, ReclaimerAt, At
<1>5. HandAt(c)'
  <2>1. ASSUME InHand(c)'
        PROVE  /\ con'[c].msg \in 1..cursor
               /\ con'[c].msg \notin batch
               /\ c \in Workers => con'[c].msg \notin idle'
               /\ con'[c].pc # "release" => con'[c].msg \in pending'
               /\ \A d \in Consumers : InHand(d)' /\ con'[d].msg = con'[c].msg => d = c
    <3>1. con'[c].msg = con[c].msg
      BY <1>1, <2>1 DEF NoWork, InHand
    <3>2. con[c].msg \in 1..cursor /\ con[c].msg \notin batch
      BY <1>1 DEF Hands, HandAt
    <3>3. c \in Workers => con'[c].msg \notin idle'
      BY <1>1, <3>1, Acks DEF Hands, HandAt
    <3>4. con'[c].pc # "release" => con'[c].msg \in pending'
      BY <1>1, <2>1, <3>1, Acks, Labelled DEF Hands, HandAt, NoWork, InHand
    <3>5. \A d \in Consumers : InHand(d)' /\ con'[d].msg = con'[c].msg => d = c
      BY <1>1, <3>1 DEF Hands, HandAt, InHand
    <3> QED
      BY <3>1, <3>2, <3>3, <3>4, <3>5
  <2>2. /\ con'[c].pc # "moving"
        /\ con'[c].pc \in {"check", "lock"} => ~con'[c].locked
        /\ con'[c].pc \in {"find", "start", "running", "setDone", "retry", "dead", "release"} =>
             con'[c].locked
    BY Labelled DEF Hands, HandAt, NoWork
  <2> QED
    BY <1>2, <1>3, <2>1, <2>2 DEF HandAt
<1>6. ASSUME NEW d \in Consumers, d # c
      PROVE  HandAt(d)'
  <2>1. con'[d] = con[d]
    BY <1>1, <1>6
  <2>2. ASSUME InHand(d)
        PROVE  /\ d \in Workers => con[d].msg \notin idle'
               /\ con[d].pc # "release" => con[d].msg \in pending'
               /\ \A b \in Consumers : InHand(b)' /\ con'[b].msg = con[d].msg => b = d
    <3>1. con[d].msg # con[c].msg
      BY <1>1, <1>6, <2>2 DEF Hands, HandAt
    <3>2. con[d].pc # "release" => con[d].msg \in pending'
      BY <2>2, <3>1, Acks DEF Hands, HandAt
    <3>3. d \in Workers => con[d].msg \notin idle'
      BY <2>2, Acks DEF Hands, HandAt
    <3>4. \A b \in Consumers : InHand(b)' /\ con'[b].msg = con[d].msg => b = d
      BY <1>1, <2>2, <3>1 DEF Hands, HandAt, InHand, NoWork
    <3> QED
      BY <3>2, <3>3, <3>4
  <2>3. HandAt(d)
    BY DEF Hands
  <2> QED
    BY <1>3, <2>1, <2>2, <2>3 DEF HandAt, InHand
<1> QED
  BY <1>4, <1>5, <1>6 DEF Hands
LEMMA HandsRead ==
  ASSUME TypeInv, Hands, NEW w \in Workers, Read(w)
  PROVE  Hands'
<1>1. PICK m \in Entries :
        /\ m > cursor
        /\ cursor' = m
        /\ pending' = pending \cup {m}
        /\ con' = [con EXCEPT ![w] = [NoWork EXCEPT !.pc = "check", !.msg = m]]
  BY DEF Read
<1>2. w \in Consumers /\ Reclaimer \in Consumers /\ w # Reclaimer /\ ~InHand(w)
  BY GenQueueAssumption DEF Consumers, Read, At, InHand
<1>3. /\ con'[w].pc = "check" /\ con'[w].msg = m /\ ~con'[w].locked
      /\ \A d \in Consumers : d # w => con'[d] = con[d]
  BY <1>1, <1>2, Begins
<1>4. UNCHANGED <<stream, base, idle, batch, phase, moving>>
  BY DEF Read
<1>5. m \in Int /\ cursor \in Nat /\ m \in 1..cursor' /\ \A n \in 1..cursor : n < m /\ n \in 1..cursor'
  BY <1>1, EntriesAre DEF TypeInv, TypeOK
<1>6. m \notin batch /\ m \notin idle
  BY <1>5 DEF TypeInv, TypeOK, Hands, ReclaimerAt
<1>7. ReclaimerAt'
  BY <1>1, <1>2, <1>3, <1>4 DEF Hands, ReclaimerAt, At
<1>8. HandAt(w)'
  <2>1. \A d \in Consumers : InHand(d)' /\ con'[d].msg = m => d = w
    BY <1>3, <1>5 DEF Hands, HandAt, InHand
  <2> QED
    BY <1>1, <1>3, <1>4, <1>5, <1>6, <2>1 DEF HandAt, InHand
<1>9. ASSUME NEW d \in Consumers, d # w
      PROVE  HandAt(d)'
  <2>1. con'[d] = con[d] /\ HandAt(d) /\ pending \subseteq pending'
    BY <1>1, <1>3, <1>9 DEF Hands
  <2>2. InHand(d) => con[d].msg \in 1..cursor' /\ con[d].msg # m
    BY <1>5, <2>1 DEF HandAt
  <2>3. InHand(d) => \A b \in Consumers : InHand(b)' /\ con'[b].msg = con[d].msg => b = d
    BY <1>3, <2>1, <2>2 DEF HandAt, InHand
  <2> QED
    BY <1>4, <2>1, <2>2, <2>3 DEF HandAt, InHand
<1> QED
  BY <1>7, <1>8, <1>9 DEF Hands

LEMMA HandsTakeNext ==
  ASSUME TypeInv, Hands, TakeNext
  PROVE  Hands'
<1>1. PICK m \in batch :
        /\ con' = [con EXCEPT ![Reclaimer] = [NoWork EXCEPT !.pc = "check", !.msg = m]]
        /\ batch' = batch \ {m}
  BY DEF TakeNext
<1>2. Reclaimer \in Consumers /\ Reclaimer \notin Workers /\ ~InHand(Reclaimer)
  BY GenQueueAssumption DEF Consumers, TakeNext, At, InHand
<1>3. m \in Entries /\ m \in pending /\ m \in 1..cursor
  BY EntriesAre DEF TypeInv, TypeOK, Hands, ReclaimerAt
<1>4. /\ con'[Reclaimer].pc = "check" /\ con'[Reclaimer].msg = m /\ ~con'[Reclaimer].locked
      /\ \A d \in Consumers : d # Reclaimer => con'[d] = con[d]
  BY <1>1, <1>2, <1>3, Begins
<1>5. UNCHANGED <<stream, base, cursor, pending, idle, phase, moving>>
  BY DEF TakeNext, redis
<1>6. phase = "move" /\ moving = {}
  BY <1>1 DEF Hands, ReclaimerAt, TakeNext, At
<1>7. ReclaimerAt'
  BY <1>1, <1>5, <1>6 DEF Hands, ReclaimerAt
<1>8. HandAt(Reclaimer)'
  <2>1. \A d \in Consumers : InHand(d)' /\ con'[d].msg = m => d = Reclaimer
    BY <1>1, <1>4 DEF Hands, HandAt, InHand
  <2> QED
    BY <1>1, <1>2, <1>3, <1>4, <1>5, <2>1 DEF HandAt, InHand
<1>9. ASSUME NEW d \in Consumers, d # Reclaimer
      PROVE  HandAt(d)'
  <2>1. con'[d] = con[d] /\ HandAt(d)
    BY <1>4, <1>9 DEF Hands
  <2>2. InHand(d) => con[d].msg \notin batch' /\ con[d].msg # m
    BY <1>1, <2>1 DEF HandAt
  <2>3. InHand(d) => \A b \in Consumers : InHand(b)' /\ con'[b].msg = con[d].msg => b = d
    BY <1>4, <2>1, <2>2 DEF HandAt, InHand
  <2> QED
    BY <1>5, <2>1, <2>2, <2>3 DEF HandAt, InHand
<1> QED
  BY <1>7, <1>8, <1>9 DEF Hands

\* Without a stall the lease of an entry in hand does not run out.
LEMMA HandsLeases ==
  ASSUME TypeInv, Hands, ~Stall,
         (\E m \in Entries : LeaseOut(m)) \/ (\E e \in Execs : LockOut(e)) \/ ClearLocks
  PROVE  Hands'
<1>1. UNCHANGED <<stream, base, cursor, pending, con, batch, moving>>
  BY DEF LeaseOut, LockOut, ClearLocks, local
<1>2. \A c \in Consumers : con[c].msg \in idle' => con[c].msg \in idle
  <2>1. idle' = idle \/ \E m \in Entries : /\ \A c \in Consumers : con[c].msg # m
                                           /\ idle' = idle \cup {m}
    BY DEF LeaseOut, LockOut, ClearLocks
  <2> QED
    BY <2>1
<1>3. phase' = phase \/ (phase = "clear" /\ phase' = "first")
  BY DEF LeaseOut, LockOut, ClearLocks, local
<1>4. ReclaimerAt'
  BY <1>1, <1>3 DEF Hands, ReclaimerAt, At
<1>5. ASSUME NEW c \in Consumers
      PROVE  HandAt(c)'
  BY <1>1, <1>2 DEF Hands, HandAt, InHand
<1> QED
  BY <1>4, <1>5 DEF Hands

LEMMA Claims ==
  ASSUME TypeInv, Hands, ~Stall, Claim
  PROVE  \E old \in SUBSET pending :
           /\ batch' = {m \in old : m > base}
           /\ pending' = {m \in pending : m \in old => m > base}
           /\ idle' = idle \ old
           /\ \A c \in Consumers : InHand(c) => con[c].msg \notin old
<1>1. CASE phase = "claim"
  <2>1. \A c \in Consumers : InHand(c) => c \in Workers
    BY <1>1 DEF Hands, ReclaimerAt, At, InHand, Consumers
  <2>2. \A c \in Consumers : InHand(c) => con[c].msg \notin idle
    BY <2>1 DEF Hands, HandAt
  <2>3. idle \in SUBSET pending
    BY DEF TypeInv, TypeOK
  <2>4. /\ batch' = {m \in idle : m > base}
        /\ pending' = {m \in pending : m \in idle => m > base}
        /\ idle' = idle \ idle
    BY <1>1 DEF Claim
  <2> QED
    BY <2>2, <2>3, <2>4
<1>2. CASE phase # "claim"
  BY <1>2 DEF Claim
<1> QED
  BY <1>1, <1>2

LEMMA HandsReclaim ==
  ASSUME TypeInv, Hands, ~Stall, Claim \/ Tick
  PROVE  Hands'
<1>1. CASE Claim
  <2>1. PICK old \in SUBSET pending :
          /\ batch' = {m \in old : m > base}
          /\ pending' = {m \in pending : m \in old => m > base}
          /\ idle' = idle \ old
          /\ \A c \in Consumers : InHand(c) => con[c].msg \notin old
    BY <1>1, Claims
  <2>2. UNCHANGED <<cursor, con, moving>> /\ phase' = "move"
    BY <1>1 DEF Claim
  <2>3. ReclaimerAt'
    BY <2>1, <2>2 DEF Hands, ReclaimerAt, At
  <2>4. ASSUME NEW c \in Consumers
        PROVE  HandAt(c)'
    <3>1. HandAt(c)
      BY DEF Hands
    <3>2. InHand(c) => /\ con[c].msg \notin batch'
                       /\ con[c].msg \in idle' => con[c].msg \in idle
                       /\ con[c].msg \in pending => con[c].msg \in pending'
      BY <2>1
    <3> QED
      BY <2>2, <3>1, <3>2 DEF HandAt, InHand
  <2> QED
    BY <2>3, <2>4 DEF Hands
<1>2. CASE Tick
  <2>1. UNCHANGED <<cursor, pending, idle, con, batch, moving>>
        /\ batch = {} /\ At(Reclaimer, "idle") /\ phase' = "claim"
    BY <1>2 DEF Tick, redis
  <2>2. ReclaimerAt'
    BY <2>1 DEF Hands, ReclaimerAt, At
  <2>3. \A c \in Consumers : HandAt(c)'
    BY <2>1 DEF Hands, HandAt, InHand
  <2> QED
    BY <2>2, <2>3 DEF Hands
<1> QED
  BY <1>1, <1>2

\* What moving a retry does to the reclaimer.
LEMMA Moved ==
  ASSUME TypeInv, MoveAdd \/ MoveRemove
  PROVE  /\ con' \in [Consumers -> Work]
         /\ \A d \in Consumers : con'[d].msg = con[d].msg /\ con'[d].locked = con[d].locked
         /\ \A d \in Consumers : d # Reclaimer => con'[d] = con[d]
         /\ \A d \in Consumers : InHand(d)' <=> InHand(d)
         /\ ~InHand(Reclaimer) /\ ~InHand(Reclaimer)'
         /\ MoveAdd => con'[Reclaimer].pc = "moving"
         /\ MoveRemove => con'[Reclaimer].pc = "idle"
<1>1. Reclaimer \in Consumers
  BY DEF Consumers
<1> QED
  BY <1>1, Moves DEF MoveAdd, MoveRemove, TypeInv, TypeOK, Labels, InHand, At

LEMMA HandsMove ==
  ASSUME TypeInv, Hands, MoveAdd \/ MoveRemove
  PROVE  Hands'
<1>1. UNCHANGED <<cursor, pending, idle, batch, phase>>
  BY DEF MoveAdd, MoveRemove
<1>2. ReclaimerAt'
  <2>1. CASE MoveAdd
    BY <1>1, <2>1, Moved DEF Hands, ReclaimerAt, MoveAdd, At
  <2>2. CASE MoveRemove
    BY <1>1, <2>2, Moved DEF Hands, ReclaimerAt, MoveRemove, At
  <2> QED
    BY <2>1, <2>2
<1>3. ASSUME NEW d \in Consumers
      PROVE  HandAt(d)'
  <2>1. CASE d = Reclaimer
    <3>1. HandAt(d)
      BY DEF Hands
    <3> QED
      BY <2>1, <3>1, Moved DEF HandAt, InHand
  <2>2. CASE d # Reclaimer
    <3>1. HandAt(d) /\ con'[d] = con[d]
      BY <2>2, Moved DEF Hands
    <3>2. InHand(d) => \A b \in Consumers : InHand(b)' /\ con'[b].msg = con[d].msg => b = d
      BY <3>1, Moved DEF HandAt
    <3> QED
      BY <1>1, <3>1, <3>2 DEF HandAt, InHand
  <2> QED
    BY <2>1, <2>2
<1> QED
  BY <1>2, <1>3 DEF Hands

LEMMA HandsRestart ==
  ASSUME TypeInv, Hands, Restart
  PROVE  Hands'
<1>1. \A c \in Consumers : HandAt(c)'
  BY Restarts DEF HandAt, NoWork
<1>2. Reclaimer \in Consumers /\ At(Reclaimer, "idle")'
  BY Restarts DEF At, Consumers, NoWork
<1>3. ReclaimerAt'
  BY <1>2 DEF ReclaimerAt, Restart
<1> QED
  BY <1>1, <1>3 DEF Hands

LEMMA HandsStep ==
  ASSUME TypeInv, Hands, ~Stall, [Next]_vars
  PROVE  Hands'
<1>1. CASE UNCHANGED vars
  BY <1>1 DEF vars, redis, local, Hands, HandAt, ReclaimerAt, InHand, At
<1>2. CASE \E e \in Execs : Enqueue(e) \/ RunDirect(e) \/ FinishDirect(e)
  <2>1. UNCHANGED <<cursor, pending, idle, con, batch, phase, moving>>
    BY <1>2 DEF Enqueue, RunDirect, FinishDirect, redis, local
  <2> QED
    BY <2>1 DEF Hands, HandAt, ReclaimerAt, InHand, At
<1>3. CASE \E w \in Workers : Read(w)
  BY <1>3, HandsRead
<1>4. CASE \E c \in Consumers : Handle(c)
  BY <1>4, HandsHandle
<1>5. CASE (\E m \in Entries : LeaseOut(m)) \/ (\E e \in Execs : LockOut(e)) \/ ClearLocks
  BY <1>5, HandsLeases
<1>6. CASE Claim \/ Tick
  BY <1>6, HandsReclaim
<1>7. CASE MoveAdd \/ MoveRemove
  BY <1>7, HandsMove
<1>8. CASE TakeNext
  BY <1>8, HandsTakeNext
<1>9. CASE Restart
  BY <1>9, HandsRestart
<1> QED
  BY <1>1, <1>2, <1>3, <1>4, <1>5, <1>6, <1>7, <1>8, <1>9 DEF Next, Reclaim
-----------------------------------------------------------------------------
(* What a step adds to the stream and to the retry set *)

\* Only what was enqueued has an entry, a retry or a run of its own.
Born ==
  /\ \A m \in Entries : status[Exec(m)] # "none"
  /\ \A t \in due : status[t.exec] # "none"
  /\ \A e \in Execs : direct[e] # "no" => status[e] # "none"

LEMMA BornInit ==
  Init => Born
BY DEF Init, Born, Entries

LEMMA StaysBorn ==
  ASSUME TypeInv, [Next]_vars, NEW e \in Execs, status[e] # "none"
  PROVE  status'[e] # "none"
<1>1. CASE UNCHANGED vars
  BY <1>1 DEF vars
<1>2. CASE \E d \in Execs : Enqueue(d) \/ RunDirect(d) \/ FinishDirect(d) \/ LockOut(d)
  BY <1>2 DEF Enqueue, RunDirect, FinishDirect, LockOut, TypeInv, TypeOK
<1>3. CASE \E w \in Workers : Read(w)
  BY <1>3 DEF Read
<1>4. CASE \E c \in Consumers : Handle(c)
  BY <1>4 DEF Handle, CheckDone, TakeLock, Find, Start, Engine, Finish, SetDone,
              ScheduleRetry, ToDead, Ack, Release, TypeInv, TypeOK
<1>5. CASE (\E m \in Entries : LeaseOut(m)) \/ Reclaim \/ Restart
  BY <1>5 DEF LeaseOut, Reclaim, TakeNext, ClearLocks, Claim, MoveAdd, MoveRemove, Tick, Restart
<1> QED
  BY <1>1, <1>2, <1>3, <1>4, <1>5 DEF Next

\* The stream grows by one entry, of an execution enqueued by this step or of
\* a retry that is due.
LEMMA StreamGrows ==
  ASSUME TypeInv, [Next]_vars
  PROVE  /\ Entries \subseteq Entries'
         /\ \A m \in Entries : stream'[m] = stream[m]
         /\ \A m \in Entries' : m \notin Entries =>
              /\ m = Len(stream) + 1
              /\ \/ \E e \in Execs : /\ Enqueue(e) \/ (RunDirect(e) /\ "reply" \in Faults)
                                     /\ stream'[m] = [exec |-> e, retry |-> 0]
                 \/ MoveAdd /\ stream'[m] \in due /\ moving' = {stream'[m]}
<1>1. CASE stream' = stream
  BY <1>1 DEF Entries
<1>2. CASE \E task \in Tasks :
             /\ Add(task)
             /\ \/ \E e \in Execs : /\ Enqueue(e) \/ (RunDirect(e) /\ "reply" \in Faults)
                                    /\ task = [exec |-> e, retry |-> 0]
                \/ MoveAdd /\ task \in due /\ moving' = {task}
  <2>1. PICK task \in Tasks :
             /\ Add(task)
             /\ \/ \E e \in Execs : /\ Enqueue(e) \/ (RunDirect(e) /\ "reply" \in Faults)
                                    /\ task = [exec |-> e, retry |-> 0]
                \/ MoveAdd /\ task \in due /\ moving' = {task}
    BY <1>2
  <2>2. /\ stream' \in Seq(Tasks) /\ Len(stream') = Len(stream) + 1 /\ Len(stream) \in Nat
        /\ \A m \in 1..Len(stream) : stream'[m] = stream[m]
        /\ stream'[Len(stream) + 1] = task
    BY <2>1, Added DEF TypeInv, TypeOK
  <2>3. Entries = 1..Len(stream) /\ Entries' = 1..(Len(stream) + 1)
    BY <2>2, EntriesAre DEF TypeInv, TypeOK, Entries
  <2>4. \A m \in Entries' : m \notin Entries => m = Len(stream) + 1
    BY <2>2, <2>3
  <2> QED
    BY <2>1, <2>2, <2>3, <2>4
<1>3. CASE \E e \in Execs : Enqueue(e) \/ RunDirect(e) \/ FinishDirect(e) \/ LockOut(e)
  <2>1. PICK e \in Execs : Enqueue(e) \/ RunDirect(e) \/ FinishDirect(e) \/ LockOut(e)
    BY <1>3
  <2>2. [exec |-> e, retry |-> 0] \in Tasks
    BY GenQueueAssumption DEF Tasks
  <2>3. \/ stream' = stream
        \/ /\ Add([exec |-> e, retry |-> 0])
           /\ Enqueue(e) \/ (RunDirect(e) /\ "reply" \in Faults)
    BY <2>1 DEF Enqueue, RunDirect, FinishDirect, LockOut, redis
  <2> QED
    BY <1>1, <1>2, <2>2, <2>3
<1>4. CASE MoveAdd
  <2>1. PICK t \in due : Add(t) /\ moving' = {t}
    BY <1>4 DEF MoveAdd
  <2>2. t \in Tasks
    BY DEF TypeInv, TypeOK
  <2> QED
    BY <1>2, <1>4, <2>1, <2>2
<1>5. CASE UNCHANGED vars
  BY <1>1, <1>5 DEF vars, redis
<1>6. CASE \E c \in Consumers : Handle(c)
  BY <1>1, <1>6, Untouched
<1>7. CASE \/ \E w \in Workers : Read(w)
           \/ \E m \in Entries : LeaseOut(m)
           \/ TakeNext \/ ClearLocks \/ Claim \/ MoveRemove \/ Tick \/ Restart
  BY <1>1, <1>7 DEF Read, LeaseOut, TakeNext, ClearLocks, Claim, MoveRemove, Tick, Restart, redis
<1> QED
  BY <1>3, <1>4, <1>5, <1>6, <1>7 DEF Next, Reclaim

\* The retry set grows by the retry a consumer schedules.
LEMMA DueGrows ==
  ASSUME TypeInv, [Next]_vars
  PROVE  /\ \A t \in due' : t \notin due =>
              \E c \in Consumers :
                /\ ScheduleRetry(c)
                /\ stream[con[c].msg].retry < MaxRetry
                /\ t.exec = Exec(con[c].msg) /\ t.retry = stream[con[c].msg].retry + 1
         /\ \A t, u \in due' : t \notin due /\ u \notin due => t = u
<1>1. CASE \E c \in Consumers : ScheduleRetry(c)
  <2>1. PICK c \in Consumers : ScheduleRetry(c)
    BY <1>1
  <2>2. stream[con[c].msg] \in Tasks
    BY <2>1, EntriesAre DEF ScheduleRetry, At, TypeInv, TypeOK, InStream, InHand
  <2> DEFINE u == [stream[con[c].msg] EXCEPT !.retry = @ + 1]
  <2>3. u.exec = Exec(con[c].msg) /\ u.retry = stream[con[c].msg].retry + 1
    BY <2>2 DEF Tasks, Exec
  <2>4. due' = due \/ (stream[con[c].msg].retry < MaxRetry /\ due' = due \cup {u})
    BY <2>1 DEF ScheduleRetry
  <2> HIDE DEF u
  <2> QED
    BY <2>1, <2>3, <2>4
<1>2. CASE \E c \in Consumers : Handle(c) /\ ~ScheduleRetry(c)
  BY <1>2 DEF Handle, CheckDone, TakeLock, Find, Start, Finish, SetDone, ToDead, Ack, Release,
              redis
<1>3. CASE due' \subseteq due
  BY <1>3
<1>4. CASE \E e \in Execs : Enqueue(e) \/ RunDirect(e) \/ FinishDirect(e) \/ LockOut(e)
  BY <1>3, <1>4 DEF Enqueue, RunDirect, FinishDirect, LockOut, redis
<1>5. CASE (\E w \in Workers : Read(w)) \/ (\E m \in Entries : LeaseOut(m)) \/ Reclaim \/ Restart
  BY <1>3, <1>5 DEF Read, LeaseOut, Reclaim, TakeNext, ClearLocks, Claim, MoveAdd, MoveRemove,
                    Tick, Restart, redis
<1>6. CASE UNCHANGED vars
  BY <1>3, <1>6 DEF vars, redis
<1> QED
  BY <1>1, <1>2, <1>4, <1>5, <1>6 DEF Next

\* A run without the queue starts with RunDirect.
LEMMA DirectStarts ==
  ASSUME TypeInv, [Next]_vars, NEW e \in Execs, direct[e] = "no", direct'[e] # "no"
  PROVE  RunDirect(e)
<1>1. CASE \E d \in Execs : RunDirect(d)
  BY <1>1 DEF RunDirect, TypeInv, TypeOK
<1>2. CASE \E d \in Execs : Enqueue(d) \/ FinishDirect(d) \/ LockOut(d)
  BY <1>2 DEF Enqueue, FinishDirect, LockOut, TypeInv, TypeOK
<1>3. CASE \E c \in Consumers : Handle(c)
  BY <1>3, Untouched
<1>4. CASE \/ (\E w \in Workers : Read(w)) \/ (\E m \in Entries : LeaseOut(m))
           \/ Reclaim \/ Restart \/ UNCHANGED vars
  BY <1>4 DEF Read, LeaseOut, Reclaim, TakeNext, ClearLocks, Claim, MoveAdd, MoveRemove, Tick,
              Restart, vars, TypeInv, TypeOK
<1> QED
  BY <1>1, <1>2, <1>3, <1>4 DEF Next

LEMMA BornStep ==
  ASSUME TypeInv, Born, [Next]_vars
  PROVE  Born'
<1>1. \A m \in Entries : Exec(m) \in Execs
  BY EntriesAre DEF TypeInv, TypeOK, Exec, Tasks
<1>2. ASSUME NEW m \in Entries'
      PROVE  status'[Exec(m)'] # "none"
  <2>1. CASE m \in Entries
    <3>1. Exec(m)' = Exec(m)
      BY <2>1, StreamGrows DEF Exec
    <3> QED
      BY <1>1, <2>1, <3>1, StaysBorn DEF Born
  <2>2. CASE m \notin Entries
    <3>1. CASE \E e \in Execs : /\ Enqueue(e) \/ RunDirect(e)
                                /\ stream'[m] = [exec |-> e, retry |-> 0]
      BY <3>1 DEF Enqueue, RunDirect, Exec, TypeInv, TypeOK
    <3>2. CASE stream'[m] \in due
      BY <3>2, StaysBorn DEF Exec, Born, TypeInv, TypeOK, Tasks
    <3> QED
      BY <2>2, <3>1, <3>2, StreamGrows
  <2> QED
    BY <2>1, <2>2
<1>3. ASSUME NEW t \in due'
      PROVE  status'[t.exec] # "none"
  <2>1. CASE t \in due
    BY <2>1, StaysBorn DEF Born, TypeInv, TypeOK, Tasks
  <2>2. CASE t \notin due
    <3>1. PICK c \in Consumers : ScheduleRetry(c) /\ t.exec = Exec(con[c].msg)
      BY <2>2, DueGrows
    <3>2. con[c].msg \in Entries
      BY <3>1 DEF ScheduleRetry, At, TypeInv, InStream, InHand
    <3> QED
      BY <1>1, <3>1, <3>2, StaysBorn DEF Born
  <2> QED
    BY <2>1, <2>2
<1>4. ASSUME NEW e \in Execs, direct'[e] # "no"
      PROVE  status'[e] # "none"
  <2>1. CASE direct[e] # "no"
    BY <2>1, StaysBorn DEF Born
  <2>2. CASE direct[e] = "no"
    <3>1. RunDirect(e)
      BY <1>4, <2>2, DirectStarts
    <3> QED
      BY <3>1 DEF RunDirect, TypeInv, TypeOK
  <2> QED
    BY <2>1, <2>2
<1> QED
  BY <1>2, <1>3, <1>4 DEF Born
-----------------------------------------------------------------------------
(* No task is lost *)

Unread(m) == m \in Entries /\ m > cursor /\ m > base
Live(m) == Unread(m) \/ m \in pending

\* The stream is kept long enough, and Redis takes what is dead-lettered.
Roomy == ~Stall /\ "dead" \notin Faults /\ MaxEntries <= MaxLen

\* configs/config.yaml:51 allows one retry.
OneRetry == MaxRetry <= 1

\* An execution is enqueued once; a retry is scheduled when nothing but its
\* handler is left of the entry it repeats.
First ==
  \A m, n \in Entries :
    stream[m].retry = 0 /\ stream[n].retry = 0 /\ Exec(m) = Exec(n) => m = n
Fresh ==
  \A t \in due :
    /\ t.retry = 1
    /\ \A m \in Entries : Exec(m) = t.exec /\ stream[m].retry = 0 =>
         /\ m <= cursor
         /\ \A w \in Workers : InHand(w) /\ con[w].msg = m => con[w].pc \in {"ack", "release"}

\* The fate of e is open: it has a retry that is not being moved, or an entry
\* whose consumer, if there is one, has not settled it.
Decided(m) == \E c \in Consumers : con[c].msg = m /\ con[c].pc \in {"setDone", "ack"}
Loose(e) ==
  \/ \E t \in due \ moving : t.exec = e
  \/ \E m \in Entries : Live(m) /\ Exec(m) = e /\ ~Decided(m)
Kempt == \A e \in Execs : status[e] = "none" \/ Closed(e) \/ Loose(e)

KeptInv == Born /\ Hands /\ base = 0 /\ First /\ Fresh /\ Kempt

LEMMA KeptInit ==
  Init => KeptInv
<1> SUFFICES ASSUME Init PROVE KeptInv
  OBVIOUS
<1>1. First /\ Fresh /\ Kempt
  BY DEF Init, First, Fresh, Kempt, Entries
<1> QED
  BY <1>1, BornInit, HandsInit DEF KeptInv, Init

LEMMA NothingTrimmed ==
  ASSUME TypeInv, Roomy, base = 0, [Next]_vars
  PROVE  base' = 0
<1>1. ASSUME NEW task \in Tasks, Add(task)
      PROVE  base' = 0
  <2>1. /\ base' \in 0..Len(stream') /\ Len(stream') <= MaxEntries
        /\ base' = base \/ base' <= Len(stream') - MaxLen
    BY <1>1, Added DEF TypeInv, TypeOK
  <2>2. Len(stream') \in Nat
    BY <1>1, Added, EntriesAre DEF TypeInv, TypeOK
  <2> QED
    BY <2>1, <2>2, GenQueueAssumption DEF Roomy
<1>2. CASE \E e \in Execs : Enqueue(e) \/ RunDirect(e)
  <2>1. PICK e \in Execs : Enqueue(e) \/ RunDirect(e)
    BY <1>2
  <2>2. [exec |-> e, retry |-> 0] \in Tasks
    BY GenQueueAssumption DEF Tasks
  <2>3. Add([exec |-> e, retry |-> 0]) \/ base' = base
    BY <2>1 DEF Enqueue, RunDirect
  <2> QED
    BY <1>1, <2>2, <2>3
<1>3. CASE MoveAdd
  BY <1>1, <1>3 DEF MoveAdd, TypeInv, TypeOK
<1>4. CASE \E c \in Consumers : Handle(c)
  BY <1>4, Untouched
<1>5. CASE \/ \E e \in Execs : FinishDirect(e) \/ LockOut(e)
           \/ \E w \in Workers : Read(w)
           \/ \E m \in Entries : LeaseOut(m)
           \/ TakeNext \/ ClearLocks \/ Claim \/ MoveRemove \/ Tick \/ Restart
           \/ UNCHANGED vars
  BY <1>5 DEF FinishDirect, LockOut, Read, LeaseOut, TakeNext, ClearLocks, Claim, MoveRemove,
              Tick, Restart, redis, vars
<1> QED
  BY <1>2, <1>3, <1>4, <1>5 DEF Next, Reclaim

LEMMA FirstStep ==
  ASSUME TypeInv, Born, First, Fresh, [Next]_vars
  PROVE  First'
<1>1. ASSUME NEW m \in Entries', NEW n \in Entries, m \notin Entries,
             stream'[m].retry = 0, stream[n].retry = 0, stream'[m].exec = stream[n].exec
      PROVE  FALSE
  <2>1. CASE \E e \in Execs : /\ Enqueue(e) \/ RunDirect(e)
                              /\ stream'[m] = [exec |-> e, retry |-> 0]
    BY <1>1, <2>1 DEF Enqueue, RunDirect, Born, Exec
  <2>2. CASE stream'[m] \in due
    BY <1>1, <2>2 DEF Fresh
  <2> QED
    BY <1>1, <2>1, <2>2, StreamGrows
<1>2. ASSUME NEW m \in Entries', NEW n \in Entries',
             stream'[m].retry = 0, stream'[n].retry = 0, stream'[m].exec = stream'[n].exec
      PROVE  m = n
  <2>1. CASE m \in Entries /\ n \in Entries
    BY <1>2, <2>1, StreamGrows DEF First, Exec
  <2>2. CASE m \notin Entries /\ n \notin Entries
    BY <2>2, StreamGrows
  <2>3. CASE m \in Entries /\ n \notin Entries
    BY <1>1, <1>2, <2>3, StreamGrows
  <2>4. CASE m \notin Entries /\ n \in Entries
    BY <1>1, <1>2, <2>4, StreamGrows
  <2> QED
    BY <2>1, <2>2, <2>3, <2>4
<1> QED
  BY <1>2 DEF First, Exec

\* What a worker has in hand it had before, or it just read it.
LEMMA WorkerHands ==
  ASSUME TypeInv, [Next]_vars, NEW w \in Workers, InHand(w)', con'[w].msg <= cursor
  PROVE  /\ InHand(w) /\ con'[w].msg = con[w].msg
         /\ con[w].pc \in {"ack", "release"} => con'[w].pc \in {"ack", "release"}
<1>1. w \in Consumers /\ w # Reclaimer
  BY GenQueueAssumption DEF Consumers
<1>2. CASE con'[w] = con[w]
  BY <1>2 DEF InHand
<1>3. CASE \E v \in Workers : Read(v)
  <2>1. PICK v \in Workers, m \in Entries :
          m > cursor /\ con' = [con EXCEPT ![v] = [NoWork EXCEPT !.pc = "check", !.msg = m]]
    BY <1>3 DEF Read
  <2>2. con'[v].msg = m /\ \A d \in Consumers : d # v => con'[d] = con[d]
    BY <2>1, Begins DEF Consumers
  <2>3. m \in Nat /\ cursor \in Nat
    BY EntriesAre DEF TypeInv, TypeOK
  <2>4. m > cursor
    BY <2>1
  <2>5. w # v
    BY <2>2, <2>3, <2>4
  <2> QED
    BY <1>1, <1>2, <2>2, <2>5
<1>4. CASE \E c \in Consumers : Handle(c)
  <2>1. PICK c \in Consumers : Handle(c)
    BY <1>4
  <2>2. CASE c = w
    BY <2>1, <2>2, Handles, Labelled DEF InHand, NoWork
  <2>3. CASE c # w
    BY <1>1, <1>2, <2>1, <2>3, Handles
  <2> QED
    BY <2>2, <2>3
<1>5. CASE MoveAdd \/ MoveRemove
  BY <1>1, <1>2, <1>5, Moved
<1>6. CASE TakeNext
  BY <1>1, <1>2, <1>6 DEF TakeNext, TypeInv, TypeOK
<1>7. CASE Restart
  BY <1>1, <1>7, Restarts
<1>8. CASE \/ \E e \in Execs : Enqueue(e) \/ RunDirect(e) \/ FinishDirect(e) \/ LockOut(e)
           \/ \E m \in Entries : LeaseOut(m)
           \/ ClearLocks \/ Claim \/ Tick \/ UNCHANGED vars
  BY <1>2, <1>8 DEF Enqueue, RunDirect, FinishDirect, LockOut, LeaseOut, ClearLocks, Claim, Tick,
                    local, vars
<1> QED
  BY <1>3, <1>4, <1>5, <1>6, <1>7, <1>8 DEF Next, Reclaim

LEMMA CursorGrows ==
  ASSUME TypeInv, [Next]_vars
  PROVE  cursor \in Nat /\ cursor' \in Nat /\ cursor <= cursor'
<1>1. cursor \in Nat
  BY EntriesAre DEF TypeInv, TypeOK
<1>2. CASE \E w \in Workers : Read(w)
  <2>1. PICK m \in Entries : m > cursor /\ cursor' = m
    BY <1>2 DEF Read
  <2> QED
    BY <1>1, <2>1, EntriesAre DEF TypeInv, TypeOK
<1>3. CASE \E c \in Consumers : Handle(c)
  BY <1>1, <1>3, Untouched
<1>4. CASE \/ \E e \in Execs : Enqueue(e) \/ RunDirect(e) \/ FinishDirect(e) \/ LockOut(e)
           \/ \E m \in Entries : LeaseOut(m)
           \/ Reclaim \/ Restart \/ UNCHANGED vars
  <2>1. cursor' = cursor
    BY <1>4 DEF Enqueue, RunDirect, FinishDirect, LockOut, LeaseOut, Reclaim, TakeNext, ClearLocks,
                Claim, MoveAdd, MoveRemove, Tick, Restart, redis, vars
  <2> QED
    BY <1>1, <2>1
<1> QED
  BY <1>2, <1>3, <1>4 DEF Next

LEMMA FreshStep ==
  ASSUME TypeInv, OneRetry, Born, Hands, Hands', First, Fresh, [Next]_vars
  PROVE  Fresh'
<1>1. ASSUME NEW t \in due', NEW m \in Entries', t \in due,
             stream'[m].exec = t.exec, stream'[m].retry = 0
      PROVE  m \in Entries /\ m <= cursor
  <2>1. m \in Entries
    <3>1. SUFFICES ASSUME m \notin Entries PROVE FALSE
      OBVIOUS
    <3>2. CASE \E e \in Execs : /\ Enqueue(e) \/ RunDirect(e)
                                /\ stream'[m] = [exec |-> e, retry |-> 0]
      BY <1>1, <3>2 DEF Enqueue, RunDirect, Born
    <3>3. CASE stream'[m] \in due
      BY <1>1, <3>3 DEF Fresh
    <3> QED
      BY <3>1, <3>2, <3>3, StreamGrows
  <2> QED
    BY <1>1, <2>1, StreamGrows DEF Fresh, Exec
<1>2. ASSUME NEW t \in due', t \in due
      PROVE  /\ t.retry = 1
             /\ \A m \in Entries' : stream'[m].exec = t.exec /\ stream'[m].retry = 0 =>
                  /\ m <= cursor'
                  /\ \A w \in Workers : InHand(w)' /\ con'[w].msg = m =>
                       con'[w].pc \in {"ack", "release"}
  <2>1. t.retry = 1
    BY <1>2 DEF Fresh
  <2>2. ASSUME NEW m \in Entries', stream'[m].exec = t.exec, stream'[m].retry = 0
        PROVE  /\ m <= cursor'
               /\ \A w \in Workers : InHand(w)' /\ con'[w].msg = m =>
                    con'[w].pc \in {"ack", "release"}
    <3>1. m \in Entries /\ m <= cursor /\ m \in Int
      BY <1>1, <1>2, <2>2, EntriesAre DEF TypeInv, TypeOK
    <3>2. stream[m] = stream'[m]
      BY <3>1, StreamGrows
    <3>3. m <= cursor'
      BY <3>1, CursorGrows
    <3>4. ASSUME NEW w \in Workers, InHand(w)', con'[w].msg = m
          PROVE  con'[w].pc \in {"ack", "release"}
      <4>1. /\ InHand(w) /\ con[w].msg = m
            /\ con[w].pc \in {"ack", "release"} => con'[w].pc \in {"ack", "release"}
        BY <3>1, <3>4, WorkerHands
      <4> QED
        BY <1>2, <2>2, <3>1, <3>2, <4>1 DEF Fresh, Exec
    <3> QED
      BY <3>3, <3>4
  <2> QED
    BY <2>1, <2>2
<1>3. ASSUME NEW t \in due', t \notin due
      PROVE  /\ t.retry = 1
             /\ \A m \in Entries' : stream'[m].exec = t.exec /\ stream'[m].retry = 0 =>
                  /\ m <= cursor'
                  /\ \A w \in Workers : InHand(w)' /\ con'[w].msg = m =>
                       con'[w].pc \in {"ack", "release"}
  <2>1. PICK c \in Consumers :
             /\ ScheduleRetry(c)
             /\ stream[con[c].msg].retry < MaxRetry
             /\ t.exec = Exec(con[c].msg) /\ t.retry = stream[con[c].msg].retry + 1
    BY <1>3, DueGrows
  <2> DEFINE n == con[c].msg
  <2>2. n \in Entries /\ n \in 1..cursor /\ InHand(c)
    BY <2>1 DEF ScheduleRetry, At, TypeInv, InStream, InHand, Hands, HandAt
  <2>3. stream[n].retry = 0 /\ t.retry = 1
    BY <2>1, <2>2, EntriesAre, GenQueueAssumption DEF OneRetry, TypeInv, TypeOK, Tasks
  <2>4. stream' = stream /\ cursor' = cursor /\ Entries' = Entries
    BY <2>1 DEF ScheduleRetry, Entries
  <2>5. con'[c].msg = n /\ con'[c].pc = "ack"
    <3>1. due' # due
      BY <1>3
    <3>2. Goto(c, "ack")
      BY <2>1, <3>1 DEF ScheduleRetry
    <3> QED
      BY <3>2, Moves DEF TypeInv, TypeOK, Labels
  <2>6. ASSUME NEW m \in Entries', stream'[m].exec = t.exec, stream'[m].retry = 0
        PROVE  /\ m <= cursor'
               /\ \A w \in Workers : InHand(w)' /\ con'[w].msg = m =>
                    con'[w].pc \in {"ack", "release"}
    <3>1. m = n
      BY <2>1, <2>2, <2>3, <2>4, <2>6 DEF First, Exec
    <3>2. \A w \in Workers : InHand(w)' /\ con'[w].msg = n => w = c
      BY <2>5 DEF Hands, HandAt, InHand, Consumers
    <3> QED
      BY <2>2, <2>4, <2>5, <3>1, <3>2
  <2> QED
    BY <2>3, <2>6
<1> QED
  BY <1>2, <1>3 DEF Fresh, Exec
-----------------------------------------------------------------------------
\* A witness of Loose that the step leaves alone.
LEMMA StillLoose ==
  ASSUME TypeInv, [Next]_vars, NEW e,
         due \ moving \subseteq due' \ moving',
         \A m \in Entries : Live(m) /\ ~Decided(m) => Live(m)' /\ ~Decided(m)',
         Loose(e)
  PROVE  Loose(e)'
<1>1. Entries \subseteq Entries' /\ \A m \in Entries : stream'[m] = stream[m]
  BY StreamGrows
<1>2. CASE \E t \in due \ moving : t.exec = e
  BY <1>2 DEF Loose
<1>3. CASE \E m \in Entries : Live(m) /\ Exec(m) = e /\ ~Decided(m)
  <2>1. PICK m \in Entries : Live(m) /\ Exec(m) = e /\ ~Decided(m)
    BY <1>3
  <2>2. m \in Entries' /\ Live(m)' /\ stream'[m].exec = e /\ ~Decided(m)'
    BY <1>1, <2>1 DEF Exec
  <2> QED
    BY <2>2 DEF Loose, Exec
<1> QED
  BY <1>2, <1>3 DEF Loose

LEMMA KemptSubmit ==
  ASSUME TypeInv, KeptInv, base' = 0, NEW d \in Execs,
         Enqueue(d) \/ RunDirect(d) \/ FinishDirect(d), Next
  PROVE  Kempt'
<1>1. UNCHANGED <<cursor, pending, due, dead, doneKey, con, moving, refused>>
  BY DEF Enqueue, RunDirect, FinishDirect, redis, local, seen
<1>2. \A m \in Entries : Live(m) => Live(m)'
  BY <1>1, StreamGrows, EntriesAre DEF Live, Unread, TypeInv, TypeOK, KeptInv
<1>3. \A m : Decided(m)' => Decided(m)
  BY <1>1 DEF Decided
<1>4. ASSUME NEW e \in Execs, e # d
      PROVE  (status[e] = "none" \/ Closed(e) \/ Loose(e))'
  <2>1. status'[e] = status[e] /\ direct'[e] = direct[e]
    BY <1>4 DEF Enqueue, RunDirect, FinishDirect, TypeInv, TypeOK
  <2>2. Closed(e) => Closed(e)'
    BY <1>1, <2>1 DEF Closed
  <2>3. Loose(e) => Loose(e)'
    BY <1>1, <1>2, <1>3, StillLoose
  <2> QED
    BY <2>1, <2>2, <2>3 DEF KeptInv, Kempt
<1>5. (status[d] = "none" \/ Closed(d) \/ Loose(d))'
  <2>1. CASE RunDirect(d) \/ FinishDirect(d)
    <3>1. direct'[d] # "no"
      BY <2>1 DEF RunDirect, FinishDirect, TypeInv, TypeOK
    <3> QED
      BY <3>1 DEF Closed
  <2>2. CASE Enqueue(d)
    <3>0. PICK n : n = Len(stream) + 1
      OBVIOUS
    <3>1. [exec |-> d, retry |-> 0] \in Tasks
      BY GenQueueAssumption DEF Tasks
    <3>2. /\ stream' \in Seq(Tasks) /\ Len(stream') = n /\ stream'[n] = [exec |-> d, retry |-> 0]
      BY <2>2, <3>1, <3>0, Added DEF Enqueue, TypeInv, TypeOK
    <3>3. Len(stream) \in Nat /\ cursor <= Len(stream) /\ cursor \in Nat
      BY EntriesAre DEF TypeInv, TypeOK
    <3>4. n \in Entries' /\ Live(n)'
      BY <1>1, <3>2, <3>3, <3>0 DEF Entries, Live, Unread
    <3>5. ~Decided(n)'
      <4>1. \A c \in Consumers : con'[c].msg # n
        BY <1>1, <3>3, <3>0 DEF TypeInv, TypeOK
      <4> QED
        BY <4>1 DEF Decided
    <3> QED
      BY <3>2, <3>4, <3>5 DEF Loose, Exec
  <2> QED
    BY <2>1, <2>2
<1> QED
  BY <1>4, <1>5 DEF Kempt

\* Steps that leave the outcomes alone and settle nothing.
LEMMA KemptOthers ==
  ASSUME TypeInv, KeptInv, [Next]_vars, UNCHANGED status,
         doneKey \subseteq doneKey', dead \subseteq dead', refused \subseteq refused',
         \A e \in Execs : direct[e] # "no" => direct'[e] # "no",
         due \ moving \subseteq due' \ moving',
         \A m \in Entries : Live(m) /\ ~Decided(m) => Live(m)' /\ ~Decided(m)'
  PROVE  Kempt'
<1>1. ASSUME NEW e \in Execs
      PROVE  (status[e] = "none" \/ Closed(e) \/ Loose(e))'
  <2>1. Closed(e) => Closed(e)'
    BY DEF Closed
  <2>2. Loose(e) => Loose(e)'
    BY StillLoose
  <2> QED
    BY <2>1, <2>2 DEF KeptInv, Kempt
<1> QED
  BY <1>1 DEF Kempt

LEMMA KemptRead ==
  ASSUME TypeInv, KeptInv, NEW w \in Workers, Read(w), Next
  PROVE  Kempt'
<1>1. PICK m \in Entries :
        /\ m > cursor
        /\ \A n \in Entries : n > cursor /\ n > base => m <= n
        /\ cursor' = m
        /\ pending' = pending \cup {m}
        /\ con' = [con EXCEPT ![w] = [NoWork EXCEPT !.pc = "check", !.msg = m]]
  BY DEF Read
<1>2. w \in Consumers
  BY DEF Consumers
<1>3. con'[w].pc = "check" /\ \A d \in Consumers : d # w => con'[d] = con[d]
  BY <1>1, <1>2, Begins
<1>4. UNCHANGED <<stream, base, due, dead, doneKey, status, moving, direct, refused>>
  BY DEF Read, seen
<1>5. \A n \in Entries : Live(n) => Live(n)'
  <2>1. ASSUME NEW n \in Entries, Unread(n)
        PROVE  n \in pending' \/ (n > cursor' /\ n > base)
    <3>1. m <= n /\ cursor' = m /\ m \in pending' /\ n > base
      BY <1>1, <2>1 DEF Unread
    <3>2. m \in Nat /\ n \in Nat
      BY EntriesAre DEF TypeInv, TypeOK
    <3> QED
      BY <3>1, <3>2
  <2>2. pending \subseteq pending' /\ Entries' = Entries /\ base' = base
    BY <1>1, <1>4 DEF Entries
  <2> QED
    BY <2>1, <2>2 DEF Live, Unread
<1>6. \A n : Decided(n)' => Decided(n)
  BY <1>3 DEF Decided
<1> QED
  BY <1>4, <1>5, <1>6, KemptOthers

LEMMA KemptTakeNext ==
  ASSUME TypeInv, KeptInv, TakeNext, Next
  PROVE  Kempt'
<1>1. PICK m \in batch :
        con' = [con EXCEPT ![Reclaimer] = [NoWork EXCEPT !.pc = "check", !.msg = m]]
  BY DEF TakeNext
<1>2. Reclaimer \in Consumers /\ m \in Entries
  BY EntriesAre DEF Consumers, TypeInv, TypeOK
<1>3. con'[Reclaimer].pc = "check" /\ \A d \in Consumers : d # Reclaimer => con'[d] = con[d]
  BY <1>1, <1>2, Begins
<1>4. UNCHANGED <<stream, base, cursor, pending, due, dead, doneKey, status, moving, direct,
                  refused>>
  BY DEF TakeNext, redis, seen
<1>5. \A n \in Entries : Live(n) => Live(n)'
  BY <1>4 DEF Live, Unread, Entries
<1>6. \A n : Decided(n)' => Decided(n)
  BY <1>3 DEF Decided
<1> QED
  BY <1>4, <1>5, <1>6, KemptOthers

LEMMA KemptReclaim ==
  ASSUME TypeInv, KeptInv, ~Stall, Next,
         \/ (\E m \in Entries : LeaseOut(m)) \/ (\E e \in Execs : LockOut(e)) \/ ClearLocks
         \/ Claim \/ Tick
  PROVE  Kempt'
<1>1. UNCHANGED <<stream, base, cursor, due, dead, doneKey, status, con, moving, direct, refused>>
  BY DEF LeaseOut, LockOut, ClearLocks, Claim, Tick, local, redis, seen
<1>2. pending' = pending
  <2>1. CASE Claim
    <3>1. PICK old \in SUBSET pending : pending' = {m \in pending : m \in old => m > base}
      BY <2>1, Claims DEF KeptInv
    <3>2. \A m \in pending : m > base
      BY EntriesAre DEF TypeInv, TypeOK, KeptInv
    <3> QED
      BY <3>1, <3>2
  <2>2. CASE ~Claim
    BY <2>2 DEF LeaseOut, LockOut, ClearLocks, Tick, redis
  <2> QED
    BY <2>1, <2>2
<1>3. \A n \in Entries : Live(n) => Live(n)'
  BY <1>1, <1>2 DEF Live, Unread, Entries
<1>4. \A n : Decided(n)' => Decided(n)
  BY <1>1 DEF Decided
<1> QED
  BY <1>1, <1>3, <1>4, KemptOthers

LEMMA KemptMove ==
  ASSUME TypeInv, KeptInv, base' = 0, MoveAdd \/ MoveRemove, Next
  PROVE  Kempt'
<1>1. \A n : Decided(n)' => Decided(n)
  BY Moved DEF Decided
<1>2. UNCHANGED <<cursor, pending, dead, doneKey, status, direct, refused>>
  BY DEF MoveAdd, MoveRemove, seen
<1>3. \A n \in Entries : Live(n) => Live(n)'
  BY <1>2, StreamGrows, EntriesAre DEF Live, Unread, TypeInv, TypeOK, KeptInv
<1>4. CASE MoveRemove
  <2>1. due \ moving \subseteq due' \ moving'
    BY <1>4 DEF MoveRemove
  <2> QED
    BY <1>1, <1>2, <1>3, <2>1, KemptOthers
<1>5. CASE MoveAdd
  <2>1. PICK t \in due : Add(t) /\ moving' = {t}
    BY <1>5 DEF MoveAdd
  <2>2. due' = due /\ moving = {}
    BY <1>5 DEF MoveAdd, KeptInv, Hands, ReclaimerAt, At
  <2>0. PICK n : n = Len(stream) + 1
    OBVIOUS
  <2>3. t \in Tasks
    BY DEF TypeInv, TypeOK
  <2>4. stream' \in Seq(Tasks) /\ Len(stream') = n /\ stream'[n] = t
    BY <2>1, <2>3, <2>0, Added DEF TypeInv, TypeOK
  <2>5. Len(stream) \in Nat /\ cursor <= Len(stream) /\ cursor \in Nat
    BY EntriesAre DEF TypeInv, TypeOK
  <2>6. n \in Entries' /\ Live(n)'
    BY <1>2, <2>4, <2>5, <2>0 DEF Entries, Live, Unread
  <2>7. ~Decided(n)'
    <3>1. \A c \in Consumers : con'[c].msg # n
      BY <2>5, <2>0, Moved DEF TypeInv, TypeOK
    <3> QED
      BY <3>1 DEF Decided
  <2>8. Loose(t.exec)'
    BY <2>4, <2>6, <2>7 DEF Loose, Exec
  <2>9. ASSUME NEW e \in Execs, e # t.exec
        PROVE  Loose(e) => Loose(e)'
    <3>1. CASE \E u \in due \ moving : u.exec = e
      BY <1>5, <2>1, <2>2, <2>9, <3>1 DEF Loose
    <3>2. CASE \E m \in Entries : Live(m) /\ Exec(m) = e /\ ~Decided(m)
      <4>1. PICK m \in Entries : Live(m) /\ Exec(m) = e /\ ~Decided(m)
        BY <3>2
      <4>2. m \in Entries' /\ Live(m)' /\ stream'[m].exec = e /\ ~Decided(m)'
        BY <1>1, <1>3, <4>1, StreamGrows DEF Exec
      <4> QED
        BY <4>2 DEF Loose, Exec
    <3> QED
      BY <3>1, <3>2 DEF Loose
  <2>10. \A e \in Execs : Closed(e) => Closed(e)'
    BY <1>2 DEF Closed
  <2> QED
    BY <1>2, <2>8, <2>9, <2>10 DEF KeptInv, Kempt
<1> QED
  BY <1>4, <1>5

LEMMA KemptRestart ==
  ASSUME TypeInv, KeptInv, Restart, Next
  PROVE  Kempt'
<1>1. UNCHANGED <<stream, base, cursor, pending, due, dead, doneKey, status, refused>>
      /\ moving' = {}
  BY DEF Restart, redis, seen
<1>2. \A e \in Execs : direct[e] # "no" => direct'[e] # "no"
  BY DEF Restart, TypeInv, TypeOK
<1>3. \A n \in Entries : Live(n) => Live(n)'
  BY <1>1 DEF Live, Unread, Entries
<1>4. \A n : ~Decided(n)'
  BY Restarts DEF Decided, NoWork
<1> QED
  BY <1>1, <1>2, <1>3, <1>4, KemptOthers
\* A consumer that has not settled its entry keeps its execution alive.
LEMMA InHandIsLoose ==
  ASSUME TypeInv, KeptInv, NEW c \in Consumers, Handle(c), NEW m, m = con[c].msg,
         con'[c].pc \in {"running", "retry"}
  PROVE  Loose(Exec(m))'
<1>1. /\ InHand(c)
      /\ \A d \in Consumers : d # c => con'[d] = con[d]
      /\ con[c].pc # "ack" /\ con[c].pc # "release"
  BY Handles, Labelled DEF NoWork
<1>2. UNCHANGED <<stream, base, cursor>> /\ pending' = pending
  BY <1>1, Untouched, Acks
<1>3. m \in Entries /\ m \in pending
  BY <1>1 DEF TypeInv, InStream, KeptInv, Hands, HandAt
<1>4. m \in Entries' /\ Live(m)' /\ stream'[m] = stream[m]
  BY <1>2, <1>3 DEF Live, Entries
<1>5. ~Decided(m)'
  <2>1. ASSUME NEW d \in Consumers, con'[d].msg = m, con'[d].pc \in {"setDone", "ack"}
        PROVE  FALSE
    <3>1. d # c
      BY <2>1
    <3>2. InHand(d) /\ con[d].msg = con[c].msg
      BY <1>1, <2>1, <3>1 DEF InHand
    <3> QED
      BY <1>1, <3>1, <3>2 DEF KeptInv, Hands, HandAt
  <2> QED
    BY <2>1 DEF Decided
<1> QED
  BY <1>4, <1>5 DEF Loose, Exec

\* The retry a consumer schedules is not the one the reclaimer is moving.
LEMMA RetryIsNew ==
  ASSUME TypeInv, KeptInv, OneRetry, NEW c \in Consumers, ScheduleRetry(c), NEW t,
         t = [stream[con[c].msg] EXCEPT !.retry = @ + 1],
         stream[con[c].msg].retry < MaxRetry
  PROVE  t \notin moving /\ t.exec = Exec(con[c].msg)
<1>1. con[c].pc = "retry" /\ InHand(c)
  BY DEF ScheduleRetry, At, InHand
<1> DEFINE n == con[c].msg
<1>2. n \in Entries /\ stream[n] \in Tasks
  BY <1>1, EntriesAre DEF TypeInv, TypeOK, InStream
<1>3. stream[n].retry = 0 /\ t.retry = 1 /\ t.exec = Exec(n)
  BY <1>2, GenQueueAssumption DEF OneRetry, Tasks, Exec
<1>4. CASE c = Reclaimer
  BY <1>1, <1>3, <1>4 DEF KeptInv, Hands, ReclaimerAt, At
<1>5. CASE c \in Workers
  <2>1. SUFFICES ASSUME t \in moving PROVE FALSE
    BY <1>3
  <2>2. t \in due
    BY <2>1 DEF TypeInv, TypeOK
  <2> QED
    BY <1>1, <1>2, <1>3, <1>5, <2>2 DEF KeptInv, Fresh
<1> QED
  BY <1>4, <1>5 DEF Consumers

LEMMA KemptHandle ==
  ASSUME TypeInv, KeptInv, Roomy, OneRetry, NEW c \in Consumers, Handle(c), Next
  PROVE  Kempt'
<1>1. PICK n : n = con[c].msg
  OBVIOUS
<1>2. /\ InHand(c)
      /\ con' \in [Consumers -> Work]
      /\ \A d \in Consumers : d # c => con'[d] = con[d]
      /\ (con'[c].msg = con[c].msg /\ InHand(c)') \/ con'[c] = NoWork
  BY Handles
<1>3. n \in Entries /\ n \in 1..cursor /\ Exec(n) \in Execs
  BY <1>1, <1>2, EntriesAre DEF TypeInv, TypeOK, InStream, KeptInv, Hands, HandAt, Exec, Tasks
<1>4. UNCHANGED <<stream, base, cursor, moving, direct>>
  BY Untouched
<1>5. /\ due \subseteq due' /\ doneKey \subseteq doneKey' /\ dead \subseteq dead'
      /\ refused \subseteq refused'
  BY DEF Handle, CheckDone, TakeLock, Find, Start, Engine, Finish, Refuse, SetDone,
         ScheduleRetry, ToDead, Ack, Release, redis, seen
<1>6. \A m \in Entries : m # n /\ Live(m) => Live(m)'
  BY <1>1, <1>4, Acks DEF Live, Unread, Entries
<1>7. con[c].pc # "ack" => \A m \in Entries : Live(m) => Live(m)'
  BY <1>4, Acks DEF Live, Unread, Entries
<1>8. \A m \in Entries : m # n /\ Decided(m)' => Decided(m)
  BY <1>1, <1>2 DEF Decided, NoWork
<1>9. con'[c].pc \notin {"setDone", "ack"} => ~Decided(n)'
  <2>1. ASSUME NEW d \in Consumers, d # c, con'[d].msg = n, con'[d].pc \in {"setDone", "ack"}
        PROVE  FALSE
    <3>1. InHand(d) /\ con[d].msg = con[c].msg
      BY <1>1, <1>2, <2>1 DEF InHand
    <3> QED
      BY <1>2, <2>1, <3>1 DEF KeptInv, Hands, HandAt
  <2> QED
    BY <2>1 DEF Decided
<1>10. con[c].pc \in {"setDone", "ack"} => Decided(n)
  BY <1>1 DEF Decided
<1>11. \A e \in Execs : e # Exec(n) => status'[e] = status[e]
  BY <1>1, <1>3 DEF Handle, CheckDone, TakeLock, Find, Start, Engine, Finish, SetDone,
     ScheduleRetry, ToDead, Ack, Release, TypeInv, TypeOK
<1>12. ASSUME NEW e \in Execs, e # Exec(n)
       PROVE  (status[e] = "none" \/ Closed(e) \/ Loose(e))'
  <2>1. Closed(e) => Closed(e)'
    BY <1>4, <1>5, <1>11, <1>12 DEF Closed
  <2>2. CASE \E t \in due \ moving : t.exec = e
    BY <1>4, <1>5, <2>2 DEF Loose
  <2>3. CASE \E m \in Entries : Live(m) /\ Exec(m) = e /\ ~Decided(m)
    <3>1. PICK m \in Entries : Live(m) /\ Exec(m) = e /\ ~Decided(m)
      BY <2>3
    <3>2. m # n
      BY <1>12, <3>1
    <3>3. m \in Entries' /\ Live(m)' /\ stream'[m].exec = e /\ ~Decided(m)'
      BY <1>4, <1>6, <1>8, <3>1, <3>2 DEF Entries, Exec
    <3> QED
      BY <3>3 DEF Loose, Exec
  <2> QED
    BY <1>11, <1>12, <2>1, <2>2, <2>3 DEF KeptInv, Kempt, Loose
<1>13. ASSUME UNCHANGED status,
              con'[c].pc \notin {"setDone", "ack"} \/ con[c].pc \in {"setDone", "ack"}
       PROVE  Kempt'
  <2>1. ASSUME NEW m \in Entries, Live(m), ~Decided(m)
        PROVE  Live(m)' /\ ~Decided(m)'
    <3>1. CASE m = n
      BY <1>7, <1>9, <1>10, <1>13, <2>1, <3>1
    <3>2. CASE m # n
      BY <1>6, <1>8, <2>1, <3>2
    <3> QED
      BY <3>1, <3>2
  <2>2. due \ moving \subseteq due' \ moving'
    BY <1>4, <1>5
  <2> QED
    BY <1>4, <1>5, <1>13, <2>1, <2>2, KemptOthers
<1>14. ASSUME Closed(Exec(n))' \/ Loose(Exec(n))'
       PROVE  Kempt'
  <2>1. PICK e \in Execs : e = Exec(n)
    BY <1>3
  <2>2. Exec(n)' = e
    BY <1>4, <2>1 DEF Exec
  <2>3. Closed(e)' \/ Loose(e)'
    BY <1>14, <2>2 DEF Closed, Loose
  <2> QED
    BY <1>12, <2>1, <2>3 DEF Kempt
<1>15. stream'[n] = stream[n] /\ Exec(n)' = Exec(n)
  BY <1>4 DEF Exec
<1>16. CASE CheckDone(c)
  <2>1. UNCHANGED status /\ con[c].pc = "check" /\ doneKey' = doneKey
    BY <1>16 DEF CheckDone, At, redis
  <2>2. Exec(n) \in doneKey \/ Goto(c, "lock")
    BY <1>1, <1>16 DEF CheckDone
  <2>3. CASE Exec(n) \in doneKey
    BY <1>14, <1>15, <2>1, <2>3 DEF Closed
  <2>4. CASE Goto(c, "lock")
    <3>1. con'[c].pc = "lock"
      BY <2>4, Moves DEF TypeInv, TypeOK, Labels
    <3> QED
      BY <1>13, <2>1, <3>1
  <2> QED
    BY <2>2, <2>3, <2>4
<1>17. CASE TakeLock(c) \/ Release(c)
  <2>1. UNCHANGED status /\ con'[c].pc \in {"find", "idle"}
    BY <1>17, Labelled DEF TakeLock, Release, At, NoWork
  <2> QED
    BY <1>13, <2>1
<1>18. CASE SetDone(c) \/ Ack(c)
  <2>1. UNCHANGED status /\ con[c].pc \in {"setDone", "ack"}
    BY <1>18 DEF SetDone, Ack, At
  <2> QED
    BY <1>13, <2>1
<1>19. CASE Find(c)
  <2>1. UNCHANGED status /\ con[c].pc = "find"
    BY <1>19 DEF Find, At
  <2>2. status[Exec(n)] = "done" \/ Goto(c, "start")
    BY <1>1, <1>19 DEF Find
  <2>3. CASE status[Exec(n)] = "done"
    BY <1>14, <1>15, <2>1, <2>3 DEF Closed
  <2>4. CASE Goto(c, "start")
    <3>1. con'[c].pc = "start"
      BY <2>4, Moves DEF TypeInv, TypeOK, Labels
    <3> QED
      BY <1>13, <2>1, <3>1
  <2> QED
    BY <2>2, <2>3, <2>4
<1>20. CASE Start(c)
  <2>1. Exec(n) \in refused' \/ Goto(c, "running")
    BY <1>1, <1>20 DEF Start, Refuse
  <2>2. CASE Exec(n) \in refused'
    BY <1>14, <1>15, <2>2 DEF Closed
  <2>3. CASE Goto(c, "running")
    <3>1. con'[c].pc = "running"
      BY <2>3, Moves DEF TypeInv, TypeOK, Labels
    <3> QED
      BY <1>1, <1>14, <3>1, InHandIsLoose
  <2> QED
    BY <2>1, <2>2, <2>3
<1>21. CASE Finish(c)
  <2>1. status'[Exec(n)] = "done" \/ Exec(n) \in refused' \/ Goto(c, "retry")
    BY <1>1, <1>3, <1>21 DEF Finish, Refuse, TypeInv, TypeOK
  <2>2. CASE status'[Exec(n)] = "done"
    BY <1>14, <1>15, <2>2 DEF Closed
  <2>3. CASE Exec(n) \in refused'
    BY <1>14, <1>15, <2>3 DEF Closed
  <2>4. CASE Goto(c, "retry")
    <3>1. con'[c].pc = "retry"
      BY <2>4, Moves DEF TypeInv, TypeOK, Labels
    <3> QED
      BY <1>1, <1>14, <3>1, InHandIsLoose
  <2> QED
    BY <2>1, <2>2, <2>3, <2>4
<1>22. CASE ScheduleRetry(c)
  <2>1. PICK t : t = [stream[con[c].msg] EXCEPT !.retry = @ + 1]
    OBVIOUS
  <2>2. \/ stream[con[c].msg].retry < MaxRetry /\ t \in due'
        \/ Goto(c, "dead")
    BY <1>22, <2>1 DEF ScheduleRetry
  <2>3. CASE stream[con[c].msg].retry < MaxRetry /\ t \in due'
    <3>1. t \notin moving /\ t.exec = Exec(con[c].msg)
      BY <1>22, <2>1, <2>3, RetryIsNew
    <3>2. t \in due' \ moving' /\ t.exec = Exec(n)
      BY <1>1, <1>4, <2>3, <3>1
    <3>3. Loose(Exec(n))'
      BY <1>15, <3>2 DEF Loose
    <3> QED
      BY <1>14, <3>3
  <2>4. CASE Goto(c, "dead")
    <3>1. con'[c].pc = "dead" /\ UNCHANGED status
      BY <1>22, <2>4, Moves DEF ScheduleRetry, TypeInv, TypeOK, Labels
    <3> QED
      BY <1>13, <3>1
  <2> QED
    BY <2>2, <2>3, <2>4
<1>23. CASE ToDead(c)
  <2>1. stream[n] \in dead'
    BY <1>1, <1>23 DEF ToDead, Succeeds, Roomy
  <2>2. Closed(Exec(n))'
    BY <1>15, <2>1 DEF Closed, Exec
  <2> QED
    BY <1>14, <2>2
<1> QED
  BY <1>16, <1>17, <1>18, <1>19, <1>20, <1>21, <1>22, <1>23 DEF Handle

LEMMA KeptStep ==
  ASSUME TypeInv, KeptInv, Roomy, OneRetry, [Next]_vars
  PROVE  KeptInv'
<1>1. Born' /\ Hands' /\ base' = 0 /\ First'
  BY BornStep, HandsStep, NothingTrimmed, FirstStep DEF KeptInv, Roomy
<1>2. Fresh'
  BY <1>1, FreshStep DEF KeptInv
<1>3. Kempt'
  <2>1. CASE UNCHANGED vars
    BY <2>1 DEF vars, redis, local, seen, KeptInv, Kempt, Closed, Loose, Decided, Live, Unread,
                Entries, Exec
  <2>2. CASE \E e \in Execs : Enqueue(e) \/ RunDirect(e) \/ FinishDirect(e)
    BY <1>1, <2>2, KemptSubmit DEF Next
  <2>3. CASE \E w \in Workers : Read(w)
    BY <2>3, KemptRead DEF Next
  <2>4. CASE \E c \in Consumers : Handle(c)
    BY <2>4, KemptHandle DEF Next
  <2>5. CASE \/ (\E m \in Entries : LeaseOut(m)) \/ (\E e \in Execs : LockOut(e)) \/ ClearLocks
             \/ Claim \/ Tick
    BY <2>5, KemptReclaim DEF Next, Reclaim, Roomy
  <2>6. CASE MoveAdd \/ MoveRemove
    BY <1>1, <2>6, KemptMove DEF Next, Reclaim
  <2>7. CASE TakeNext
    BY <2>7, KemptTakeNext DEF Next, Reclaim
  <2>8. CASE Restart
    BY <2>8, KemptRestart DEF Next
  <2> QED
    BY <2>1, <2>2, <2>3, <2>4, <2>5, <2>6, <2>7, <2>8 DEF Next, Reclaim
<1> QED
  BY <1>1, <1>2, <1>3 DEF KeptInv

LEMMA KeptIsEnough ==
  ASSUME TypeInv, KeptInv
  PROVE  NoTaskLost
<1>1. ASSUME NEW e \in Execs, Loose(e)
      PROVE  Kept(e)
  <2>1. CASE \E t \in due \ moving : t.exec = e
    BY <2>1 DEF Kept
  <2>2. CASE \E m \in Entries : Live(m) /\ Exec(m) = e
    <3>1. PICK m \in Entries : Live(m) /\ Exec(m) = e
      BY <2>2
    <3>2. m > base
      BY EntriesAre DEF KeptInv, TypeInv, TypeOK
    <3> QED
      BY <3>1, <3>2 DEF Kept, Live, Unread
  <2> QED
    BY <1>1, <2>1, <2>2 DEF Loose
<1> QED
  BY <1>1 DEF KeptInv, Kempt, NoTaskLost

\* configs/config.yaml: a restart loses no task.  At whatever label the process
\* dies, and whatever other calls fail, an execution that was enqueued and not
\* brought to an end has an entry or a retry in Redis, as long as the stream is
\* not trimmed under it, no worker stalls and the dead-letter stream takes what
\* it is given; with the one retry config.yaml allows.
THEOREM NothingIsLost ==
  ASSUME Roomy, OneRetry
  PROVE  Spec => []NoTaskLost
<1>1. Init => TypeInv /\ KeptInv
  BY TypeInit, KeptInit
<1>2. (TypeInv /\ KeptInv) /\ [Next]_vars => (TypeInv /\ KeptInv)'
  BY TypeStep, KeptStep
<1>3. TypeInv /\ KeptInv => NoTaskLost
  BY KeptIsEnough
<1> QED
  BY <1>1, <1>2, <1>3, PTL DEF Spec
-----------------------------------------------------------------------------
(* One run of an execution at a time *)

\* A restart does not leave copies of an entry that the workers of the new
\* process could read before the stale locks are cleared.
Tidy == {"move", "ack"} \cap Faults = {} /\ "moving" \notin CrashAt
Once ==
  /\ ~Stall /\ "reply" \notin Faults
  /\ MaxCrash = 0 \/ (Tidy /\ (MaxCrash = 1 \/ "ack" \notin CrashAt))

Has(c, e) == InHand(c) /\ Exec(con[c].msg) = e
IsDue(e) == \E t \in due : t.exec = e

\* What runs in the process itself has nothing in the queue.
Apart ==
  /\ \A m \in Entries : direct[Exec(m)] = "no"
  /\ \A t \in due : direct[t.exec] = "no"

\* All there is of its execution is the entry c has, and a retry c scheduled.
Sole(c) ==
  /\ \A m \in Entries : Live(m) /\ Exec(m) = Exec(con[c].msg) => m = con[c].msg
  /\ IsDue(Exec(con[c].msg)) => con[c].pc \in {"ack", "release"}
  /\ \A d \in Consumers : Has(d, Exec(con[c].msg)) => d = c

\* A consumer past SETNX has the lock, or lost it to ClearLocks at a time when
\* nobody else could get at the execution.
Locking ==
  \A c \in Consumers : con[c].locked => lock[Exec(con[c].msg)] = c \/ Sole(c)

\* Until the stale locks are cleared nothing is read twice.
Lone(m) ==
  /\ \A n \in Entries : Live(n) /\ Exec(n) = Exec(m) => n = m
  /\ ~IsDue(Exec(m))
Clearing ==
  phase = "clear" =>
    /\ \A c \in Consumers : InHand(c) => Sole(c)
    /\ \A m \in Entries : Unread(m) => Lone(m)

\* While a restart may still come there is one copy of an execution: an entry,
\* or a retry whose entry is being acknowledged or moved.
Alone(e) ==
  /\ \A m, n \in Entries : Live(m) /\ Live(n) /\ Exec(m) = e /\ Exec(n) = e => m = n
  /\ \A t, u \in due \ moving : t.exec = e /\ u.exec = e => t = u
  /\ \A t \in due \ moving, m \in Entries :
       t.exec = e /\ Live(m) /\ Exec(m) = e =>
         \E c \in Consumers : con[c].msg = m /\ At(c, "ack")
Single == crashes < MaxCrash => \A e \in Execs : Alone(e)

OnceInv == Born /\ Apart /\ Hands /\ Locking /\ Clearing /\ Single

LEMMA OnceInit ==
  Init => OnceInv
<1> SUFFICES ASSUME Init PROVE OnceInv
  OBVIOUS
<1>1. Entries = {} /\ due = {} /\ \A c \in Consumers : ~con[c].locked /\ ~InHand(c)
  BY DEF Init, Entries, NoWork, InHand
<1>2. Apart /\ Locking /\ Clearing /\ Single
  BY <1>1 DEF Apart, Locking, Clearing, Single, Alone, IsDue
<1> QED
  BY <1>2, BornInit, HandsInit DEF OnceInv

LEMMA ApartStep ==
  ASSUME TypeInv, Born, Apart, "reply" \notin Faults, [Next]_vars
  PROVE  Apart'
<1>1. ASSUME NEW e \in Execs, direct[e] = "no", status[e] # "none"
      PROVE  direct'[e] = "no"
  BY <1>1, DirectStarts DEF RunDirect
<1>2. \A m \in Entries : Exec(m) \in Execs
  BY EntriesAre DEF TypeInv, TypeOK, Exec, Tasks
<1>3. ASSUME NEW m \in Entries'
      PROVE  direct'[stream'[m].exec] = "no"
  <2>1. CASE m \in Entries
    BY <1>1, <1>2, <2>1, StreamGrows DEF Apart, Born, Exec
  <2>2. CASE \E e \in Execs : Enqueue(e) /\ stream'[m] = [exec |-> e, retry |-> 0]
    <3>1. PICK e \in Execs : Enqueue(e) /\ stream'[m] = [exec |-> e, retry |-> 0]
      BY <2>2
    <3>2. direct[e] = "no" /\ direct' = direct
      BY <3>1 DEF Enqueue, Born
    <3> QED
      BY <3>1, <3>2
  <2>3. CASE MoveAdd /\ stream'[m] \in due
    BY <2>3 DEF MoveAdd, Apart
  <2> QED
    BY <2>1, <2>2, <2>3, StreamGrows
<1>4. ASSUME NEW t \in due'
      PROVE  direct'[t.exec] = "no"
  <2>1. CASE t \in due
    BY <1>1, <2>1 DEF Apart, Born, TypeInv, TypeOK, Tasks
  <2>2. CASE t \notin due
    <3>1. PICK c \in Consumers : ScheduleRetry(c) /\ t.exec = Exec(con[c].msg)
      BY <2>2, DueGrows
    <3>2. con[c].msg \in Entries
      BY <3>1 DEF ScheduleRetry, At, TypeInv, InStream, InHand
    <3> QED
      BY <1>1, <1>2, <3>1, <3>2 DEF Apart, Born
  <2> QED
    BY <2>1, <2>2
<1> QED
  BY <1>3, <1>4 DEF Apart, Exec

\* What a step may do to a consumer.
LEMMA ConStep ==
  ASSUME TypeInv, Hands, [Next]_vars, NEW c \in Consumers
  PROVE  \/ con'[c] = con[c]
         \/ Handle(c)
         \/ /\ ~InHand(c) /\ ~InHand(c)'
            /\ con'[c].msg = con[c].msg /\ con'[c].locked = con[c].locked
         \/ /\ ~InHand(c) /\ con'[c].pc = "check" /\ ~con'[c].locked
            /\ con'[c].msg \in Entries /\ Live(con'[c].msg)
            /\ Unread(con'[c].msg) \/ con'[c].msg \in batch
         \/ Restart /\ con'[c] = NoWork
<1>1. CASE \E w \in Workers : Read(w)
  <2>1. PICK w \in Workers, m \in Entries :
          /\ m > cursor /\ m > base
          /\ con' = [con EXCEPT ![w] = [NoWork EXCEPT !.pc = "check", !.msg = m]]
    BY <1>1 DEF Read
  <2>2. w \in Consumers /\ Unread(m)
    BY <2>1 DEF Consumers, Unread
  <2>3. /\ con'[w].pc = "check" /\ con'[w].msg = m /\ ~con'[w].locked
        /\ \A d \in Consumers : d # w => con'[d] = con[d]
    BY <2>1, <2>2, Begins
  <2>4. ~InHand(w)
    <3>1. PICK v \in Workers : Read(v)
      BY <1>1
    <3>2. At(v, "idle") /\ v \in Consumers
      BY <3>1 DEF Read, Consumers
    <3>3. con'[v] # con[v]
      <4>1. PICK n \in Entries : con' = [con EXCEPT ![v] = [NoWork EXCEPT !.pc = "check", !.msg = n]]
        BY <3>1 DEF Read
      <4>2. con'[v].pc = "check"
        BY <3>2, <4>1, Begins
      <4> QED
        BY <3>2, <4>2 DEF At
    <3>4. v = w
      BY <2>3, <3>2, <3>3
    <3> QED
      BY <3>2, <3>4 DEF At, InHand
  <2> QED
    BY <2>2, <2>3, <2>4 DEF Live
<1>2. CASE TakeNext
  <2>1. PICK m \in batch :
          con' = [con EXCEPT ![Reclaimer] = [NoWork EXCEPT !.pc = "check", !.msg = m]]
    BY <1>2 DEF TakeNext
  <2>2. Reclaimer \in Consumers /\ m \in Entries /\ m \in pending /\ ~InHand(Reclaimer)
    BY <1>2, EntriesAre DEF Consumers, TypeInv, TypeOK, Hands, ReclaimerAt, TakeNext, At, InHand
  <2>3. /\ con'[Reclaimer].pc = "check" /\ con'[Reclaimer].msg = m /\ ~con'[Reclaimer].locked
        /\ \A d \in Consumers : d # Reclaimer => con'[d] = con[d]
    BY <2>1, <2>2, Begins
  <2> QED
    BY <2>2, <2>3 DEF Live
<1>3. CASE \E d \in Consumers : Handle(d)
  BY <1>3, Handles
<1>4. CASE MoveAdd \/ MoveRemove
  BY <1>4, Moved
<1>5. CASE Restart
  BY <1>5, Restarts
<1>6. CASE \/ \E e \in Execs : Enqueue(e) \/ RunDirect(e) \/ FinishDirect(e) \/ LockOut(e)
           \/ \E m \in Entries : LeaseOut(m)
           \/ ClearLocks \/ Claim \/ Tick \/ UNCHANGED vars
  BY <1>6 DEF Enqueue, RunDirect, FinishDirect, LockOut, LeaseOut, ClearLocks, Claim, Tick, local,
              vars
<1> QED
  BY <1>1, <1>2, <1>3, <1>4, <1>5, <1>6 DEF Next, Reclaim

\* A consumer that has an entry after a step had it before, or got it just now.
LEMMA Holders ==
  ASSUME TypeInv, Hands, [Next]_vars, NEW c \in Consumers, InHand(c)'
  PROVE  \/ /\ InHand(c) /\ con'[c].msg = con[c].msg
            /\ con[c].pc \in {"ack", "release"} => con'[c].pc \in {"ack", "release"}
         \/ /\ ~InHand(c) /\ con'[c].pc = "check"
            /\ con'[c].msg \in Entries /\ Live(con'[c].msg)
            /\ Unread(con'[c].msg) \/ con'[c].msg \in batch
<1>1. CASE Handle(c)
  <2>1. InHand(c) /\ con'[c].msg = con[c].msg
    BY <1>1, Handles DEF NoWork, InHand
  <2>2. con[c].pc \in {"ack", "release"} => con'[c].pc \in {"ack", "release"}
    BY <1>1, Labelled DEF NoWork, InHand
  <2> QED
    BY <2>1, <2>2
<1>2. CASE con'[c] = con[c]
  BY <1>2 DEF InHand
<1> QED
  BY <1>1, <1>2, ConStep DEF NoWork, InHand
\* No entry comes back.
LEMMA LiveShrinks ==
  ASSUME TypeInv, [Next]_vars, NEW m \in Entries, Live(m)'
  PROVE  Live(m) /\ (Unread(m)' => Unread(m))
<1>1. m \in Nat /\ base \in Nat
  BY EntriesAre DEF TypeInv, TypeOK
<1>2. base' \in Nat /\ base <= base'
  <2>1. ASSUME NEW task \in Tasks, Add(task)
        PROVE  base' \in Nat /\ base <= base'
    BY <2>1, Added, EntriesAre DEF TypeInv, TypeOK
  <2>2. CASE \E e \in Execs : Enqueue(e) \/ RunDirect(e)
    <3>1. PICK e \in Execs : Enqueue(e) \/ RunDirect(e)
      BY <2>2
    <3>2. [exec |-> e, retry |-> 0] \in Tasks
      BY GenQueueAssumption DEF Tasks
    <3>3. Add([exec |-> e, retry |-> 0]) \/ base' = base
      BY <3>1 DEF Enqueue, RunDirect
    <3> QED
      BY <1>1, <2>1, <3>2, <3>3
  <2>3. CASE MoveAdd
    BY <2>1, <2>3 DEF MoveAdd, TypeInv, TypeOK
  <2>4. CASE \E c \in Consumers : Handle(c)
    BY <1>1, <2>4, Untouched
  <2>5. CASE \/ \E e \in Execs : FinishDirect(e) \/ LockOut(e)
             \/ \E w \in Workers : Read(w)
             \/ \E n \in Entries : LeaseOut(n)
             \/ TakeNext \/ ClearLocks \/ Claim \/ MoveRemove \/ Tick \/ Restart
             \/ UNCHANGED vars
    <3>1. base' = base
      BY <2>5 DEF FinishDirect, LockOut, Read, LeaseOut, TakeNext, ClearLocks, Claim, MoveRemove,
                  Tick, Restart, redis, vars
    <3> QED
      BY <1>1, <3>1
  <2> QED
    BY <2>2, <2>3, <2>4, <2>5 DEF Next, Reclaim
<1>3. Unread(m)' => Unread(m)
  BY <1>1, <1>2, CursorGrows DEF Unread
<1>4. m \in pending' => m \in pending \/ Unread(m)
  <2>1. CASE \E w \in Workers : Read(w)
    BY <2>1 DEF Read, Unread
  <2>2. CASE \E c \in Consumers : Handle(c)
    BY <2>2, Acks
  <2>3. CASE \/ \E e \in Execs : Enqueue(e) \/ RunDirect(e) \/ FinishDirect(e) \/ LockOut(e)
             \/ \E n \in Entries : LeaseOut(n)
             \/ Reclaim \/ Restart \/ UNCHANGED vars
    BY <2>3 DEF Enqueue, RunDirect, FinishDirect, LockOut, LeaseOut, Reclaim, TakeNext, ClearLocks,
                Claim, MoveAdd, MoveRemove, Tick, Restart, redis, vars
  <2> QED
    BY <2>1, <2>2, <2>3 DEF Next
<1> QED
  BY <1>3, <1>4 DEF Live

LEMMA ExecStays ==
  ASSUME TypeInv, [Next]_vars, NEW m \in Entries
  PROVE  m \in Entries' /\ stream'[m] = stream[m] /\ Exec(m)' = Exec(m) /\ Exec(m) \in Execs
BY StreamGrows, EntriesAre DEF Exec, TypeInv, TypeOK, Tasks

\* A retry that is being moved is not taken for granted by anyone's entry.
LEMMA MoveIsDue ==
  ASSUME MoveAdd, ~Stall, NEW t, moving' = {t}
  PROVE  /\ t \in due
         /\ \A c \in Consumers : con[c].pc \in {"ack", "release"} => Exec(con[c].msg) # t.exec
BY DEF MoveAdd, Due

LEMMA SoleStays ==
  ASSUME TypeInv, Born, Hands, Hands', ~Stall, [Next]_vars, NEW c \in Consumers,
         Sole(c), InHand(c), InHand(c)'
  PROVE  Sole(c)'
<1>1. PICK n \in Entries, e \in Execs : n = con[c].msg /\ e = Exec(n) /\ n \in 1..cursor
                                        /\ n \notin batch
  BY EntriesAre DEF TypeInv, TypeOK, InStream, Hands, HandAt, Exec, Tasks
<1>2. con'[c].msg = n /\ (con[c].pc \in {"ack", "release"} => con'[c].pc \in {"ack", "release"})
  BY <1>1, Holders
<1>3. Exec(n)' = e /\ stream'[n].exec = e
  BY <1>1, ExecStays DEF Exec
<1>4. status[e] # "none"
  BY <1>1 DEF Born
<1>5. ASSUME NEW m \in Entries', Live(m)', Exec(m)' = e
      PROVE  m = n
  <2>1. CASE m \in Entries
    BY <1>1, <1>5, <2>1, LiveShrinks, ExecStays DEF Sole
  <2>2. CASE \E d \in Execs : /\ Enqueue(d) \/ RunDirect(d)
                              /\ stream'[m] = [exec |-> d, retry |-> 0]
    BY <1>4, <1>5, <2>2 DEF Enqueue, RunDirect, Exec
  <2>3. CASE MoveAdd /\ stream'[m] \in due /\ moving' = {stream'[m]}
    <3>1. stream'[m].exec = e
      BY <1>5 DEF Exec
    <3>2. IsDue(e)
      BY <2>3, <3>1 DEF IsDue
    <3>3. con[c].pc \in {"ack", "release"}
      BY <1>1, <3>2 DEF Sole
    <3> QED
      BY <1>1, <2>3, <3>1, <3>3, MoveIsDue
  <2> QED
    BY <2>1, <2>2, <2>3, StreamGrows
<1>6. ASSUME NEW t \in due', t.exec = e
      PROVE  con'[c].pc \in {"ack", "release"}
  <2>1. CASE t \in due
    BY <1>1, <1>2, <1>6, <2>1 DEF Sole, IsDue
  <2>2. CASE t \notin due
    <3>1. PICK d \in Consumers : ScheduleRetry(d) /\ t.exec = Exec(con[d].msg)
      BY <2>2, DueGrows
    <3>2. d = c
      BY <1>1, <1>6, <3>1 DEF Sole, Has, ScheduleRetry, At, InHand
    <3>3. Goto(c, "ack")
      BY <2>2, <3>1, <3>2 DEF ScheduleRetry
    <3> QED
      BY <3>3, Moves DEF TypeInv, TypeOK, Labels
  <2> QED
    BY <2>1, <2>2
<1>7. ASSUME NEW d \in Consumers, InHand(d)', stream'[con'[d].msg].exec = e
      PROVE  d = c
  <2>1. CASE InHand(d) /\ con'[d].msg = con[d].msg
    <3>1. con[d].msg \in Entries
      BY <2>1 DEF TypeInv, InStream
    <3>2. Exec(con[d].msg) = e
      <4>1. PICK k \in Entries : k = con[d].msg
        BY <3>1
      <4>2. Exec(k)' = e
        BY <1>7, <2>1, <4>1 DEF Exec
      <4> QED
        BY <4>1, <4>2, ExecStays
    <3> QED
      BY <1>1, <2>1, <3>2 DEF Sole, Has
  <2>2. CASE /\ con'[d].msg \in Entries /\ Live(con'[d].msg)
             /\ Unread(con'[d].msg) \/ con'[d].msg \in batch
    <3>1. PICK k \in Entries : k = con'[d].msg /\ Live(k) /\ (Unread(k) \/ k \in batch)
      BY <2>2
    <3>2. Exec(k)' = e
      BY <1>7, <3>1 DEF Exec
    <3>3. k = n
      BY <1>1, <3>1, <3>2, ExecStays DEF Sole
    <3>4. cursor \in Nat
      BY CursorGrows
    <3> QED
      BY <1>1, <3>1, <3>3, <3>4 DEF Unread
  <2> QED
    BY <1>7, <2>1, <2>2, Holders
<1>8. Exec(con[c].msg)' = e
  BY <1>2, <1>3 DEF Exec
<1> QED
  BY <1>2, <1>5, <1>6, <1>7, <1>8 DEF Sole, IsDue, Has, Exec

\* Who may change a lock.
LEMMA LockChanges ==
  ASSUME TypeInv, [Next]_vars, NEW e \in Execs, lock'[e] # lock[e]
  PROVE  \/ lock[e] = Nobody
         \/ \E d \in Consumers : Release(d) /\ Exec(con[d].msg) = e
         \/ LockOut(e)
         \/ ClearLocks
<1>1. CASE \E d \in Consumers : TakeLock(d)
  BY <1>1 DEF TakeLock, TypeInv, TypeOK
<1>2. CASE \E d \in Consumers : Release(d)
  BY <1>2 DEF Release, TypeInv, TypeOK
<1>3. CASE \E d \in Execs : LockOut(d)
  BY <1>3 DEF LockOut, TypeInv, TypeOK
<1>4. CASE \E d \in Consumers : Handle(d) /\ ~TakeLock(d) /\ ~Release(d)
  BY <1>4 DEF Handle, CheckDone, Find, Start, Finish, SetDone, ScheduleRetry, ToDead, Ack, redis
<1>5. CASE \/ \E d \in Execs : Enqueue(d) \/ RunDirect(d) \/ FinishDirect(d)
           \/ \E w \in Workers : Read(w)
           \/ \E n \in Entries : LeaseOut(n)
           \/ TakeNext \/ Claim \/ MoveAdd \/ MoveRemove \/ Tick \/ Restart
           \/ UNCHANGED vars
  BY <1>5 DEF Enqueue, RunDirect, FinishDirect, Read, LeaseOut, TakeNext, Claim, MoveAdd,
              MoveRemove, Tick, Restart, redis, vars
<1> QED
  BY <1>1, <1>2, <1>3, <1>4, <1>5 DEF Next, Reclaim

LEMMA LockingStep ==
  ASSUME TypeInv, OnceInv, ~Stall, Hands', [Next]_vars
  PROVE  Locking'
<1> SUFFICES ASSUME NEW c \in Consumers, con'[c].locked
             PROVE  (lock[Exec(con[c].msg)] = c \/ Sole(c))'
  BY DEF Locking
<1>1. InHand(c)'
  BY DEF Hands, HandAt
<1>2. CASE TakeLock(c) /\ ~con[c].locked
  <2>1. PICK n \in Entries : n = con[c].msg
    BY <1>2 DEF TakeLock, At, TypeInv, InStream, InHand
  <2>2. con'[c].pc # "idle"
    BY <1>1 DEF InHand
  <2>3. ~Leave(c)
    BY <2>2, Leaves DEF TypeInv, TypeOK, NoWork
  <2>4. lock' = [lock EXCEPT ![Exec(n)] = c] /\ stream' = stream
    BY <1>2, <2>1, <2>3 DEF TakeLock
  <2>5. con'[c].msg = n
    BY <1>1, <1>2, <2>1, Holders DEF TakeLock, At, InHand, OnceInv
  <2>6. lock'[Exec(n)] = c
    BY <2>4, ExecStays DEF TypeInv, TypeOK
  <2> QED
    BY <2>4, <2>5, <2>6 DEF Exec
<1>3. CASE con[c].locked
  <2>1. InHand(c)
    BY <1>3 DEF OnceInv, Hands, HandAt
  <2>2. PICK n \in Entries, e \in Execs : n = con[c].msg /\ e = Exec(n)
    BY <2>1, EntriesAre DEF TypeInv, TypeOK, InStream, Exec, Tasks
  <2>3. Exec(con[c].msg)' = e
    <3>1. con'[c].msg = n
      BY <1>1, <2>1, <2>2, Holders DEF OnceInv
    <3> QED
      BY <2>2, <3>1, ExecStays DEF Exec
  <2>4. CASE Sole(c)
    BY <1>1, <2>1, <2>4, SoleStays DEF OnceInv
  <2>5. CASE lock[e] = c /\ ~Sole(c)
    <3>1. lock[e] # Nobody
      BY <2>5, GenQueueAssumption
    <3>2. ASSUME NEW d \in Consumers, Release(d), Exec(con[d].msg) = e
          PROVE  FALSE
      <4>1. d # c
        BY <1>1, <3>2, Leaves DEF Release, TypeInv, TypeOK, NoWork, InHand
      <4>2. con[d].locked /\ InHand(d)
        BY <3>2 DEF Release, At, OnceInv, Hands, HandAt, InHand
      <4>3. Sole(d)
        BY <2>5, <3>2, <4>1, <4>2 DEF OnceInv, Locking
      <4> QED
        BY <2>1, <2>2, <3>2, <4>1, <4>3 DEF Sole, Has
    <3>3. ~LockOut(e)
      BY <1>3, <2>2 DEF LockOut
    <3>4. ~ClearLocks
      BY <2>1, <2>5 DEF ClearLocks, OnceInv, Clearing
    <3>5. lock'[e] = lock[e]
      BY <3>1, <3>2, <3>3, <3>4, LockChanges
    <3> QED
      BY <2>3, <2>5, <3>5
  <2> QED
    BY <1>3, <2>2, <2>4, <2>5 DEF OnceInv, Locking
<1>4. CASE ~con[c].locked /\ ~TakeLock(c)
  <2>1. ~Handle(c)
    BY <1>4, Labelled DEF Handle, CheckDone, Find, Start, Finish, SetDone, ScheduleRetry, ToDead,
       Ack, Release, At, NoWork
  <2> QED
    BY <1>4, <2>1, ConStep DEF OnceInv, NoWork
<1> QED
  BY <1>2, <1>3, <1>4
\* Before the stale locks are cleared an unread entry stays the only copy.
LEMMA LoneStays ==
  ASSUME TypeInv, OnceInv, [Next]_vars, phase = "clear", NEW m \in Entries, Unread(m)
  PROVE  /\ \A k \in Entries' : Live(k)' /\ Exec(k)' = Exec(m) => k = m
         /\ \A t \in due' : t.exec # Exec(m)
<1>1. Lone(m) /\ Live(m) /\ status[Exec(m)] # "none"
  BY DEF OnceInv, Clearing, Live, Born
<1>2. ASSUME NEW k \in Entries', Live(k)', Exec(k)' = Exec(m)
      PROVE  k = m
  <2>1. CASE k \in Entries
    BY <1>1, <1>2, <2>1, LiveShrinks, ExecStays DEF Lone
  <2>2. CASE \E d \in Execs : /\ Enqueue(d) \/ RunDirect(d)
                              /\ stream'[k] = [exec |-> d, retry |-> 0]
    BY <1>1, <1>2, <2>2 DEF Enqueue, RunDirect, Exec
  <2>3. ~MoveAdd
    BY DEF MoveAdd
  <2> QED
    BY <2>1, <2>2, <2>3, StreamGrows
<1>3. ASSUME NEW t \in due', t.exec = Exec(m)
      PROVE  FALSE
  <2>1. t \notin due
    BY <1>1, <1>3 DEF Lone, IsDue
  <2>2. PICK d \in Consumers : ScheduleRetry(d) /\ t.exec = Exec(con[d].msg)
    BY <2>1, DueGrows
  <2>3. InHand(d)
    BY <2>2 DEF ScheduleRetry, At, InHand
  <2>4. m = con[d].msg
    BY <1>1, <1>3, <2>2, <2>3 DEF OnceInv, Clearing, Sole
  <2>5. con[d].msg \in 1..cursor /\ cursor \in Nat
    BY <2>3, CursorGrows DEF OnceInv, Hands, HandAt
  <2> QED
    BY <2>4, <2>5 DEF Unread
<1> QED
  BY <1>2, <1>3

LEMMA ClearingGoesOn ==
  ASSUME TypeInv, OnceInv, Once, Hands', [Next]_vars, phase = "clear", ~Restart
  PROVE  Clearing'
<1>1. batch = {} /\ ~MoveAdd /\ cursor \in Nat
  BY CursorGrows DEF OnceInv, Hands, ReclaimerAt, MoveAdd
<1>2. ASSUME NEW c \in Consumers, InHand(c)'
      PROVE  Sole(c)'
  <2>1. CASE InHand(c)
    BY <1>2, <2>1, SoleStays DEF OnceInv, Once, Clearing
  <2>2. CASE ~InHand(c)
    <3>1. PICK m \in Entries : m = con'[c].msg /\ con'[c].pc = "check" /\ Unread(m)
      BY <1>1, <1>2, <2>2, Holders DEF OnceInv
    <3>2. Lone(m) /\ Live(m)
      BY <3>1 DEF OnceInv, Clearing, Live
    <3>3. Exec(m)' = Exec(m)
      BY ExecStays
    <3>4. PICK e : e = Exec(m)
      OBVIOUS
    <3>5. Exec(con[c].msg)' = e
      BY <3>1, <3>3, <3>4 DEF Exec
    <3>6. ASSUME NEW d \in Consumers, InHand(d)', stream'[con'[d].msg].exec = e
          PROVE  d = c
      <4>1. CASE InHand(d) /\ con'[d].msg = con[d].msg
        <5>1. PICK k \in Entries : k = con[d].msg
          BY <4>1 DEF TypeInv, InStream
        <5>2. Exec(k) = e
          BY <3>6, <4>1, <5>1, ExecStays DEF Exec
        <5>3. m = k
          BY <3>2, <3>4, <4>1, <5>1, <5>2 DEF OnceInv, Clearing, Sole
        <5>4. k \in 1..cursor
          BY <4>1, <5>1 DEF OnceInv, Hands, HandAt
        <5> QED
          BY <1>1, <3>1, <5>3, <5>4 DEF Unread
      <4>2. CASE con'[d].msg \in Entries /\ Live(con'[d].msg)
        <5>1. PICK k \in Entries : k = con'[d].msg /\ Live(k)
          BY <4>2
        <5>2. Exec(k) = e
          BY <3>6, <5>1, ExecStays DEF Exec
        <5>3. k = m
          BY <3>2, <3>4, <5>1, <5>2 DEF Lone
        <5> QED
          BY <1>2, <3>1, <3>6, <5>1, <5>3 DEF Hands, HandAt
      <4> QED
        BY <3>6, <4>1, <4>2, Holders DEF OnceInv
    <3>7. /\ \A k \in Entries' : Live(k)' /\ Exec(k)' = e => k = m
          /\ \A t \in due' : t.exec # e
      BY <3>1, <3>4, LoneStays
    <3> QED
      BY <3>1, <3>5, <3>6, <3>7 DEF Sole, IsDue, Has, Exec
  <2> QED
    BY <2>1, <2>2
<1>3. ASSUME NEW m \in Entries', Unread(m)'
      PROVE  Lone(m)'
  <2>1. CASE m \in Entries
    <3>1. Unread(m)
      BY <1>3, <2>1, LiveShrinks DEF Live
    <3>2. /\ \A k \in Entries' : Live(k)' /\ Exec(k)' = Exec(m) => k = m
          /\ \A t \in due' : t.exec # Exec(m)
      BY <2>1, <3>1, LoneStays
    <3> QED
      BY <2>1, <3>2, ExecStays DEF Lone, IsDue
  <2>2. CASE m \notin Entries
    <3>1. PICK e \in Execs : Enqueue(e) /\ stream'[m] = [exec |-> e, retry |-> 0]
      BY <1>1, <2>2, StreamGrows DEF Once
    <3>2. status[e] = "none" /\ due' = due /\ Exec(m)' = e
      BY <3>1 DEF Enqueue, Exec
    <3>3. \A k \in Entries' : Exec(k)' = e => k = m
      <4>1. ASSUME NEW k \in Entries', Exec(k)' = e
            PROVE  k \notin Entries
        BY <3>2, <4>1, ExecStays DEF OnceInv, Born
      <4> QED
        BY <2>2, <4>1, StreamGrows
    <3>4. \A t \in due' : t.exec # e
      BY <3>2 DEF OnceInv, Born
    <3> QED
      BY <3>2, <3>3, <3>4 DEF Lone, IsDue
  <2> QED
    BY <2>1, <2>2
<1> QED
  BY <1>2, <1>3 DEF Clearing

LEMMA ClearingBegins ==
  ASSUME TypeInv, OnceInv, Once, Restart
  PROVE  Clearing'
<1>1. crashes < MaxCrash /\ \A c \in Consumers : con[c].pc \in CrashAt \cup {"idle"}
  BY DEF Restart
<1>2. "moving" \notin CrashAt
  BY <1>1, GenQueueAssumption DEF Once, Tidy, TypeInv, TypeOK
<1>3. moving = {}
  BY <1>1, <1>2 DEF OnceInv, Hands, ReclaimerAt, At, Consumers
<1>4. UNCHANGED <<stream, base, cursor, pending, due>> /\ moving' = {}
  BY DEF Restart, redis
<1>5. ASSUME NEW m \in Entries, Unread(m)
      PROVE  Lone(m)
  <2>1. Alone(Exec(m)) /\ Live(m)
    BY <1>1, <1>5, EntriesAre DEF OnceInv, Single, TypeInv, TypeOK, Exec, Tasks, Live
  <2>2. \A c \in Consumers : At(c, "ack") => con[c].msg # m
    <3>1. \A c \in Consumers : At(c, "ack") => con[c].msg \in 1..cursor
      BY DEF At, InHand, OnceInv, Hands, HandAt
    <3>2. cursor \in Nat
      BY EntriesAre DEF TypeInv, TypeOK
    <3> QED
      BY <1>5, <3>1, <3>2 DEF Unread
  <2>3. ~IsDue(Exec(m))
    BY <1>3, <2>1, <2>2 DEF Alone, IsDue
  <2> QED
    BY <2>1, <2>3 DEF Alone, Lone
<1>6. \A c \in Consumers : ~InHand(c)'
  BY Restarts
<1>7. \A m \in Entries' : Unread(m)' => Lone(m)'
  BY <1>4, <1>5 DEF Unread, Lone, Live, Entries, Exec, IsDue
<1> QED
  BY <1>6, <1>7 DEF Clearing

LEMMA ClearingStep ==
  ASSUME TypeInv, OnceInv, Once, Hands', [Next]_vars
  PROVE  Clearing'
<1>1. CASE Restart
  BY <1>1, ClearingBegins
<1>2. CASE ~Restart
  <2>1. phase' = "clear" => phase = "clear"
    <3>1. CASE \E c \in Consumers : Handle(c)
      BY <3>1, Untouched
    <3>2. CASE ~\E c \in Consumers : Handle(c)
      BY <1>2, <3>2 DEF Next, Enqueue, RunDirect, FinishDirect, LockOut, Read, LeaseOut, Reclaim,
                        TakeNext, ClearLocks, Claim, MoveAdd, MoveRemove, Tick, local, vars
    <3> QED
      BY <3>1, <3>2
  <2>2. CASE phase = "clear"
    BY <1>2, <2>2, ClearingGoesOn
  <2>3. CASE phase # "clear"
    BY <2>1, <2>3 DEF Clearing
  <2> QED
    BY <2>2, <2>3
<1> QED
  BY <1>1, <1>2

\* Only these steps end what an entry or a retry was in.
LEMMA MovingStays ==
  ASSUME TypeInv, Hands, Tidy, [Next]_vars
  PROVE  \A t \in due' \ moving' : t \in due => t \notin moving
<1>1. CASE MoveRemove
  BY <1>1 DEF MoveRemove, Succeeds, Tidy
<1>2. CASE Restart
  BY <1>2 DEF Restart, Hands, ReclaimerAt, At, Consumers, Tidy
<1>3. CASE MoveAdd
  BY <1>3 DEF MoveAdd, Hands, ReclaimerAt, At
<1>4. CASE \E c \in Consumers : Handle(c)
  BY <1>4, Untouched
<1>5. CASE \/ \E e \in Execs : Enqueue(e) \/ RunDirect(e) \/ FinishDirect(e) \/ LockOut(e)
           \/ \E w \in Workers : Read(w)
           \/ \E m \in Entries : LeaseOut(m)
           \/ TakeNext \/ ClearLocks \/ Claim \/ Tick \/ UNCHANGED vars
  BY <1>5 DEF Enqueue, RunDirect, FinishDirect, LockOut, Read, LeaseOut, TakeNext, ClearLocks,
              Claim, Tick, local, vars
<1> QED
  BY <1>1, <1>2, <1>3, <1>4, <1>5 DEF Next, Reclaim

\* The consumer at "ack" of an entry that is still there stays at "ack".
LEMMA AckTakes ==
  ASSUME TypeInv, Hands, Tidy, Restart => "ack" \notin CrashAt, [Next]_vars,
         NEW c \in Consumers, At(c, "ack"), NEW m \in Entries, m = con[c].msg, Live(m)'
  PROVE  con'[c].msg = m /\ con'[c].pc = "ack"
<1>1. InHand(c)
  BY DEF At, InHand
<1>2. CASE Handle(c)
  <2>1. Ack(c)
    BY <1>2 DEF Handle, CheckDone, TakeLock, Find, Start, Finish, SetDone, ScheduleRetry, ToDead,
                Release, At
  <2>2. pending' = pending \ {m} /\ UNCHANGED <<cursor, base>>
    BY <2>1 DEF Ack, Succeeds, Tidy
  <2>3. m \in 1..cursor /\ cursor \in Nat
    BY <1>1, CursorGrows DEF Hands, HandAt
  <2> QED
    BY <2>2, <2>3 DEF Live, Unread
<1>3. CASE Restart
  BY <1>3 DEF Restart, At
<1> QED
  BY <1>1, <1>2, <1>3, ConStep DEF At
LEMMA AloneStep ==
  ASSUME TypeInv, TypeInv', Born, Hands, ~Stall, "reply" \notin Faults, Tidy,
         Restart => "ack" \notin CrashAt, [Next]_vars, NEW e \in Execs, Alone(e)
  PROVE  Alone(e)'
<1>1. \A t \in due' \ moving' : t \in due => t \notin moving
  BY MovingStays
\* A new entry is of an execution without another, or of a retry being moved.
<1>2. ASSUME NEW m \in Entries', m \notin Entries, Exec(m)' = e
      PROVE  /\ \A n \in Entries : Exec(n) = e => ~Live(n)
             /\ \A t \in due' \ moving' : t \in due => t.exec # e
             /\ due' = due
  <2>1. CASE \E d \in Execs : Enqueue(d) /\ stream'[m] = [exec |-> d, retry |-> 0]
    <3>1. status[e] = "none" /\ due' = due
      BY <1>2, <2>1 DEF Enqueue, Exec
    <3> QED
      BY <3>1 DEF Born
  <2>2. CASE MoveAdd /\ stream'[m] \in due /\ moving' = {stream'[m]}
    <3>1. PICK t \in due : t = stream'[m] /\ t.exec = e
      BY <1>2, <2>2 DEF Exec
    <3>2. due' = due /\ moving = {}
      BY <2>2 DEF MoveAdd, Hands, ReclaimerAt, At
    <3>3. ASSUME NEW n \in Entries, Exec(n) = e, Live(n)
          PROVE  FALSE
      <4>1. PICK c \in Consumers : con[c].msg = n /\ At(c, "ack")
        BY <3>1, <3>2, <3>3 DEF Alone
      <4> QED
        BY <2>2, <3>1, <3>3, <4>1, MoveIsDue DEF At
    <3>4. ASSUME NEW u \in due' \ moving', u.exec = e
          PROVE  FALSE
      <4>1. u = t
        BY <3>1, <3>2, <3>4 DEF Alone
      <4> QED
        BY <2>2, <3>1, <3>4, <4>1
    <3> QED
      BY <3>2, <3>3, <3>4
  <2> QED
    BY <1>2, <2>1, <2>2, StreamGrows
\* A new retry is of the only entry, which is being acknowledged.
<1>3. ASSUME NEW t \in due', t \notin due, t.exec = e
      PROVE  /\ \E c \in Consumers : /\ con'[c].msg = con[c].msg /\ con'[c].pc = "ack"
                                     /\ con[c].msg \in Entries /\ Live(con[c].msg)
                                     /\ Exec(con[c].msg) = e
             /\ \A u \in due \ moving : u.exec # e
             /\ Entries' = Entries
  <2>1. PICK c \in Consumers : ScheduleRetry(c) /\ Exec(con[c].msg) = e
    BY <1>3, DueGrows
  <2>2. con[c].pc = "retry" /\ InHand(c) /\ Entries' = Entries
    BY <2>1 DEF ScheduleRetry, At, InHand, Entries
  <2>3. Goto(c, "ack")
    BY <1>3, <2>1 DEF ScheduleRetry
  <2>4. con'[c].msg = con[c].msg /\ con'[c].pc = "ack"
    BY <2>3, Moves DEF TypeInv, TypeOK, Labels
  <2>5. con[c].msg \in Entries /\ Live(con[c].msg)
    BY <2>2 DEF TypeInv, InStream, Hands, HandAt, Live
  <2>6. ASSUME NEW u \in due \ moving, u.exec = e
        PROVE  FALSE
    <3>1. PICK d \in Consumers : con[d].msg = con[c].msg /\ At(d, "ack")
      BY <2>1, <2>5, <2>6 DEF Alone
    <3>2. d = c
      BY <2>2, <3>1 DEF At, InHand, Hands, HandAt
    <3> QED
      BY <2>2, <3>1, <3>2 DEF At
  <2> QED
    BY <2>1, <2>2, <2>4, <2>5, <2>6
<1>4. \A m, n \in Entries' : Live(m)' /\ Live(n)' /\ Exec(m)' = e /\ Exec(n)' = e => m = n
  <2> SUFFICES ASSUME NEW m \in Entries', NEW n \in Entries',
                      Live(m)', Live(n)', Exec(m)' = e, Exec(n)' = e
               PROVE  m = n
    OBVIOUS
  <2>1. CASE m \in Entries /\ n \in Entries
    BY <2>1, LiveShrinks, ExecStays DEF Alone
  <2>2. CASE m \notin Entries /\ n \notin Entries
    BY <2>2, StreamGrows
  <2>3. CASE m \notin Entries /\ n \in Entries
    BY <1>2, <2>3, LiveShrinks, ExecStays
  <2>4. CASE m \in Entries /\ n \notin Entries
    BY <1>2, <2>4, LiveShrinks, ExecStays
  <2> QED
    BY <2>1, <2>2, <2>3, <2>4
<1>5. \A t, u \in due' \ moving' : t.exec = e /\ u.exec = e => t = u
  <2> SUFFICES ASSUME NEW t \in due' \ moving', NEW u \in due' \ moving', t.exec = e, u.exec = e
               PROVE  t = u
    OBVIOUS
  <2>1. CASE t \in due /\ u \in due
    BY <1>1, <2>1 DEF Alone
  <2>2. CASE t \notin due /\ u \notin due
    BY <2>2, DueGrows
  <2>3. CASE t \notin due /\ u \in due
    BY <1>1, <1>3, <2>3
  <2>4. CASE t \in due /\ u \notin due
    BY <1>1, <1>3, <2>4
  <2> QED
    BY <2>1, <2>2, <2>3, <2>4
<1>6. ASSUME NEW t \in due' \ moving', NEW m \in Entries', t.exec = e, Live(m)', Exec(m)' = e
      PROVE  \E c \in Consumers : con'[c].msg = m /\ con'[c].pc = "ack"
  <2>1. CASE m \in Entries /\ t \in due
    <3>1. Live(m) /\ Exec(m) = e /\ t \notin moving
      BY <1>1, <1>6, <2>1, LiveShrinks, ExecStays
    <3>2. PICK c \in Consumers : con[c].msg = m /\ At(c, "ack")
      BY <1>6, <2>1, <3>1 DEF Alone
    <3> QED
      BY <1>6, <2>1, <3>2, AckTakes
  <2>2. CASE m \in Entries /\ t \notin due
    <3>1. Live(m) /\ Exec(m) = e
      BY <1>6, <2>2, LiveShrinks, ExecStays
    <3>2. PICK c \in Consumers : /\ con'[c].msg = con[c].msg /\ con'[c].pc = "ack"
                                 /\ con[c].msg \in Entries /\ Live(con[c].msg)
                                 /\ Exec(con[c].msg) = e
      BY <1>3, <1>6, <2>2
    <3>3. con[c].msg = m
      BY <2>2, <3>1, <3>2 DEF Alone
    <3> QED
      BY <3>2, <3>3
  <2>3. CASE m \notin Entries
    <3>1. t \in due
      BY <1>2, <1>6, <2>3
    <3> QED
      BY <1>2, <1>6, <2>3, <3>1
  <2> QED
    BY <2>1, <2>2, <2>3
<1> QED
  BY <1>4, <1>5, <1>6 DEF Alone, At

LEMMA CrashesAre ==
  ASSUME [Next]_vars
  PROVE  crashes' = crashes \/ Restart
<1>1. CASE \E c \in Consumers : Handle(c)
  BY <1>1, Untouched
<1>2. CASE ~\E c \in Consumers : Handle(c)
  BY <1>2 DEF Next, Enqueue, RunDirect, FinishDirect, LockOut, Read, LeaseOut, Reclaim,
              TakeNext, ClearLocks, Claim, MoveAdd, MoveRemove, Tick, vars
<1> QED
  BY <1>1, <1>2

LEMMA SingleStep ==
  ASSUME TypeInv, TypeInv', OnceInv, Once, [Next]_vars
  PROVE  Single'
<1> SUFFICES ASSUME crashes' < MaxCrash, NEW e \in Execs
             PROVE  Alone(e)'
  BY DEF Single
<1>1. crashes < MaxCrash /\ crashes \in Nat
  <2>1. crashes' = crashes \/ Restart
    BY CrashesAre
  <2> QED
    BY <2>1, GenQueueAssumption DEF Restart, TypeInv, TypeOK
<1>2. Alone(e)
  BY <1>1 DEF OnceInv, Single
<1>3. Tidy
  BY <1>1, GenQueueAssumption DEF Once
<1>4. Restart => "ack" \notin CrashAt
  BY <1>1, GenQueueAssumption DEF Once, Restart
<1> QED
  BY <1>2, <1>3, <1>4, AloneStep DEF OnceInv, Once

LEMMA OnceStep ==
  ASSUME TypeInv, OnceInv, Once, [Next]_vars
  PROVE  OnceInv'
<1>1. TypeInv'
  BY TypeStep
<1>2. Born' /\ Apart' /\ Hands'
  BY BornStep, ApartStep, HandsStep DEF OnceInv, Once
<1>3. Locking' /\ Clearing' /\ Single'
  BY <1>1, <1>2, LockingStep, ClearingStep, SingleStep DEF Once
<1> QED
  BY <1>2, <1>3 DEF OnceInv

LEMMA OnceIsEnough ==
  ASSUME TypeInv, OnceInv
  PROVE  OneRunPerExecution
<1> SUFFICES ASSUME NEW e \in Execs, NEW c \in Consumers, Running(c, e)
             PROVE  /\ direct[e] # "running"
                    /\ \A d \in Consumers : Running(d, e) => c = d
  BY DEF OneRunPerExecution
<1>1. \A d \in Consumers : Running(d, e) => /\ Has(d, e) /\ con[d].locked
                                            /\ con[d].msg \in Entries /\ Exec(con[d].msg) = e
  BY DEF Running, At, Has, InHand, TypeInv, InStream, OnceInv, Hands, HandAt
<1>2. direct[e] # "running"
  BY <1>1 DEF OnceInv, Apart
<1>3. ASSUME NEW d \in Consumers, Running(d, e)
      PROVE  c = d
  <2>1. lock[e] = c \/ Sole(c)
    BY <1>1 DEF OnceInv, Locking
  <2>2. lock[e] = d \/ Sole(d)
    BY <1>1, <1>3 DEF OnceInv, Locking
  <2>3. Sole(c) => c = d
    BY <1>1, <1>3 DEF Sole
  <2>4. Sole(d) => c = d
    BY <1>1, <1>3 DEF Sole
  <2> QED
    BY <2>1, <2>2, <2>3, <2>4
<1> QED
  BY <1>2, <1>3

\* The comment on SETNX in handle: the engine never runs twice at a time for
\* one execution, although entries are delivered again, retries are added twice
\* and a restart deletes the locks of everyone.  Without a restart this holds
\* whatever other call fails; with one, when an entry that was handled is
\* acknowledged and a retry that was moved is removed.
THEOREM RunsNeverOverlap ==
  ASSUME Once
  PROVE  Spec => []OneRunPerExecution
<1>1. Init => TypeInv /\ OnceInv
  BY TypeInit, OnceInit
<1>2. (TypeInv /\ OnceInv) /\ [Next]_vars => (TypeInv /\ OnceInv)'
  BY TypeStep, OnceStep
<1>3. TypeInv /\ OnceInv => OneRunPerExecution
  BY OnceIsEnough
<1> QED
  BY <1>1, <1>2, <1>3, PTL DEF Spec
-----------------------------------------------------------------------------
(* How often an execution runs *)

\* There is never a second copy of an execution.
OneCopy == ~Stall /\ "reply" \notin Faults /\ Tidy /\ "ack" \notin CrashAt

\* What an execution has run is paid for by the retries of its copy and by the
\* restarts.
Ran(m) == \E c \in Consumers :
            con[c].msg = m /\ con[c].pc \in {"running", "setDone", "retry", "dead", "ack"}
Budget(e) ==
  /\ status[e] = "none" => runs[e] = 0
  /\ runs[e] <= MaxRetry + 1 + crashes
  /\ \A t \in due \ moving : t.exec = e => runs[e] <= t.retry + crashes
  /\ \A m \in Entries : Live(m) /\ Exec(m) = e =>
       /\ runs[e] <= stream[m].retry + 1 + crashes
       /\ ~Ran(m) => runs[e] <= stream[m].retry + crashes

CopyInv == Born /\ Hands /\ \A e \in Execs : Alone(e)
BudgetInv == CopyInv /\ \A e \in Execs : Budget(e)

LEMMA CopyInit ==
  Init => CopyInv
<1> SUFFICES ASSUME Init PROVE CopyInv
  OBVIOUS
<1>1. Entries = {} /\ due = {}
  BY DEF Init, Entries
<1> QED
  BY <1>1, BornInit, HandsInit DEF CopyInv, Alone

LEMMA CopyStep ==
  ASSUME TypeInv, CopyInv, OneCopy, [Next]_vars
  PROVE  CopyInv'
<1>1. Born' /\ Hands' /\ TypeInv'
  BY BornStep, HandsStep, TypeStep DEF CopyInv, OneCopy
<1>2. \A e \in Execs : Alone(e)'
  BY <1>1, AloneStep DEF CopyInv, OneCopy
<1> QED
  BY <1>1, <1>2 DEF CopyInv

\* The engine starts in handle, or for a run without the queue.
LEMMA RunsGrow ==
  ASSUME TypeInv, [Next]_vars, NEW e \in Execs, runs'[e] # runs[e]
  PROVE  \/ RunDirect(e) /\ runs'[e] = 1
         \/ \E c \in Consumers : /\ Start(c) /\ Exec(con[c].msg) = e /\ con'[c].pc = "running"
                                 /\ runs'[e] <= runs[e] + 1
<1>1. CASE \E d \in Execs : RunDirect(d)
  BY <1>1 DEF RunDirect, TypeInv, TypeOK
<1>2. CASE \E c \in Consumers : Start(c)
  <2>1. PICK c \in Consumers : Start(c)
    BY <1>2
  <2>2. Engine(Exec(con[c].msg)) /\ Goto(c, "running")
    BY <2>1 DEF Start
  <2>3. PICK d : d = Exec(con[c].msg)
    OBVIOUS
  <2>4. runs' = [runs EXCEPT ![d] = IF @ < RunsCap THEN @ + 1 ELSE @]
    BY <2>2, <2>3 DEF Engine
  <2>5. runs \in [Execs -> 0..RunsCap] /\ RunsCap \in Nat
    BY GenQueueAssumption DEF TypeInv, TypeOK, RunsCap
  <2>6. d = e /\ runs'[e] <= runs[e] + 1
    BY <2>4, <2>5
  <2>7. con'[c].pc = "running"
    BY <2>2, Moves DEF TypeInv, TypeOK, Labels
  <2> QED
    BY <2>1, <2>3, <2>6, <2>7
<1>3. CASE \E c \in Consumers : Handle(c) /\ ~Start(c)
  BY <1>3 DEF Handle, CheckDone, TakeLock, Find, Finish, SetDone, ScheduleRetry, ToDead, Ack,
              Release, seen
<1>4. CASE \/ \E d \in Execs : Enqueue(d) \/ FinishDirect(d) \/ LockOut(d)
           \/ \E w \in Workers : Read(w)
           \/ \E m \in Entries : LeaseOut(m)
           \/ Reclaim \/ Restart \/ UNCHANGED vars
  BY <1>4 DEF Enqueue, FinishDirect, LockOut, Read, LeaseOut, Reclaim, TakeNext, ClearLocks,
              Claim, MoveAdd, MoveRemove, Tick, Restart, seen, vars
<1> QED
  BY <1>1, <1>2, <1>3, <1>4 DEF Next

\* The consumer that starts the engine has the only copy of the execution.
LEMMA OnlyCopy ==
  ASSUME TypeInv, CopyInv, NEW c \in Consumers, InHand(c), con[c].pc \notin {"ack", "release"}
  PROVE  /\ con[c].msg \in Entries /\ Live(con[c].msg)
         /\ Exec(con[c].msg) \in Execs
         /\ \A d \in Consumers : InHand(d) /\ con[d].msg = con[c].msg => d = c
         /\ \A m \in Entries : Live(m) /\ Exec(m) = Exec(con[c].msg) => m = con[c].msg
         /\ \A t \in due \ moving : t.exec # Exec(con[c].msg)
<1>1. PICK n \in Entries, e \in Execs : n = con[c].msg /\ e = Exec(n)
  BY EntriesAre DEF TypeInv, TypeOK, InStream, Exec, Tasks
<1>2. Live(n)
  BY <1>1 DEF CopyInv, Hands, HandAt, Live
<1>3. \A d \in Consumers : InHand(d) /\ con[d].msg = n => d = c
  BY <1>1 DEF CopyInv, Hands, HandAt
<1>4. Alone(e)
  BY DEF CopyInv
<1>5. \A t \in due \ moving : t.exec # e
  BY <1>1, <1>2, <1>3, <1>4 DEF Alone, At, InHand
<1> QED
  BY <1>1, <1>2, <1>3, <1>4, <1>5 DEF Alone

LEMMA RanStays ==
  ASSUME TypeInv, CopyInv, OneCopy, [Next]_vars, NEW m \in Entries, Ran(m), Live(m)'
  PROVE  Ran(m)' \/ Restart
<1>1. PICK c \in Consumers :
        con[c].msg = m /\ con[c].pc \in {"running", "setDone", "retry", "dead", "ack"}
  BY DEF Ran
<1>2. CASE con[c].pc = "ack"
  <2>1. con'[c].msg = m /\ con'[c].pc = "ack"
    BY <1>1, <1>2, AckTakes DEF At, CopyInv, OneCopy
  <2> QED
    BY <2>1 DEF Ran
<1>3. CASE con'[c] = con[c]
  BY <1>1, <1>3 DEF Ran
<1>4. CASE con[c].pc # "ack" /\ Handle(c)
  <2>1. con'[c].msg = m /\ con'[c].pc \in {"running", "setDone", "retry", "dead", "ack"}
    <3>1. con'[c].msg = con[c].msg
      BY <1>1, <1>4, Handles, Labelled DEF NoWork
    <3>2. con'[c].pc \in {"running", "setDone", "retry", "dead", "ack"}
      BY <1>1, <1>4, Moves
      DEF Handle, CheckDone, TakeLock, Find, Start, Finish, SetDone, ScheduleRetry, ToDead, Ack,
          Release, At, TypeInv, TypeOK, Labels
    <3> QED
      BY <1>1, <3>1, <3>2
  <2> QED
    BY <2>1 DEF Ran
<1> QED
  BY <1>1, <1>2, <1>3, <1>4, ConStep DEF InHand, CopyInv

\* What an allowance of retries and restarts is at least.
LEMMA Allowances ==
  ASSUME NEW i \in Nat, NEW k \in Nat
  PROVE  0 <= 0 + 1 + k /\ 0 <= 0 + k /\ 1 <= i + 1 + k
OBVIOUS

LEMMA BudgetStep ==
  ASSUME TypeInv, TypeInv', BudgetInv, OneCopy, [Next]_vars, NEW e \in Execs
  PROVE  Budget(e)'
<1>1. /\ runs[e] \in Nat /\ runs'[e] \in Nat /\ crashes \in Nat /\ crashes' \in Nat
      /\ MaxRetry \in Nat
      /\ \A m \in Entries : stream[m].retry \in 0..MaxRetry
      /\ \A t \in due : t.retry \in Nat
  <2>1. MaxRetry \in Nat /\ MaxCrash \in Nat /\ RunsCap \in Nat
    BY GenQueueAssumption DEF RunsCap
  <2>2. runs \in [Execs -> 0..RunsCap] /\ crashes \in 0..MaxCrash
    BY DEF TypeInv, TypeOK
  <2>3. runs' \in [Execs -> 0..RunsCap] /\ crashes' \in 0..MaxCrash
    BY DEF TypeInv, TypeOK
  <2>4. stream \in Seq(Tasks) /\ due \subseteq Tasks
    BY DEF TypeInv, TypeOK
  <2>5. \A t \in Tasks : t.retry \in 0..MaxRetry
    BY DEF Tasks
  <2>6. \A m \in Entries : stream[m].retry \in 0..MaxRetry
    BY <2>4, <2>5, EntriesAre
  <2>7. \A t \in due : t.retry \in Nat
    BY <2>1, <2>4, <2>5
  <2>8. runs[e] \in Nat /\ runs'[e] \in Nat /\ crashes \in Nat /\ crashes' \in Nat
    BY <2>1, <2>2, <2>3
  <2> QED
    BY <2>1, <2>6, <2>7, <2>8
<1>2. Budget(e) /\ CopyInv
  BY DEF BudgetInv
<1>3. crashes' = crashes \/ (Restart /\ crashes' = crashes + 1)
  BY CrashesAre DEF Restart
<1>4. CASE runs'[e] = runs[e]
  <2>1. (status[e] = "none" => runs[e] = 0)' /\ (runs[e] <= MaxRetry + 1 + crashes)'
    BY <1>1, <1>2, <1>3, <1>4, StaysBorn DEF Budget
  <2>2. ASSUME NEW t \in due' \ moving', t.exec = e
        PROVE  runs'[e] <= t.retry + crashes'
    <3>1. CASE t \in due
      <4>1. t \notin moving
        BY <1>2, <2>2, <3>1, MovingStays DEF CopyInv, OneCopy
      <4> QED
        BY <1>1, <1>2, <1>3, <1>4, <2>2, <3>1, <4>1 DEF Budget
    <3>2. CASE t \notin due
      <4>1. PICK c \in Consumers : /\ ScheduleRetry(c) /\ Exec(con[c].msg) = e
                                   /\ t.retry = stream[con[c].msg].retry + 1
        BY <2>2, <3>2, DueGrows
      <4>2. con[c].msg \in Entries /\ Live(con[c].msg)
        BY <1>2, <4>1, OnlyCopy DEF ScheduleRetry, At, InHand
      <4> QED
        BY <1>1, <1>2, <1>3, <1>4, <4>1, <4>2 DEF Budget
    <3> QED
      BY <3>1, <3>2
  <2>3. ASSUME NEW m \in Entries', Live(m)', Exec(m)' = e
        PROVE  /\ runs'[e] <= stream'[m].retry + 1 + crashes'
               /\ ~Ran(m)' => runs'[e] <= stream'[m].retry + crashes'
    <3>1. CASE m \in Entries
      <4>1. Live(m) /\ Exec(m) = e /\ stream'[m] = stream[m]
        BY <2>3, <3>1, LiveShrinks, ExecStays
      <4>2. /\ runs[e] <= stream[m].retry + 1 + crashes
            /\ ~Ran(m) => runs[e] <= stream[m].retry + crashes
        BY <1>2, <3>1, <4>1 DEF Budget
      <4>3. Ran(m) => Ran(m)' \/ Restart
        BY <1>2, <2>3, <3>1, RanStays
      <4>4. Restart => crashes' = crashes + 1
        BY DEF Restart
      <4>5. stream[m].retry \in Nat
        BY <1>1, <3>1
      <4> QED
        BY <1>1, <1>3, <1>4, <4>1, <4>2, <4>3, <4>4, <4>5
    <3>2. CASE \E d \in Execs : Enqueue(d) /\ stream'[m] = [exec |-> d, retry |-> 0]
      <4>1. Enqueue(e) /\ stream'[m].retry = 0
        BY <2>3, <3>2 DEF Exec
      <4>2. runs[e] = 0
        BY <1>2, <4>1 DEF Enqueue, Budget
      <4>3. runs'[e] = 0
        BY <1>4, <4>2
      <4>4. 0 <= 0 + 1 + crashes' /\ 0 <= 0 + crashes'
        BY <1>1, Allowances
      <4> QED
        BY <4>1, <4>3, <4>4, Zenon
    <3>3. CASE MoveAdd /\ stream'[m] \in due /\ moving' = {stream'[m]}
      <4>1. PICK t \in due : t = stream'[m] /\ t.exec = e
        BY <2>3, <3>3 DEF Exec
      <4>2. moving = {}
        BY <1>2, <3>3 DEF MoveAdd, CopyInv, Hands, ReclaimerAt, At
      <4>3. runs[e] <= t.retry + crashes
        BY <1>2, <4>1, <4>2 DEF Budget
      <4> QED
        BY <1>1, <1>3, <1>4, <4>1, <4>3
    <3> QED
      BY <3>1, <3>2, <3>3, StreamGrows DEF OneCopy
  <2>4. \A t \in (due \ moving)' : t.exec = e => runs'[e] <= t.retry + crashes'
    BY <2>2
  <2> QED
    BY <2>1, <2>3, <2>4, Zenon DEF Budget
<1>5. CASE RunDirect(e) /\ runs'[e] = 1
  <2>1. status[e] = "none" /\ status'[e] = "pending" /\ stream' = stream /\ due' = due
        /\ Entries' = Entries
    BY <1>5 DEF RunDirect, OneCopy, TypeInv, TypeOK, Entries
  <2>2. (\A m \in Entries : Exec(m) # e) /\ (\A t \in due : t.exec # e)
    BY <1>2, <2>1 DEF CopyInv, Born
  <2>3. \A m \in Entries' : Exec(m)' # e
    BY <2>1, <2>2 DEF Exec
  <2>4. status'[e] # "none"
    BY <2>1
  <2>5. 1 <= MaxRetry + 1 + crashes'
    BY <1>1, Allowances
  <2>6. \A t \in (due \ moving)' : t.exec # e
    BY <2>1, <2>2
  <2> QED
    BY <1>5, <2>3, <2>4, <2>5, <2>6, Zenon DEF Budget
<1>6. CASE \E c \in Consumers : /\ Start(c) /\ Exec(con[c].msg) = e /\ con'[c].pc = "running"
                                /\ runs'[e] <= runs[e] + 1
  <2>1. PICK c \in Consumers : /\ Start(c) /\ Exec(con[c].msg) = e /\ con'[c].pc = "running"
                               /\ runs'[e] <= runs[e] + 1
    BY <1>6
  <2>2. PICK n : n = con[c].msg
    OBVIOUS
  <2>3. con[c].pc = "start" /\ InHand(c) /\ Handle(c)
    BY <2>1 DEF Start, At, InHand, Handle
  <2>4. /\ n \in Entries /\ Live(n) /\ Exec(n) = e
        /\ \A d \in Consumers : InHand(d) /\ con[d].msg = n => d = c
        /\ \A m \in Entries : Live(m) /\ Exec(m) = e => m = n
        /\ \A t \in due \ moving : t.exec # e
    BY <1>2, <2>1, <2>2, <2>3, OnlyCopy
  <2>5. ~Ran(n)
    BY <2>3, <2>4 DEF Ran, InHand
  <2>6. runs[e] <= stream[n].retry + crashes /\ stream[n].retry \in 0..MaxRetry
    BY <1>1, <1>2, <2>4, <2>5 DEF Budget
  <2>7. UNCHANGED <<stream, base, cursor, due, moving, crashes>> /\ status'[e] # "none"
    <3>1. status'[e] = "running" \/ status'[e] = "failed"
      BY <2>1 DEF Start, Engine, TypeInv, TypeOK
    <3> QED
      BY <2>1, <3>1 DEF Start, redis
  <2>8. con'[c].msg = n /\ Ran(n)'
    <3>1. con'[c].msg = n
      BY <2>1, <2>2, <2>3, Handles DEF NoWork
    <3> QED
      BY <2>1, <3>1 DEF Ran
  <2>9. \A m \in Entries' : Live(m)' /\ Exec(m)' = e => m = n
    <3>1. Entries' = Entries
      BY <2>7 DEF Entries
    <3> QED
      BY <2>4, <3>1, LiveShrinks, ExecStays
  <2>10. runs'[e] <= stream[n].retry + 1 + crashes /\ runs'[e] <= MaxRetry + 1 + crashes
    BY <1>1, <2>1, <2>6
  <2> QED
    BY <1>1, <2>4, <2>7, <2>8, <2>9, <2>10 DEF Budget
<1> QED
  BY <1>4, <1>5, <1>6, RunsGrow

LEMMA BudgetStart ==
  Init => TypeInv /\ BudgetInv
<1> SUFFICES ASSUME Init PROVE BudgetInv
  BY TypeInit
<1>1. Entries = {} /\ due = {} /\ crashes = 0 /\ \A e \in Execs : runs[e] = 0
  BY DEF Init, Entries
<1> QED
  BY <1>1, CopyInit, GenQueueAssumption DEF BudgetInv, Budget

LEMMA BudgetKept ==
  ASSUME TypeInv, BudgetInv, OneCopy, [Next]_vars
  PROVE  (TypeInv /\ BudgetInv)'
<1>1. TypeInv' /\ CopyInv'
  BY TypeStep, CopyStep DEF BudgetInv
<1>2. \A e \in Execs : Budget(e)'
  BY <1>1, BudgetStep
<1> QED
  BY <1>1, <1>2 DEF BudgetInv

LEMMA BudgetIsEnough ==
  ASSUME BudgetInv
  PROVE  RunsBounded
<1> SUFFICES ASSUME NEW e \in Execs PROVE runs[e] <= MaxRetry + 1 + crashes
  BY DEF RunsBounded
<1> QED
  BY DEF BudgetInv, Budget

\* handle, Task.Retry: the engine runs at most once plus MaxRetry times for an
\* execution, and once more for every restart, when no second copy of its entry
\* comes about: a retry that was moved is removed and an entry that was handled
\* is acknowledged.
THEOREM RunsAreFew ==
  ASSUME OneCopy
  PROVE  Spec => []RunsBounded
<1>1. (TypeInv /\ BudgetInv) /\ [Next]_vars => (TypeInv /\ BudgetInv)'
  BY BudgetKept
<1> QED
  BY <1>1, BudgetStart, BudgetIsEnough, PTL DEF Spec

\* The same of the queue that meets one of three kinds of trouble, in the one
\* whose restart comes between refusals and retries.
THEOREM RefusingRunsAreFew ==
  ASSUME OneCopy
  PROVE  QueuesSpec => []RunsStayBounded
<1> DEFINE Bounded == trouble = "refusing" => TypeInv /\ BudgetInv
<1>1. Init => Bounded
  BY BudgetStart
<1>2. Bounded /\ [QueuesNext]_<<vars, trouble>> => Bounded'
  <2> SUFFICES ASSUME Bounded, [QueuesNext]_<<vars, trouble>>, trouble' = "refusing"
               PROVE  (TypeInv /\ BudgetInv)'
    OBVIOUS
  <2>1. trouble = "refusing" /\ [Next]_vars
    BY DEF QueuesNext
  <2> QED
    BY <2>1, BudgetKept
<1>3. Bounded => RunsStayBounded
  BY BudgetIsEnough DEF RunsStayBounded
<1> QED
  BY <1>1, <1>2, <1>3, PTL DEF QueuesSpec, QueuesInit
-----------------------------------------------------------------------------
(* What is done stays done *)

\* The engine is not busy with an execution that is done.
Awake ==
  /\ \A c \in Consumers :
       con[c].pc \in {"start", "running"} => status[Exec(con[c].msg)] # "done"
  /\ \A e \in Execs : direct[e] = "running" => status[e] # "done"
DoneInv == OnceInv /\ Awake

LEMMA AwakeInit ==
  Init => Awake
BY DEF Init, Awake, NoWork

LEMMA OneHolder ==
  ASSUME TypeInv, OnceInv, NEW c \in Consumers, NEW d \in Consumers,
         con[c].pc \in {"start", "running"}, con[d].pc \in {"start", "running"},
         Exec(con[c].msg) = Exec(con[d].msg)
  PROVE  c = d
<1>1. InHand(c) /\ InHand(d) /\ con[c].locked /\ con[d].locked
  BY DEF InHand, OnceInv, Hands, HandAt
<1>2. lock[Exec(con[c].msg)] = c \/ Sole(c)
  BY <1>1 DEF OnceInv, Locking
<1>3. lock[Exec(con[d].msg)] = d \/ Sole(d)
  BY <1>1 DEF OnceInv, Locking
<1>4. (Sole(c) => c = d) /\ (Sole(d) => c = d)
  BY <1>1 DEF Sole, Has
<1> QED
  BY <1>2, <1>3, <1>4

LEMMA StatusChanges ==
  ASSUME TypeInv, [Next]_vars, NEW e \in Execs, status'[e] # status[e]
  PROVE  \/ status[e] = "none" /\ status'[e] = "pending"
         \/ FinishDirect(e)
         \/ \E c \in Consumers : /\ Exec(con[c].msg) = e
                                 /\ (Start(c) /\ status'[e] # "done") \/ Finish(c)
<1>1. CASE \E d \in Execs : Enqueue(d) \/ RunDirect(d) \/ FinishDirect(d)
  BY <1>1 DEF Enqueue, RunDirect, FinishDirect, TypeInv, TypeOK
<1>2. CASE \E c \in Consumers : Start(c)
  BY <1>2 DEF Start, Engine, TypeInv, TypeOK
<1>3. CASE \E c \in Consumers : Finish(c)
  BY <1>3 DEF Finish, TypeInv, TypeOK
<1>4. CASE \E c \in Consumers : Handle(c) /\ ~Start(c) /\ ~Finish(c)
  BY <1>4 DEF Handle, CheckDone, TakeLock, Find, SetDone, ScheduleRetry, ToDead, Ack, Release
<1>5. CASE \/ \E d \in Execs : LockOut(d)
           \/ \E w \in Workers : Read(w)
           \/ \E m \in Entries : LeaseOut(m)
           \/ Reclaim \/ Restart \/ UNCHANGED vars
  BY <1>5 DEF LockOut, Read, LeaseOut, Reclaim, TakeNext, ClearLocks, Claim, MoveAdd,
              MoveRemove, Tick, Restart, vars
<1> QED
  BY <1>1, <1>2, <1>3, <1>4, <1>5 DEF Next

LEMMA DirectRuns ==
  ASSUME TypeInv, [Next]_vars, NEW e \in Execs, direct'[e] = "running"
  PROVE  \/ direct[e] = "running" /\ ~FinishDirect(e)
         \/ RunDirect(e) /\ status'[e] = "pending"
<1>1. CASE \E d \in Execs : RunDirect(d) \/ FinishDirect(d)
  BY <1>1 DEF RunDirect, FinishDirect, TypeInv, TypeOK
<1>2. CASE Restart
  BY <1>2 DEF Restart, TypeInv, TypeOK
<1>3. CASE \E c \in Consumers : Handle(c)
  <2>1. direct' = direct
    BY <1>3, Untouched
  <2> QED
    BY <2>1 DEF FinishDirect, TypeInv, TypeOK
<1>4. CASE \/ \E d \in Execs : Enqueue(d) \/ LockOut(d)
           \/ \E w \in Workers : Read(w)
           \/ \E m \in Entries : LeaseOut(m)
           \/ Reclaim \/ UNCHANGED vars
  <2>1. direct' = direct
    BY <1>4 DEF Enqueue, LockOut, Read, LeaseOut, Reclaim, TakeNext, ClearLocks, Claim,
                MoveAdd, MoveRemove, Tick, vars
  <2> QED
    BY <2>1 DEF FinishDirect, TypeInv, TypeOK
<1> QED
  BY <1>1, <1>2, <1>3, <1>4 DEF Next

\* A consumer comes to the engine by asking the database first.
LEMMA ComesAwake ==
  ASSUME TypeInv, NEW c \in Consumers, Handle(c), "find" \notin Faults,
         con'[c].pc \in {"start", "running"}, NEW e \in Execs, e = Exec(con[c].msg)
  PROVE  status'[e] # "done"
<1>1. CASE Find(c)
  BY <1>1, Moves DEF Find, Succeeds, TypeInv, TypeOK, Labels
<1>2. CASE Start(c)
  BY <1>2 DEF Start, Engine, TypeInv, TypeOK
<1>3. ASSUME Handle(c), ~Find(c), ~Start(c)
      PROVE  con[c].pc \in {"check", "lock", "running", "setDone", "retry", "dead", "ack",
                            "release"}
  BY <1>3 DEF Handle, CheckDone, TakeLock, Finish, SetDone, ScheduleRetry, ToDead, Ack,
              Release, At
<1>4. CASE ~Find(c) /\ ~Start(c) /\ con[c].pc \in {"check", "lock", "ack", "release"}
  BY <1>4, Labelled DEF NoWork
<1>5. CASE ~Find(c) /\ ~Start(c) /\ con[c].pc \in {"running", "setDone", "retry", "dead"}
  BY <1>5, Moves
  DEF Handle, CheckDone, TakeLock, Finish, SetDone, ScheduleRetry, ToDead, Ack,
      Release, At, TypeInv, TypeOK, Labels
<1> QED
  BY <1>1, <1>2, <1>3, <1>4, <1>5

LEMMA AwakeStep ==
  ASSUME TypeInv, DoneInv, "find" \notin Faults, [Next]_vars
  PROVE  Awake'
<1>1. ASSUME NEW e \in Execs, direct'[e] = "running"
      PROVE  status'[e] # "done"
  <2>1. CASE RunDirect(e) /\ status'[e] = "pending"
    BY <2>1
  <2>2. CASE direct[e] = "running" /\ ~FinishDirect(e)
    <3>1. \A c \in Consumers : Start(c) \/ Finish(c) => Exec(con[c].msg) # e
      BY <2>2 DEF Start, Finish, At, InHand, TypeInv, InStream, DoneInv, OnceInv, Apart
    <3> QED
      BY <2>2, <3>1, StatusChanges DEF DoneInv, Awake
  <2> QED
    BY <1>1, <2>1, <2>2, DirectRuns
<1>2. ASSUME NEW c \in Consumers, con'[c].pc \in {"start", "running"}
      PROVE  status'[Exec(con[c].msg)'] # "done"
  <2>1. con'[c] = con[c] \/ Handle(c)
    BY <1>2, ConStep DEF DoneInv, OnceInv, InHand, NoWork
  <2>2. con'[c].msg = con[c].msg /\ InHand(c)
    BY <1>2, <2>1, Handles DEF NoWork, InHand
  <2>3. PICK m \in Entries : m = con[c].msg
    BY <2>2 DEF TypeInv, InStream
  <2>4. PICK e \in Execs : e = Exec(m)
    BY <2>3, ExecStays
  <2>5. Exec(con[c].msg)' = e /\ Exec(con[c].msg) = e
    BY <2>2, <2>3, <2>4, ExecStays DEF Exec
  <2>6. CASE Handle(c)
    BY <1>2, <2>5, <2>6, ComesAwake
  <2>7. CASE con'[c] = con[c] /\ ~Handle(c)
    <3>1. status[e] # "done"
      BY <1>2, <2>5, <2>7 DEF DoneInv, Awake
    <3>2. ~FinishDirect(e)
      BY <2>3, <2>4 DEF FinishDirect, DoneInv, OnceInv, Apart
    <3>3. ASSUME NEW d \in Consumers, Finish(d), Exec(con[d].msg) = e
          PROVE  FALSE
      <4>1. con[d].pc = "running" /\ con[c].pc \in {"start", "running"}
        BY <1>2, <2>7, <3>3 DEF Finish, At
      <4>2. c = d
        BY <2>5, <3>3, <4>1, OneHolder DEF DoneInv
      <4> QED
        BY <2>7, <3>3, <4>2 DEF Handle
    <3> QED
      BY <2>5, <3>1, <3>2, <3>3, StatusChanges
  <2> QED
    BY <2>1, <2>6, <2>7
<1> QED
  BY <1>1, <1>2 DEF Awake

\* HandleQueuedTask: an execution that is done never runs again, although its
\* entry may be delivered again, as long as the database can be asked.
THEOREM DoneStaysDone ==
  ASSUME Once, "find" \notin Faults
  PROVE  Spec => DoneIsFinal
<1>1. Init => TypeInv /\ DoneInv
  BY TypeInit, OnceInit, AwakeInit DEF DoneInv
<1>2. (TypeInv /\ DoneInv) /\ [Next]_vars => (TypeInv /\ DoneInv)'
  BY TypeStep, OnceStep, AwakeStep DEF DoneInv
<1>3. TypeInv /\ DoneInv /\ [Next]_vars
        => [\A e \in Execs : status[e] = "done" => status'[e] = "done"]_vars
  <2> SUFFICES ASSUME TypeInv, DoneInv, [Next]_vars, NEW e \in Execs, status[e] = "done"
               PROVE  status'[e] = "done"
    OBVIOUS
  <2>1. ~FinishDirect(e)
    BY DEF FinishDirect, DoneInv, Awake
  <2>2. \A c \in Consumers : Exec(con[c].msg) = e => ~Start(c) /\ ~Finish(c)
    BY DEF Start, Finish, At, DoneInv, Awake
  <2> QED
    BY <2>1, <2>2, StatusChanges
<1> QED
  BY <1>1, <1>2, <1>3, PTL DEF Spec, DoneIsFinal
-----------------------------------------------------------------------------
(* What is refused stays refused *)

\* A refused execution is settled: no retry of it is due, and the consumer of the
\* last entry it may have is about to acknowledge it.
Settled(e) ==
  /\ status[e] # "none"
  /\ \A t \in due \ moving : t.exec # e
  /\ \A m \in Entries : Live(m) /\ Exec(m) = e => Decided(m)
RefusedInv == CopyInv /\ \A e \in refused : Settled(e)

\* Whoever is past the done key and before the acknowledgement comes to it.
LEMMA DecidedStays ==
  ASSUME TypeInv, CopyInv, OneCopy, "setDone" \notin CrashAt, [Next]_vars,
         NEW m \in Entries, Decided(m), Live(m)'
  PROVE  Decided(m)'
<1>1. PICK c \in Consumers : con[c].msg = m /\ con[c].pc \in {"setDone", "ack"}
  BY DEF Decided
<1>2. CASE con[c].pc = "ack"
  <2>1. con'[c].msg = m /\ con'[c].pc = "ack"
    BY <1>1, <1>2, AckTakes DEF At, CopyInv, OneCopy
  <2> QED
    BY <2>1 DEF Decided
<1>3. CASE con[c].pc = "setDone"
  <2>1. ~Restart
    BY <1>3 DEF Restart
  <2>2. CASE con'[c] = con[c]
    BY <1>1, <2>2 DEF Decided
  <2>3. CASE Handle(c)
    <3>1. SetDone(c)
      BY <1>3, <2>3 DEF Handle, CheckDone, TakeLock, Find, Start, Finish, ScheduleRetry,
                        ToDead, Ack, Release, At
    <3>2. con'[c].msg = m /\ con'[c].pc = "ack"
      BY <1>1, <3>1, Moves DEF SetDone, TypeInv, TypeOK, Labels
    <3> QED
      BY <3>2 DEF Decided
  <2> QED
    BY <1>3, <2>1, <2>2, <2>3, ConStep DEF InHand, CopyInv
<1> QED
  BY <1>1, <1>2, <1>3

\* Nobody works on an execution that is settled.
LEMMA SettledIsIdle ==
  ASSUME TypeInv, CopyInv, NEW e \in Execs, Settled(e), NEW c \in Consumers, InHand(c),
         Exec(con[c].msg) = e
  PROVE  con[c].pc \in {"setDone", "ack", "release"}
<1> SUFFICES ASSUME con[c].pc \notin {"ack", "release"} PROVE con[c].pc = "setDone"
  OBVIOUS
<1>1. /\ con[c].msg \in Entries /\ Live(con[c].msg)
      /\ \A d \in Consumers : InHand(d) /\ con[d].msg = con[c].msg => d = c
  BY OnlyCopy
<1>2. PICK d \in Consumers : con[d].msg = con[c].msg /\ con[d].pc \in {"setDone", "ack"}
  BY <1>1 DEF Settled, Decided
<1> QED
  BY <1>1, <1>2 DEF InHand

LEMMA SettledStays ==
  ASSUME TypeInv, CopyInv, OneCopy, "setDone" \notin CrashAt, [Next]_vars, NEW e \in Execs,
         Settled(e)
  PROVE  Settled(e)'
<1>1. status'[e] # "none"
  BY StaysBorn DEF Settled
<1>2. ASSUME NEW t \in due' \ moving', t.exec = e
      PROVE  FALSE
  <2>1. CASE t \in due
    BY <1>2, <2>1, MovingStays DEF Settled, CopyInv, OneCopy
  <2>2. CASE t \notin due
    <3>1. PICK c \in Consumers : ScheduleRetry(c) /\ Exec(con[c].msg) = e
      BY <1>2, <2>2, DueGrows
    <3>2. con[c].pc = "retry" /\ InHand(c)
      BY <3>1 DEF ScheduleRetry, At, InHand
    <3> QED
      BY <3>1, <3>2, SettledIsIdle
  <2> QED
    BY <2>1, <2>2
<1>3. ASSUME NEW m \in Entries', Live(m)', Exec(m)' = e
      PROVE  Decided(m)'
  <2>1. CASE m \in Entries
    <3>1. Live(m) /\ Exec(m) = e
      BY <1>3, <2>1, LiveShrinks, ExecStays
    <3> QED
      BY <1>3, <2>1, <3>1, DecidedStays DEF Settled
  <2>2. CASE \E d \in Execs : Enqueue(d) /\ stream'[m] = [exec |-> d, retry |-> 0]
    BY <1>3, <2>2 DEF Exec, Enqueue, Settled
  <2>3. CASE MoveAdd /\ stream'[m] \in due /\ moving' = {stream'[m]}
    <3>1. moving = {}
      BY <2>3 DEF MoveAdd, CopyInv, Hands, ReclaimerAt, At
    <3> QED
      BY <1>3, <2>3, <3>1 DEF Exec, Settled
  <2> QED
    BY <2>1, <2>2, <2>3, StreamGrows DEF OneCopy
<1> QED
  BY <1>1, <1>2, <1>3 DEF Settled

\* What is refused now is settled: its only copy is being acknowledged.
LEMMA RefusedNow ==
  ASSUME TypeInv, CopyInv, [Next]_vars, NEW e, e \in refused', e \notin refused
  PROVE  e \in Execs /\ Settled(e)'
<1>1. CASE \E c \in Consumers : Start(c) \/ Finish(c)
  <2>1. PICK c \in Consumers : Start(c) \/ Finish(c)
    BY <1>1
  <2>2. PICK n : n = con[c].msg
    OBVIOUS
  <2>3. con[c].pc \in {"start", "running"} /\ InHand(c) /\ Handle(c)
    BY <2>1 DEF Start, Finish, At, InHand, Handle
  <2>4. /\ n \in Entries /\ Exec(n) \in Execs
        /\ \A m \in Entries : Live(m) /\ Exec(m) = Exec(n) => m = n
        /\ \A t \in due \ moving : t.exec # Exec(n)
    BY <2>2, <2>3, OnlyCopy
  <2>5. /\ e = Exec(n) /\ status' = [status EXCEPT ![e] = "failed"]
        /\ con'[c].pc \in {"setDone", "ack"} /\ con'[c].msg = n
    BY <2>1, <2>2, Moves DEF Start, Finish, Refuse, Engine, TypeInv, TypeOK, Labels
  <2>6. UNCHANGED <<stream, base, cursor, pending, due, moving>>
    BY <2>1 DEF Start, Finish, redis
  <2>7. status'[e] # "none"
    BY <2>4, <2>5 DEF TypeInv, TypeOK
  <2>8. Decided(n)'
    BY <2>5 DEF Decided
  <2>9. \A m \in Entries' : Live(m)' /\ Exec(m)' = e => m = n
    <3>1. Entries' = Entries
      BY <2>6 DEF Entries
    <3> QED
      BY <2>4, <2>5, <3>1, LiveShrinks, ExecStays
  <2> QED
    BY <2>4, <2>5, <2>6, <2>7, <2>8, <2>9 DEF Settled
<1>2. CASE \E c \in Consumers : Handle(c) /\ ~Start(c) /\ ~Finish(c)
  BY <1>2 DEF Handle, CheckDone, TakeLock, Find, SetDone, ScheduleRetry, ToDead, Ack,
              Release, seen
<1>3. CASE \/ \E d \in Execs : Enqueue(d) \/ RunDirect(d) \/ FinishDirect(d) \/ LockOut(d)
           \/ \E w \in Workers : Read(w)
           \/ \E m \in Entries : LeaseOut(m)
           \/ Reclaim \/ Restart \/ UNCHANGED vars
  BY <1>3 DEF Enqueue, RunDirect, FinishDirect, LockOut, Read, LeaseOut, Reclaim, TakeNext,
              ClearLocks, Claim, MoveAdd, MoveRemove, Tick, Restart, seen, vars
<1> QED
  BY <1>1, <1>2, <1>3 DEF Next

LEMMA RefusedStart ==
  Init => TypeInv /\ RefusedInv
BY TypeInit, CopyInit DEF RefusedInv, Init

LEMMA RefusedKept ==
  ASSUME TypeInv, RefusedInv, OneCopy, "setDone" \notin CrashAt, [Next]_vars
  PROVE  (TypeInv /\ RefusedInv)'
<1>1. TypeInv' /\ CopyInv'
  BY TypeStep, CopyStep DEF RefusedInv
<1>2. \A e \in refused' : Settled(e)'
  BY RefusedNow, SettledStays DEF RefusedInv, TypeInv, TypeOK
<1> QED
  BY <1>1, <1>2 DEF RefusedInv

LEMMA RefusedIsNotRun ==
  ASSUME TypeInv, RefusedInv, OneCopy, [Next]_vars, NEW e \in refused
  PROVE  runs'[e] = runs[e]
<1> SUFFICES ASSUME runs'[e] # runs[e]
             PROVE  FALSE
  OBVIOUS
<1>1. e \in Execs /\ Settled(e) /\ CopyInv
  BY DEF RefusedInv, TypeInv, TypeOK
<1>2. ~RunDirect(e)
  BY <1>1 DEF RunDirect, Settled
<1>3. ASSUME NEW c \in Consumers, Start(c), Exec(con[c].msg) = e
      PROVE  FALSE
  <2>1. con[c].pc = "start" /\ InHand(c)
    BY <1>3 DEF Start, At, InHand
  <2> QED
    BY <1>1, <1>3, <2>1, SettledIsIdle
<1> QED
  BY <1>1, <1>2, <1>3, RunsGrow

\* handle, ErrNoRetry: an execution whose failure was marked as not worth a
\* retry never runs again, as long as its entry is acknowledged and no process
\* stops between the done key and the acknowledgement.
THEOREM RefusalsStand ==
  ASSUME OneCopy, "setDone" \notin CrashAt
  PROVE  Spec => RefusedIsFinal
<1>1. (TypeInv /\ RefusedInv) /\ [Next]_vars => (TypeInv /\ RefusedInv)'
  BY RefusedKept
<1>2. TypeInv /\ RefusedInv /\ [Next]_vars => [\A e \in refused : runs'[e] = runs[e]]_vars
  BY RefusedIsNotRun
<1> QED
  BY <1>1, <1>2, RefusedStart, PTL DEF Spec, RefusedIsFinal

\* The same of the queue that meets one of three kinds of trouble.
THEOREM RefusingIsFinal ==
  ASSUME OneCopy, "setDone" \notin CrashAt
  PROVE  QueuesSpec => RefusedStaysRefused
<1> DEFINE Standing == trouble = "refusing" => TypeInv /\ RefusedInv
<1>1. Init => Standing
  BY RefusedStart
<1>2. Standing /\ [QueuesNext]_<<vars, trouble>> => Standing'
  <2> SUFFICES ASSUME Standing, [QueuesNext]_<<vars, trouble>>, trouble' = "refusing"
               PROVE  (TypeInv /\ RefusedInv)'
    OBVIOUS
  <2>1. trouble = "refusing" /\ [Next]_vars
    BY DEF QueuesNext
  <2> QED
    BY <2>1, RefusedKept
<1>3. Standing /\ [QueuesNext]_<<vars, trouble>>
        => [trouble = "refusing" => \A e \in refused : runs'[e] = runs[e]]_<<vars, trouble>>
  <2> SUFFICES ASSUME Standing, QueuesNext, trouble = "refusing", NEW e \in refused
               PROVE  runs'[e] = runs[e]
    OBVIOUS
  <2>1. [Next]_vars
    BY DEF QueuesNext
  <2> QED
    BY <2>1, RefusedIsNotRun
<1> QED
  BY <1>1, <1>2, <1>3, PTL DEF QueuesSpec, QueuesInit, RefusedStaysRefused
=============================================================================
