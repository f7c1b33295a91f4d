------------------------------ MODULE GenQueue ------------------------------
(***************************************************************************)
(* The queue of generation tasks on a Redis Stream (queue/queue.go) and    *)
(* the handler it calls (WorkflowHandler.HandleQueuedTask).                *)
(*                                                                         *)
(* One process runs worker goroutines, which read new entries, and one     *)
(* reclaim goroutine, which at the start of the process and then every 30  *)
(* seconds takes over entries nobody acknowledged and moves due retries    *)
(* back into the stream.  Redis keeps the stream, the pending entries of   *)
(* the consumer group, the retry set, the lock of every execution and its  *)
(* "done" key, and survives the process.                                   *)
(*                                                                         *)
(* An entry's id is its position in the stream.  Time is abstract: a lease *)
(* or a lock runs out when the code allows 900 seconds to pass.            *)
(***************************************************************************)
EXTENDS Integers, Sequences

CONSTANTS
  Execs,      \* executions, each enqueued at most once
  Workers,    \* worker goroutines
  Reclaimer,  \* the reclaim goroutine
  Nobody,     \* a lock that does not exist
  MaxRetry,   \* queue.max_retry
  MaxLen,     \* entries the stream keeps at least
  MaxEntries, \* bound on the entries ever added
  MaxCrash,   \* bound on the restarts of the process
  CrashAt,    \* labels of its goroutines at which the process may die
  Stall,      \* may a live worker fail to renew its lease in time?
  Faults      \* Redis and database calls that may fail: a subset of Calls

Calls == {"enqueue", "reply", "exists", "lock", "find", "done", "retry", "dead", "ack",
          "move"}

Consumers == Workers \cup {Reclaimer}

ASSUME GenQueueAssumption ==
  /\ Reclaimer \notin Workers
  /\ Nobody \notin Consumers
  /\ MaxRetry \in Nat
  /\ MaxLen \in Nat
  /\ MaxEntries \in Nat
  /\ MaxCrash \in Nat
  /\ Stall \in BOOLEAN
  /\ Faults \subseteq Calls

VARIABLES
  stream,  \* every entry ever added to the stream
  base,    \* entries up to this one were trimmed
  cursor,  \* the last entry delivered to the consumer group
  pending, \* entries delivered and not acknowledged
  idle,    \* those of them whose lease has run out
  due,     \* the retry set
  dead,    \* the dead-letter stream
  doneKey, \* executions whose "done" key is set
  lock,    \* lock[e]: the consumer that took the lock of execution e
  status,  \* status of the execution in the database
  con,     \* con[c]: where consumer c is and the entry it handles
  batch,   \* entries the reclaimer has taken over and not handled yet
  phase,   \* where the reclaimer's loop is
  moving,  \* the retry it has added to the stream and not removed yet
  crashes, \* restarts so far
  direct,  \* direct[e]: the run of e in the process itself, without the queue
  runs,    \* runs[e]: times the engine was started for execution e
  refused  \* executions whose failure the handler marked as not worth a retry

redis == <<stream, base, cursor, pending, idle, due, dead, doneKey, lock>>
local == <<con, batch, phase, moving>>
seen == <<runs, refused>>
vars == <<redis, status, local, direct, crashes, seen>>

Tasks == [exec : Execs, retry : 0..MaxRetry]

Entries == DOMAIN stream
Exec(m) == stream[m].exec

Labels == {"idle", "check", "lock", "find", "start", "running", "setDone", "retry",
           "dead", "ack", "release", "moving"}

\* The counter of runs stops here.
RunsCap == MaxRetry + MaxCrash + 2

\* `locked`: handle got past SETNX, so leaving it deletes the lock.
NoWork == [pc |-> "idle", msg |-> 0, locked |-> FALSE]
Work == [pc : Labels, msg : 0..MaxEntries, locked : BOOLEAN]

TypeOK ==
  /\ stream \in Seq(Tasks) /\ Len(stream) <= MaxEntries
  /\ base \in 0..Len(stream)
  /\ cursor \in 0..Len(stream)
  /\ idle \subseteq pending /\ pending \subseteq 1..cursor
  /\ due \subseteq Tasks
  /\ dead \subseteq Tasks
  /\ doneKey \subseteq Execs
  /\ lock \in [Execs -> Consumers \cup {Nobody}]
  /\ status \in [Execs -> {"none", "pending", "running", "done", "failed"}]
  /\ con \in [Consumers -> Work]
  /\ \A c \in Consumers : con[c].msg \in 0..Len(stream)
  /\ batch \subseteq 1..Len(stream)
  /\ phase \in {"clear", "first", "claim", "move"}
  /\ moving \subseteq due
  /\ crashes \in 0..MaxCrash
  /\ direct \in [Execs -> {"no", "running", "over"}]
  /\ runs \in [Execs -> 0..RunsCap]
  /\ refused \subseteq Execs

Init ==
  /\ stream = <<>> /\ base = 0 /\ cursor = 0
  /\ pending = {} /\ idle = {}
  /\ due = {} /\ dead = {} /\ doneKey = {}
  /\ lock = [e \in Execs |-> Nobody]
  /\ status = [e \in Execs |-> "none"]
  /\ con = [c \in Consumers |-> NoWork]
  /\ batch = {} /\ phase = "clear" /\ moving = {}
  /\ crashes = 0
  /\ direct = [e \in Execs |-> "no"]
  /\ runs = [e \in Execs |-> 0] /\ refused = {}
-----------------------------------------------------------------------------
At(c, label) == con[c].pc = label
Goto(c, label) == con' = [con EXCEPT ![c].pc = label]
Leave(c) == con' = [con EXCEPT ![c] = NoWork]

\* A call that Faults names may fail; handle only logs most of these errors.
Succeeds(call) == IF call \in Faults THEN BOOLEAN ELSE {TRUE}

\* XADD with MAXLEN ~: at least MaxLen entries stay, older ones may go.
Add(task) ==
  /\ Len(stream) < MaxEntries
  /\ stream' = Append(stream, task)
  /\ base' \in {b \in base..Len(stream') : b = base \/ b <= Len(stream') - MaxLen}

\* The engine starts for execution e.
Engine(e) ==
  /\ status' = [status EXCEPT ![e] = "running"]
  /\ runs' = [runs EXCEPT ![e] = IF @ < RunsCap THEN @ + 1 ELSE @]
  /\ UNCHANGED refused

\* Execute creates the execution as pending and enqueues it.
Enqueue(e) ==
  /\ status[e] = "none"
  /\ status' = [status EXCEPT ![e] = "pending"]
  /\ Add([exec |-> e, retry |-> 0])
  /\ UNCHANGED <<cursor, pending, idle, due, dead, doneKey, lock, local, direct,
                 crashes, seen>>

\* XADD reports an error, after it added the entry ("reply") or without having
\* done so: Execute runs the plan in the process itself, under no lock.
RunDirect(e) ==
  /\ status[e] = "none"
  /\ runs' = [runs EXCEPT ![e] = 1] /\ UNCHANGED refused
  /\ status' = [status EXCEPT ![e] = "pending"]
  /\ direct' = [direct EXCEPT ![e] = "running"]
  /\ \/ "reply" \in Faults /\ Add([exec |-> e, retry |-> 0])
     \/ "enqueue" \in Faults /\ UNCHANGED <<stream, base>>
  /\ UNCHANGED <<cursor, pending, idle, due, dead, doneKey, lock, local, crashes>>

FinishDirect(e) ==
  /\ direct[e] = "running"
  /\ direct' = [direct EXCEPT ![e] = "over"]
  /\ \E result \in {"done", "failed"} : status' = [status EXCEPT ![e] = result]
  /\ UNCHANGED <<redis, local, crashes, seen>>
-----------------------------------------------------------------------------
(* Delivery *)

\* Mutant: the entry is acknowledged before it is handled.
ReadAcked(w) ==
  /\ At(w, "idle")
  /\ \E m \in Entries :
       /\ m > cursor /\ m > base
       /\ \A n \in Entries : n > cursor /\ n > base => m <= n
       /\ cursor' = m
       /\ con' = [con EXCEPT ![w] = [NoWork EXCEPT !.pc = "check", !.msg = m]]
  /\ UNCHANGED <<stream, base, pending, idle, due, dead, doneKey, lock, status,
                 batch, phase, moving, direct, crashes, seen>>

\* XREADGROUP: the oldest entry nobody has got yet.
Read(w) ==
  /\ At(w, "idle")
  /\ \E m \in Entries :
       /\ m > cursor /\ m > base
       /\ \A n \in Entries : n > cursor /\ n > base => m <= n
       /\ cursor' = m
       /\ pending' = pending \cup {m}
       /\ con' = [con EXCEPT ![w] = [NoWork EXCEPT !.pc = "check", !.msg = m]]
  /\ UNCHANGED <<stream, base, idle, due, dead, doneKey, lock, status, batch,
                 phase, moving, direct, crashes, seen>>

\* The reclaimer handles the entries it took over one after the other.
TakeNext ==
  /\ At(Reclaimer, "idle")
  /\ \E m \in batch :
       /\ \A n \in batch : m <= n
       /\ con' = [con EXCEPT ![Reclaimer] = [NoWork EXCEPT !.pc = "check", !.msg = m]]
       /\ batch' = batch \ {m}
  /\ UNCHANGED <<redis, status, phase, moving, direct, crashes, seen>>
-----------------------------------------------------------------------------
(* handle *)

\* EXISTS done:exec: a finished execution is only acknowledged.
CheckDone(c) ==
  /\ At(c, "check")
  /\ \E ok \in Succeeds("exists") :
       Goto(c, IF ok /\ Exec(con[c].msg) \in doneKey THEN "ack" ELSE "lock")
  /\ UNCHANGED <<redis, status, batch, phase, moving, direct, crashes, seen>>

\* Mutant: the result of SETNX is ignored.
TakeLockAlways(c) ==
  /\ At(c, "lock")
  /\ lock' = [lock EXCEPT ![Exec(con[c].msg)] = IF @ = Nobody THEN c ELSE @]
  /\ con' = [con EXCEPT ![c] = [@ EXCEPT !.pc = "find", !.locked = TRUE]]
  /\ UNCHANGED <<stream, base, cursor, pending, idle, due, dead, doneKey, status,
                 batch, phase, moving, direct, crashes, seen>>

\* SETNX lock:exec: if it fails, or another consumer has it, the entry stays
\* pending and the reclaimer gets it later.
TakeLock(c) ==
  /\ At(c, "lock")
  /\ LET e == Exec(con[c].msg) IN
     \E ok \in Succeeds("lock") :
       IF ok /\ lock[e] = Nobody
       THEN /\ lock' = [lock EXCEPT ![e] = c]
            /\ con' = [con EXCEPT ![c] = [@ EXCEPT !.pc = "find", !.locked = TRUE]]
       ELSE Leave(c) /\ UNCHANGED lock
  /\ UNCHANGED <<stream, base, cursor, pending, idle, due, dead, doneKey, status,
                 batch, phase, moving, direct, crashes, seen>>

\* Mutant: an execution that is done is not skipped.
FindNothing(c) ==
  /\ At(c, "find")
  /\ Goto(c, "start")
  /\ UNCHANGED <<redis, status, batch, phase, moving, direct, crashes, seen>>

\* HandleQueuedTask skips an execution it finds done.
Find(c) ==
  /\ At(c, "find")
  /\ \E ok \in Succeeds("find") :
       Goto(c, IF ok /\ status[Exec(con[c].msg)] = "done" THEN "setDone" ELSE "start")
  /\ UNCHANGED <<redis, status, batch, phase, moving, direct, crashes, seen>>

Refuse(e) == refused' = refused \cup {e}

\* A plan that cannot be rebuilt fails without a retry; otherwise the engine runs.
Start(c) ==
  /\ At(c, "start")
  /\ LET e == Exec(con[c].msg) IN
     \/ /\ status' = [status EXCEPT ![e] = "failed"]
        /\ Refuse(e)
        /\ Goto(c, "setDone")
        /\ UNCHANGED runs
     \/ Engine(e) /\ Goto(c, "running")
  /\ UNCHANGED <<redis, batch, phase, moving, direct, crashes>>

\* Mutant: a failure marked ErrNoRetry is retried like any other.
FinishRetryAll(c) ==
  /\ At(c, "running")
  /\ LET e == Exec(con[c].msg) IN
     \/ status' = [status EXCEPT ![e] = "done"] /\ Goto(c, "setDone") /\ UNCHANGED refused
     \/ /\ status' = [status EXCEPT ![e] = "failed"]
        /\ Goto(c, "retry")
        /\ (Refuse(e) \/ UNCHANGED refused)
  /\ UNCHANGED <<redis, batch, phase, moving, direct, crashes, runs>>

\* runExecution writes the status; a failure with ErrNoRetry is acknowledged.
Finish(c) ==
  /\ At(c, "running")
  /\ LET e == Exec(con[c].msg) IN
     \/ status' = [status EXCEPT ![e] = "done"] /\ Goto(c, "setDone") /\ UNCHANGED refused
     \/ status' = [status EXCEPT ![e] = "failed"] /\ Goto(c, "ack") /\ Refuse(e)
     \/ status' = [status EXCEPT ![e] = "failed"] /\ Goto(c, "retry") /\ UNCHANGED refused
  /\ UNCHANGED <<redis, batch, phase, moving, direct, crashes, runs>>

SetDone(c) ==
  /\ At(c, "setDone")
  /\ \E ok \in Succeeds("done") :
       doneKey' = IF ok THEN doneKey \cup {Exec(con[c].msg)} ELSE doneKey
  /\ Goto(c, "ack")
  /\ UNCHANGED <<stream, base, cursor, pending, idle, due, dead, lock, status,
                 batch, phase, moving, direct, crashes, seen>>

\* Mutant: the bound is compared before the retry is counted.
ScheduleRetryLate(c) ==
  /\ At(c, "retry")
  /\ LET t == stream[con[c].msg] IN
     IF t.retry <= MaxRetry
     THEN /\ due' = due \cup {[t EXCEPT !.retry = @ + 1]}
          /\ Goto(c, "ack")
     ELSE UNCHANGED due /\ Goto(c, "dead")
  /\ UNCHANGED <<stream, base, cursor, pending, idle, dead, doneKey, lock, status,
                 batch, phase, moving, direct, crashes, seen>>

\* Task.Retry++, then ZADD; the dead-letter stream after the last retry.
ScheduleRetry(c) ==
  /\ At(c, "retry")
  /\ LET t == stream[con[c].msg] IN
     \E ok \in Succeeds("retry") :
       IF ok /\ t.retry < MaxRetry
       THEN due' = due \cup {[t EXCEPT !.retry = @ + 1]} /\ Goto(c, "ack")
       ELSE UNCHANGED due /\ Goto(c, "dead")
  /\ UNCHANGED <<stream, base, cursor, pending, idle, dead, doneKey, lock, status,
                 batch, phase, moving, direct, crashes, seen>>

ToDead(c) ==
  /\ At(c, "dead")
  /\ \E ok \in Succeeds("dead") :
       dead' = IF ok THEN dead \cup {stream[con[c].msg]} ELSE dead
  /\ Goto(c, "ack")
  /\ UNCHANGED <<stream, base, cursor, pending, idle, due, doneKey, lock, status,
                 batch, phase, moving, direct, crashes, seen>>

Ack(c) ==
  /\ At(c, "ack")
  /\ \E ok \in Succeeds("ack") :
       LET gone == IF ok THEN {con[c].msg} ELSE {}
       IN pending' = pending \ gone /\ idle' = idle \ gone
  /\ IF con[c].locked THEN Goto(c, "release") ELSE Leave(c)
  /\ UNCHANGED <<stream, base, cursor, due, dead, doneKey, lock, status, batch,
                 phase, moving, direct, crashes, seen>>

\* The deferred DEL of the lock, whoever holds it by now.
Release(c) ==
  /\ At(c, "release")
  /\ lock' = [lock EXCEPT ![Exec(con[c].msg)] = Nobody]
  /\ Leave(c)
  /\ UNCHANGED <<stream, base, cursor, pending, idle, due, dead, doneKey, status,
                 batch, phase, moving, direct, crashes, seen>>
-----------------------------------------------------------------------------
(* The leases *)

\* startLeaseRenewal keeps the lease of an entry, and its lock, while handle
\* is past SETNX; before that no 900 seconds pass.
LeaseOut(m) ==
  /\ m \in pending \ idle
  /\ Stall \/ \A c \in Consumers : con[c].msg # m
  /\ idle' = idle \cup {m}
  /\ UNCHANGED <<stream, base, cursor, pending, due, dead, doneKey, lock, status,
                 local, direct, crashes, seen>>

LockOut(e) ==
  /\ lock[e] # Nobody
  /\ Stall \/ \A c \in Consumers : ~(con[c].locked /\ Exec(con[c].msg) = e)
  /\ lock' = [lock EXCEPT ![e] = Nobody]
  /\ UNCHANGED <<stream, base, cursor, pending, idle, due, dead, doneKey, status,
                 local, direct, crashes, seen>>
-----------------------------------------------------------------------------
(* reclaimLoop *)

\* clearStaleLocks: at the start of the process, while its workers run.
ClearLocks ==
  /\ phase = "clear"
  /\ lock' = [e \in Execs |-> Nobody]
  /\ phase' = "first"
  /\ UNCHANGED <<stream, base, cursor, pending, idle, due, dead, doneKey, status,
                 con, batch, moving, direct, crashes, seen>>

\* Mutant: no entry is ever taken over.
ClaimNothing ==
  /\ phase \in {"first", "claim"}
  /\ phase' = "move"
  /\ UNCHANGED <<redis, status, con, batch, moving, direct, crashes, seen>>

\* XAUTOCLAIM: the entries idle for 900 seconds, at first for one second.  A
\* trimmed entry drops out of the pending ones instead.
Claim ==
  /\ phase \in {"first", "claim"}
  /\ \E old \in IF phase = "claim" THEN {idle}
                ELSE {old \in SUBSET pending :
                        idle \subseteq old /\ (Stall \/ \A c \in Consumers : con[c].msg \notin old)} :
       /\ batch' = {m \in old : m > base}
       /\ pending' = {m \in pending : m \in old => m > base}
       /\ idle' = idle \ old
  /\ phase' = "move"
  /\ UNCHANGED <<stream, base, cursor, due, dead, doneKey, lock, status, con,
                 moving, direct, crashes, seen>>

\* The backoff of at least 30 seconds is over: whoever scheduled the retry has
\* long left handle.
Due(t) ==
  Stall \/ \A c \in Consumers :
             con[c].pc \in {"ack", "release"} => Exec(con[c].msg) # t.exec

\* moveDueRetries: XADD, then ZREM.
MoveAdd ==
  /\ phase = "move" /\ batch = {} /\ At(Reclaimer, "idle")
  /\ \E t \in due : Due(t) /\ Add(t) /\ moving' = {t}
  /\ Goto(Reclaimer, "moving")
  /\ UNCHANGED <<cursor, pending, idle, due, dead, doneKey, lock, status, batch,
                 phase, direct, crashes, seen>>

MoveRemove ==
  /\ At(Reclaimer, "moving")
  /\ \E ok \in Succeeds("move") : due' = IF ok THEN due \ moving ELSE due
  /\ moving' = {}
  /\ Goto(Reclaimer, "idle")
  /\ UNCHANGED <<stream, base, cursor, pending, idle, dead, doneKey, lock, status,
                 batch, phase, direct, crashes, seen>>

\* Nothing more is due; the next tick of the loop claims again.
Tick ==
  /\ phase = "move" /\ batch = {} /\ At(Reclaimer, "idle")
  /\ phase' = "claim"
  /\ UNCHANGED <<redis, status, con, batch, moving, direct, crashes, seen>>
-----------------------------------------------------------------------------
\* The process is killed and started again.
Restart ==
  /\ crashes < MaxCrash
  /\ \A c \in Consumers : con[c].pc \in CrashAt \cup {"idle"}
  /\ crashes' = crashes + 1
  /\ con' = [c \in Consumers |-> NoWork]
  /\ batch' = {} /\ phase' = "clear" /\ moving' = {}
  /\ direct' = [e \in Execs |-> IF direct[e] = "running" THEN "over" ELSE direct[e]]
  /\ UNCHANGED <<redis, status, seen>>

Handle(c) ==
  \/ CheckDone(c) \/ TakeLock(c) \/ Find(c) \/ Start(c) \/ Finish(c) \/ SetDone(c)
  \/ ScheduleRetry(c) \/ ToDead(c) \/ Ack(c) \/ Release(c)

Reclaim == TakeNext \/ ClearLocks \/ Claim \/ MoveAdd \/ MoveRemove \/ Tick

Next ==
  \/ \E e \in Execs : Enqueue(e) \/ RunDirect(e) \/ FinishDirect(e) \/ LockOut(e)
  \/ \E w \in Workers : Read(w)
  \/ \E c \in Consumers : Handle(c)
  \/ \E m \in Entries : LeaseOut(m)
  \/ Reclaim
  \/ Restart

Spec == Init /\ [][Next]_vars

\* Goroutines run, the ticker ticks, leases run out, and a retry that stays in
\* the retry set falls due; nobody is forced to enqueue or to restart.
Fairness ==
  /\ \A w \in Workers : WF_vars(Read(w))
  /\ \A c \in Consumers : WF_vars(Handle(c))
  /\ \A e \in Execs : WF_vars(LockOut(e))
  /\ \A m \in 1..MaxEntries : WF_vars(m \in Entries /\ LeaseOut(m))
  /\ WF_vars(TakeNext \/ ClearLocks \/ Claim \/ MoveRemove \/ Tick)
  /\ SF_vars(MoveAdd)

FairSpec == Spec /\ Fairness
-----------------------------------------------------------------------------
(* Properties *)

Running(c, e) == At(c, "running") /\ Exec(con[c].msg) = e

\* The comment on SETNX in handle: no two consumers ever run the engine for the
\* same execution, whatever duplicates of its entry are about.
OneRunPerExecution ==
  \A e \in Execs : \A c \in Consumers :
    Running(c, e) => /\ direct[e] # "running"
                     /\ \A d \in Consumers : Running(d, e) => c = d

\* The outcome of e is decided: it is done, its failure was marked as not worth
\* a retry, it was dead-lettered, or it left the queue for the process itself.
Closed(e) ==
  \/ status[e] = "done" \/ e \in doneKey
  \/ e \in refused
  \/ \E t \in dead : t.exec = e
  \/ direct[e] # "no"

\* Redis alone still holds a way to get e handled.
Kept(e) ==
  \/ \E m \in Entries :
       Exec(m) = e /\ m > base /\ (m > cursor \/ m \in pending)
  \/ \E t \in due : t.exec = e

\* configs/config.yaml: a restart loses no task; an execution that was enqueued
\* and not brought to an end can be taken up again from Redis alone.
NoTaskLost == \A e \in Execs : status[e] = "none" \/ Closed(e) \/ Kept(e)

\* HandleQueuedTask: an execution that is done never runs again, although its
\* entry may be delivered again.
DoneIsFinal ==
  [][\A e \in Execs : status[e] = "done" => status'[e] = "done"]_vars

\* handle, Task.Retry: the engine runs at most once plus MaxRetry times for an
\* execution, and once more for every restart.
RunsBounded == \A e \in Execs : runs[e] <= MaxRetry + 1 + crashes

\* handle, ErrNoRetry: an execution whose failure was marked as not worth a
\* retry is never run again.
RefusedIsFinal == [][\A e \in refused : runs'[e] = runs[e]]_vars

\* A task that was enqueued is brought to an end.
EveryTaskCloses == \A e \in Execs : status[e] = "pending" ~> Closed(e)
=============================================================================
