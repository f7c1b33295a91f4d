-------------------------------- MODULE Recharge --------------------------------
(***************************************************************************)
(* Buying points: the order, the payment at Alipay or WeChat Pay, its      *)
(* notifications and queries, and the credits.  From                       *)
(* src/server/internal/service/payment_shared.go, payment_service.go,      *)
(* wechat_pay_service.go, handler/payment_handler.go and                   *)
(* billing/service.go.                                                     *)
(*                                                                         *)
(* A worker is one request the server is handling: a notification of the   *)
(* provider, or the browser asking after an order (which, for WeChat Pay,  *)
(* makes the server ask the provider).  Both claim the order in the        *)
(* database, add the credits, read the balance, and undo the claim if a    *)
(* step fails; each is a statement of its own.  The provider repeats a     *)
(* notification until it is answered with success.                         *)
(***************************************************************************)
EXTENDS Integers, FiniteSets

CONSTANTS
  Orders,
  Workers,
  Worlds,      \* the channels in use and what may go wrong, one chosen at the start
  MaxFaults,   \* bound: failing statements and crashes
  None

Faults == {"add", "balance", "rollback", "crash", "resend", "gone", "late"}
ASSUME WorldsAssumption ==
  /\ Worlds \subseteq [channels : SUBSET {"alipay", "wechat"}, faults : SUBSET Faults]
  /\ MaxFaults \in Nat /\ None \notin Orders

VARIABLES
  world,
  status,      \* payment_orders.status, "none" before the row exists
  channel,     \* payment_orders.pay_channel
  paid,        \* orders the user has paid at the provider
  acked,       \* orders whose notification was answered with success
  credited,    \* how many times the points of an order were added
  works,       \* what each worker is doing
  faults

server == <<world, status, channel, paid, acked, credited, works, faults>>

Idle == [at |-> "idle", order |-> None, via |-> "notify", live |-> TRUE]
At(w, step) == works' = [works EXCEPT ![w].at = step]
On(w) == works[w].order
Busy(o) == \E w \in Workers : works[w].at # "idle" /\ On(w) = o

Init ==
  /\ world \in Worlds
  /\ status = [o \in Orders |-> "none"] /\ channel = [o \in Orders |-> "alipay"]
  /\ paid = {} /\ acked = {} /\ credited = [o \in Orders |-> 0]
  /\ works = [w \in Workers |-> Idle] /\ faults = 0

\* A statement fails when its request was cut off, or because the database does.
CutOff(w) == ~works[w].live /\ UNCHANGED faults
Breaks(what) == what \in world.faults /\ faults < MaxFaults /\ faults' = faults + 1
Fails(w, what) == CutOff(w) \/ (works[w].live /\ Breaks(what))
Works(w) == works[w].live /\ UNCHANGED faults

-----------------------------------------------------------------------------
(* The order and the payment *)

\* newPendingOrder, and the provider's order; Alipay needs no call for it.
CreateOrder(o, c) ==
  /\ status[o] = "none" /\ c \in world.channels
  /\ channel' = [channel EXCEPT ![o] = c]
  /\ status' = [status EXCEPT ![o] = "pending"]
  /\ UNCHANGED <<world, paid, acked, credited, works, faults>>
\* WeChat Pay refuses: closeOrder.
CreateRefused(o) ==
  /\ status[o] = "none" /\ "wechat" \in world.channels
  /\ channel' = [channel EXCEPT ![o] = "wechat"]
  /\ status' = [status EXCEPT ![o] = "closed"]
  /\ UNCHANGED <<world, paid, acked, credited, works, faults>>
Pay(o) ==
  /\ status[o] \in {"pending", "paid"} /\ o \notin paid /\ paid' = paid \cup {o}
  /\ UNCHANGED <<world, status, channel, acked, credited, works, faults>>

-----------------------------------------------------------------------------
(* The requests that reach the server *)

Start(w, o, via, step) ==
  /\ works[w].at = "idle"
  /\ works' = [works EXCEPT ![w] = [at |-> step, order |-> o, via |-> via, live |-> TRUE]]
  /\ UNCHANGED <<world, status, channel, paid, acked, credited, faults>>
\* Providers repeat; a repetition overtakes a slow answer only in the "resend" worlds.
HandleNotify(w, o) ==
  /\ o \in paid /\ o \notin acked
  /\ "resend" \in world.faults \/ ~Busy(o)
  /\ Start(w, o, "notify", "claim")
\* GetOrder and SyncPendingOrder: WeChat is asked only about a pending order, at
\* most every five seconds, and may not answer.
GetOrder(w, o) ==
  /\ status[o] # "none"
  /\ \/ Start(w, o, "poll", "answer")
     \/ /\ status[o] = "pending" /\ channel[o] = "wechat" /\ o \in paid
        /\ Start(w, o, "poll", "claim")

-----------------------------------------------------------------------------
(* chargeOrder *)

\* Mutant: the order is claimed whatever its status is.
ClaimRegardless(w) ==
  /\ works[w].at = "claim" /\ Works(w)
  /\ status' = [status EXCEPT ![On(w)] = "paid"] /\ At(w, "add")
  /\ UNCHANGED <<world, channel, paid, acked, credited>>
\* UPDATE ... WHERE status = 'pending': one worker gets it.
Claim(w) ==
  /\ works[w].at = "claim" /\ Works(w)
  /\ IF status[On(w)] = "pending"
     THEN status' = [status EXCEPT ![On(w)] = "paid"] /\ At(w, "add")
     ELSE UNCHANGED status /\ At(w, "ack")
  /\ UNCHANGED <<world, channel, paid, acked, credited>>
ClaimFails(w) ==
  /\ works[w].at = "claim" /\ CutOff(w) /\ At(w, "fail")
  /\ UNCHANGED <<world, status, channel, paid, acked, credited>>
\* Recharge: AddCredits, then GetCredits; the bill is best effort.
AddCredits(w) ==
  /\ works[w].at = "add" /\ Works(w)
  /\ credited' = [credited EXCEPT ![On(w)] = @ + 1] /\ At(w, "balance")
  /\ UNCHANGED <<world, status, channel, paid, acked>>
AddCreditsFails(w) ==
  /\ works[w].at = "add" /\ Fails(w, "add") /\ At(w, "rollback")
  /\ UNCHANGED <<world, status, channel, paid, acked, credited>>
GetCredits(w) ==
  /\ works[w].at = "balance" /\ Works(w) /\ At(w, "ack")
  /\ UNCHANGED <<world, status, channel, paid, acked, credited>>
GetCreditsFails(w) ==
  /\ works[w].at = "balance" /\ Fails(w, "balance") /\ At(w, "rollback")
  /\ UNCHANGED <<world, status, channel, paid, acked, credited>>
\* Mutant: the claim of an order that could not be credited stands.
RollbackNothing(w) ==
  /\ works[w].at = "rollback" /\ Works(w) /\ At(w, "fail")
  /\ UNCHANGED <<world, status, channel, paid, acked, credited>>
RollbackClaim(w) ==
  /\ works[w].at = "rollback" /\ Works(w) /\ At(w, "fail")
  /\ status' = [status EXCEPT ![On(w)] = "pending"]
  /\ UNCHANGED <<world, channel, paid, acked, credited>>
RollbackClaimFails(w) ==
  /\ works[w].at = "rollback" /\ Fails(w, "rollback") /\ At(w, "fail")
  /\ UNCHANGED <<world, status, channel, paid, acked, credited>>

\* Mutant: the provider hears success whatever came of it.
AcknowledgeAll(w) ==
  /\ works[w].via = "notify" /\ works[w].at \in {"ack", "fail"}
  /\ acked' = acked \cup {On(w)}
  /\ works' = [works EXCEPT ![w] = Idle]
  /\ UNCHANGED <<world, status, channel, paid, credited, faults>>
\* What the provider hears; anything but success makes it try again.
Acknowledge(w) ==
  /\ works[w].via = "notify" /\ works[w].at \in {"ack", "fail"}
  /\ acked' = IF works[w].at = "ack" THEN acked \cup {On(w)} ELSE acked
  /\ works' = [works EXCEPT ![w] = Idle]
  /\ UNCHANGED <<world, status, channel, paid, credited, faults>>
\* What the browser hears: GetOrder reads the row again.
Replied(w) == works[w].via = "poll" /\ works[w].at \in {"ack", "fail", "answer"}
Reply(w) ==
  /\ Replied(w) /\ works' = [works EXCEPT ![w] = Idle]
  /\ UNCHANGED <<world, status, channel, paid, acked, credited, faults>>

-----------------------------------------------------------------------------
(* What cuts a request off *)

\* A poll lives in the context of its request: it ends with the page.  WeChat's
\* notification has five seconds of its own; Alipay's has no limit.
Cut(w) ==
  /\ works[w].at # "idle" /\ works[w].live
  /\ \/ works[w].via = "poll" /\ "gone" \in world.faults
     \/ works[w].via = "notify" /\ channel[On(w)] = "wechat" /\ "late" \in world.faults
  /\ works' = [works EXCEPT ![w].live = FALSE]
  /\ UNCHANGED <<world, status, channel, paid, acked, credited, faults>>
Crash ==
  /\ Breaks("crash") /\ works' = [w \in Workers |-> Idle]
  /\ UNCHANGED <<world, status, channel, paid, acked, credited>>

Charge(w) ==
  \/ Claim(w) \/ ClaimFails(w) \/ AddCredits(w) \/ AddCreditsFails(w)
  \/ GetCredits(w) \/ GetCreditsFails(w) \/ RollbackClaim(w) \/ RollbackClaimFails(w)
  \/ Acknowledge(w)
Disturb == Crash \/ \E w \in Workers : Cut(w)
Shop == \E o \in Orders : CreateRefused(o) \/ Pay(o) \/ \E c \in {"alipay", "wechat"} : CreateOrder(o, c)
Next ==
  \/ Shop \/ Disturb
  \/ \E w \in Workers :
       \/ Charge(w) \/ Reply(w)
       \/ \E o \in Orders : HandleNotify(w, o) \/ GetOrder(w, o)

Spec == Init /\ [][Next]_server

\* The server finishes what it handles; the provider does not give up.
Fairness ==
  /\ \A w \in Workers : WF_server(Charge(w)) /\ WF_server(Reply(w))
  /\ \A o \in Orders : SF_server(\E w \in Workers : HandleNotify(w, o))
FairSpec == Spec /\ Fairness

-----------------------------------------------------------------------------
Steps == {"idle", "claim", "add", "balance", "rollback", "ack", "fail", "answer"}
Work == [at : Steps, order : Orders \cup {None}, via : {"notify", "poll"}, live : BOOLEAN]
TypeOK ==
  /\ world \in Worlds /\ faults \in 0 .. MaxFaults
  /\ status \in [Orders -> {"none", "pending", "paid", "closed"}]
  /\ channel \in [Orders -> {"alipay", "wechat"}]
  /\ paid \subseteq Orders /\ acked \subseteq paid
  /\ credited \in [Orders -> Nat]
  /\ works \in [Workers -> Work]
  /\ \A w \in Workers : works[w].at # "idle" => On(w) \in Orders

\* The points of an order are added at most once, and only if it was paid,
\* however many notifications and queries tell the server of it
\* (payment_shared.go: claimPaidOrder).
CreditedOnce == \A o \in Orders : credited[o] <= 1 /\ (credited[o] = 1 => o \in paid)

\* A notification is answered with success only if the points are there
\* (wechat_pay_service.go: HandleNotify; payment_service.go: chargeOrder).
AckedIsCredited == \A o \in acked : Busy(o) \/ credited[o] >= 1

\* What the user has paid is credited in the end.
EveryPaymentCredited == \A o \in Orders : o \in paid ~> credited[o] >= 1
=============================================================================
