-------------------------- MODULE PointsMall_proofs --------------------------
(***************************************************************************)
(* The points of an order are added at most once, for any number of        *)
(* orders and workers, whatever is cut off, repeated or crashes, as long   *)
(* as the balance can be read after the credits were added; and the same   *)
(* with the points mall polling, closing and leaving on top of the server. *)
(***************************************************************************)
EXTENDS PointsMall, TLAPS

\* Between claiming an order and being done with it a worker holds it.
Holds(w) == works[w].at \in {"add", "balance", "rollback"}

\* An order is held by one worker at a time, and stays claimed meanwhile.
Exclusive ==
  \A w \in Workers : Holds(w) =>
    /\ status[On(w)] = "paid"
    /\ \A v \in Workers \ {w} : Holds(v) => On(v) # On(w)
\* Whoever may still undo the claim has not added the points.
UndoneIsUncredited ==
  \A w \in Workers :
    works[w].at = "add" \/ (works[w].at = "rollback" /\ works[w].live) => credited[On(w)] = 0
\* What was credited was credited once, under a claim that stands.
CreditedIsClaimed ==
  \A o \in Orders : credited[o] # 0 => credited[o] = 1 /\ status[o] = "paid" /\ o \in paid
\* A request other than the mere answer to a poll is about a paid order.
ChargedIsPaid == \A w \in Workers : works[w].at \notin {"idle", "answer"} => On(w) \in paid

Inv == TypeOK /\ Exclusive /\ UndoneIsUncredited /\ CreditedIsClaimed /\ ChargedIsPaid

\* The balance can be read when it is asked for.
Readable == \A v \in Worlds : "balance" \notin v.faults
-----------------------------------------------------------------------------
(* What the helpers do to the workers *)

LEMMA Moved ==
  ASSUME works \in [Workers -> Work], NEW w \in Workers, NEW step \in Steps, At(w, step)
  PROVE  /\ works' \in [Workers -> Work]
         /\ works'[w].at = step /\ works'[w].order = On(w)
         /\ works'[w].via = works[w].via /\ works'[w].live = works[w].live
         /\ \A v \in Workers \ {w} : works'[v] = works[v]
BY DEF At, On, Work

LEMMA Replaced ==
  ASSUME works \in [Workers -> Work], NEW w \in Workers, NEW x \in Work,
         works' = [works EXCEPT ![w] = x]
  PROVE  /\ works' \in [Workers -> Work] /\ works'[w] = x
         /\ \A v \in Workers \ {w} : works'[v] = works[v]
OBVIOUS

LEMMA IdleIsWork == Idle \in Work /\ Idle.at = "idle"
BY DEF Idle, Work, Steps

LEMMA FailsFaults ==
  ASSUME TypeOK, NEW w \in Workers, NEW what, Fails(w, what)
  PROVE  faults' \in 0 .. MaxFaults
BY WorldsAssumption DEF TypeOK, Fails, CutOff, Breaks

-----------------------------------------------------------------------------
(* The steps *)

\* A step that only lets workers go, or cuts their requests off.
LEMMA Released ==
  ASSUME Inv, UNCHANGED <<world, status, channel, paid, credited>>,
         faults' \in 0 .. MaxFaults, works' \in [Workers -> Work],
         \A w \in Workers :
           \/ works'[w].at = "idle"
           \/ /\ works'[w].at = works[w].at /\ works'[w].order = works[w].order
              /\ works'[w].live => works[w].live,
         acked' \subseteq paid
  PROVE  Inv'
<1>1. TypeOK'
  BY DEF Inv, TypeOK, On
<1>2. Exclusive'
  BY DEF Inv, Exclusive, Holds, On
<1>3. UndoneIsUncredited'
  BY DEF Inv, UndoneIsUncredited, On
<1>4. CreditedIsClaimed'
  BY DEF Inv, CreditedIsClaimed
<1>5. ChargedIsPaid'
  BY DEF Inv, ChargedIsPaid, On
<1> QED BY <1>1, <1>2, <1>3, <1>4, <1>5 DEF Inv

\* A step of a worker that neither takes hold of an order nor adds points.
LEMMA Advanced ==
  ASSUME Inv, NEW w \in Workers, NEW step \in {"rollback", "ack", "fail"}, At(w, step),
         works[w].at \notin {"idle", "answer"},
         step = "rollback" => Holds(w) /\ (works[w].live => credited[On(w)] = 0),
         UNCHANGED <<world, status, channel, paid, acked, credited>>,
         faults' \in 0 .. MaxFaults
  PROVE  Inv'
<1>1. step \in Steps
  BY DEF Steps
<1>2. /\ works' \in [Workers -> Work]
      /\ works'[w].at = step /\ works'[w].order = On(w) /\ works'[w].live = works[w].live
      /\ \A v \in Workers \ {w} : works'[v] = works[v]
  BY <1>1, Moved DEF Inv, TypeOK
<1>3. TypeOK'
  BY <1>2 DEF Inv, TypeOK, On
<1>4. Exclusive'
  BY <1>2 DEF Inv, Exclusive, Holds, On
<1>5. UndoneIsUncredited'
  BY <1>2 DEF Inv, UndoneIsUncredited, On
<1>6. CreditedIsClaimed'
  BY DEF Inv, CreditedIsClaimed
<1>7. ChargedIsPaid'
  BY <1>2 DEF Inv, ChargedIsPaid, On
<1> QED BY <1>3, <1>4, <1>5, <1>6, <1>7 DEF Inv

LEMMA ShopStep ==
  ASSUME Inv, NEW o \in Orders, CreateRefused(o) \/ Pay(o) \/ \E c : CreateOrder(o, c)
  PROVE  Inv'
<1>1. UNCHANGED <<world, acked, credited, works, faults>> /\ paid \subseteq paid'
  BY DEF CreateRefused, Pay, CreateOrder
<1>2. TypeOK'
  <2>1. CASE CreateRefused(o)
    BY <2>1 DEF CreateRefused, Inv, TypeOK, On
  <2>2. CASE Pay(o)
    BY <2>2 DEF Pay, Inv, TypeOK, On
  <2>3. ASSUME NEW c, CreateOrder(o, c) PROVE TypeOK'
    <3>1. c \in {"alipay", "wechat"}
      BY <2>3, WorldsAssumption DEF CreateOrder, Inv, TypeOK
    <3> QED BY <2>3, <3>1 DEF CreateOrder, Inv, TypeOK, On
  <2> QED BY <2>1, <2>2, <2>3
<1>3. \A p \in Orders : status[p] = "paid" => status'[p] = "paid"
  BY DEF CreateRefused, Pay, CreateOrder, Inv, TypeOK
<1>4. \A w \in Workers : Holds(w) => On(w) \in Orders
  BY DEF Inv, TypeOK, Holds
<1>5. Exclusive'
  BY <1>1, <1>3, <1>4 DEF Inv, Exclusive, Holds, On
<1>6. UndoneIsUncredited' /\ ChargedIsPaid'
  BY <1>1 DEF Inv, UndoneIsUncredited, ChargedIsPaid, On
<1>7. CreditedIsClaimed'
  BY <1>1, <1>3 DEF Inv, CreditedIsClaimed
<1> QED BY <1>2, <1>5, <1>6, <1>7 DEF Inv

LEMMA RequestStep ==
  ASSUME Inv, NEW w \in Workers, NEW o \in Orders, HandleNotify(w, o) \/ GetOrder(w, o)
  PROVE  Inv'
<1>1. PICK via \in {"notify", "poll"}, step \in {"claim", "answer"} :
        Start(w, o, via, step) /\ (step = "claim" => o \in paid)
  BY DEF HandleNotify, GetOrder
<1> DEFINE x == [at |-> step, order |-> o, via |-> via, live |-> TRUE]
<1>2. x \in Work
  BY DEF Work, Steps
<1>3. /\ works' \in [Workers -> Work] /\ works'[w] = x
      /\ \A v \in Workers \ {w} : works'[v] = works[v]
  BY <1>1, <1>2, Replaced DEF Start, Inv, TypeOK
<1>4. UNCHANGED <<world, status, channel, paid, acked, credited, faults>>
  BY <1>1 DEF Start
<1>5. TypeOK'
  BY <1>3, <1>4 DEF Inv, TypeOK, On
<1>6. Exclusive' /\ UndoneIsUncredited' /\ ChargedIsPaid'
  BY <1>1, <1>3, <1>4 DEF Inv, Exclusive, UndoneIsUncredited, ChargedIsPaid, Holds, On
<1>7. CreditedIsClaimed'
  BY <1>4 DEF Inv, CreditedIsClaimed
<1> QED BY <1>5, <1>6, <1>7 DEF Inv

LEMMA ClaimStep ==
  ASSUME Inv, NEW w \in Workers, Claim(w)
  PROVE  Inv'
<1>1. On(w) \in Orders /\ On(w) \in paid /\ UNCHANGED <<world, channel, paid, acked, credited, faults>>
  BY DEF Claim, Works, Inv, TypeOK, ChargedIsPaid
<1>2. CASE status[On(w)] = "pending"
  <2>1. "add" \in Steps /\ At(w, "add") /\ status' = [status EXCEPT ![On(w)] = "paid"]
    BY <1>2 DEF Claim, Steps
  <2>2. /\ works' \in [Workers -> Work]
        /\ works'[w].at = "add" /\ works'[w].order = On(w)
        /\ \A v \in Workers \ {w} : works'[v] = works[v]
    BY <2>1, Moved DEF Inv, TypeOK
  <2>3. \A v \in Workers : Holds(v) => On(v) # On(w)
    BY <1>2 DEF Inv, Exclusive
  <2>4. credited[On(w)] = 0
    BY <1>1, <1>2 DEF Inv, CreditedIsClaimed
  <2>5. TypeOK'
    BY <1>1, <2>1, <2>2 DEF Inv, TypeOK, On
  <2>6. \A v \in Workers : Holds(v) => On(v) \in Orders
    BY DEF Inv, TypeOK, Holds
  <2>7. \A o \in Orders : status[o] = "paid" => status'[o] = "paid"
    BY <2>1 DEF Inv, TypeOK
  <2>8. status'[On(w)] = "paid"
    BY <1>1, <2>1 DEF Inv, TypeOK
  <2>9. Exclusive'
    BY <2>2, <2>3, <2>6, <2>7, <2>8 DEF Inv, Exclusive, Holds, On
  <2>10. UndoneIsUncredited' /\ ChargedIsPaid'
    BY <1>1, <2>2, <2>4 DEF Inv, UndoneIsUncredited, ChargedIsPaid, On
  <2>11. CreditedIsClaimed'
    BY <1>1, <2>7 DEF Inv, CreditedIsClaimed
  <2> QED BY <2>5, <2>9, <2>10, <2>11 DEF Inv
<1>3. CASE status[On(w)] # "pending"
  BY <1>1, <1>3, Advanced DEF Claim, Inv, TypeOK
<1> QED BY <1>2, <1>3

LEMMA AddCreditsStep ==
  ASSUME Inv, NEW w \in Workers, AddCredits(w)
  PROVE  Inv'
<1>1. /\ On(w) \in Orders /\ On(w) \in paid /\ Holds(w) /\ credited[On(w)] = 0
      /\ status[On(w)] = "paid"
      /\ UNCHANGED <<world, status, channel, paid, acked, faults>>
      /\ credited' = [credited EXCEPT ![On(w)] = @ + 1] /\ At(w, "balance")
  BY DEF AddCredits, Works, Inv, TypeOK, ChargedIsPaid, Holds, UndoneIsUncredited, Exclusive
<1>2. /\ works' \in [Workers -> Work]
      /\ works'[w].at = "balance" /\ works'[w].order = On(w)
      /\ \A v \in Workers \ {w} : works'[v] = works[v]
  BY <1>1, Moved DEF Inv, TypeOK, Steps
<1>3. credited'[On(w)] = 1 /\ \A o \in Orders \ {On(w)} : credited'[o] = credited[o]
  BY <1>1 DEF Inv, TypeOK
<1>4. credited' \in [Orders -> Nat]
  BY <1>1 DEF Inv, TypeOK
<1>5. TypeOK'
  BY <1>1, <1>2, <1>4 DEF Inv, TypeOK, On
<1>6. Exclusive' /\ ChargedIsPaid'
  BY <1>1, <1>2 DEF Inv, Exclusive, ChargedIsPaid, Holds, On
<1>7. UndoneIsUncredited'
  <2> SUFFICES ASSUME NEW v \in Workers,
                      works'[v].at = "add" \/ (works'[v].at = "rollback" /\ works'[v].live)
               PROVE  credited'[works'[v].order] = 0
    BY DEF UndoneIsUncredited, On
  <2>1. v # w /\ works'[v] = works[v] /\ Holds(v)
    BY <1>2 DEF Holds
  <2>2. On(v) \in Orders /\ On(v) # On(w)
    BY <1>1, <2>1 DEF Inv, TypeOK, Exclusive, Holds
  <2>3. credited[On(v)] = 0
    BY <2>1 DEF Inv, UndoneIsUncredited
  <2> QED BY <1>3, <2>1, <2>2, <2>3 DEF On
<1>8. CreditedIsClaimed'
  BY <1>1, <1>3 DEF Inv, CreditedIsClaimed
<1> QED BY <1>5, <1>6, <1>7, <1>8 DEF Inv

LEMMA RollbackStep ==
  ASSUME Inv, NEW w \in Workers, RollbackClaim(w)
  PROVE  Inv'
<1>1. /\ On(w) \in Orders /\ On(w) \in paid /\ Holds(w) /\ credited[On(w)] = 0
      /\ UNCHANGED <<world, channel, paid, acked, credited, faults>>
      /\ status' = [status EXCEPT ![On(w)] = "pending"] /\ At(w, "fail")
  BY DEF RollbackClaim, Works, Inv, TypeOK, ChargedIsPaid, Holds, UndoneIsUncredited
<1>2. /\ works' \in [Workers -> Work]
      /\ works'[w].at = "fail" /\ works'[w].order = On(w)
      /\ \A v \in Workers \ {w} : works'[v] = works[v]
  BY <1>1, Moved DEF Inv, TypeOK, Steps
<1>3. \A o \in Orders \ {On(w)} : status'[o] = status[o]
  BY <1>1 DEF Inv, TypeOK
<1>4. TypeOK'
  BY <1>1, <1>2 DEF Inv, TypeOK, On
<1>5. \A v \in Workers \ {w} : Holds(v) => On(v) \in Orders /\ On(v) # On(w)
  BY <1>1 DEF Inv, TypeOK, Exclusive, Holds
<1>6. Exclusive'
  BY <1>2, <1>3, <1>5 DEF Inv, Exclusive, Holds, On
<1>7. UndoneIsUncredited' /\ ChargedIsPaid'
  BY <1>1, <1>2 DEF Inv, UndoneIsUncredited, ChargedIsPaid, On
<1>8. CreditedIsClaimed'
  BY <1>1, <1>3 DEF Inv, CreditedIsClaimed
<1> QED BY <1>4, <1>6, <1>7, <1>8 DEF Inv

LEMMA AcknowledgeStep ==
  ASSUME Inv, NEW w \in Workers, Acknowledge(w) \/ Reply(w)
  PROVE  Inv'
<1>1. works' = [works EXCEPT ![w] = Idle] /\ UNCHANGED <<world, status, channel, paid, credited, faults>>
  BY DEF Acknowledge, Reply
<1>2. /\ works' \in [Workers -> Work] /\ works'[w].at = "idle"
      /\ \A v \in Workers \ {w} : works'[v] = works[v]
  BY <1>1, IdleIsWork, Replaced DEF Inv, TypeOK
<1>3. acked' \subseteq paid
  BY DEF Acknowledge, Reply, Inv, TypeOK, ChargedIsPaid
<1> QED BY <1>1, <1>2, <1>3, Released DEF Inv, TypeOK

LEMMA CutStep ==
  ASSUME Inv, NEW w \in Workers, Cut(w)
  PROVE  Inv'
<1> DEFINE x == [works[w] EXCEPT !.live = FALSE]
<1>1. x \in Work /\ x.at = works[w].at /\ x.order = works[w].order /\ ~x.live
  BY DEF Inv, TypeOK, Work
<1>2. works' = [works EXCEPT ![w] = x]
  BY DEF Cut
<1>3. /\ works' \in [Workers -> Work] /\ works'[w] = x
      /\ \A v \in Workers \ {w} : works'[v] = works[v]
  BY <1>1, <1>2, Replaced DEF Inv, TypeOK
<1> QED BY <1>1, <1>3, Released DEF Cut, Inv, TypeOK

LEMMA CrashStep ==
  ASSUME Inv, Crash
  PROVE  Inv'
<1>1. works' \in [Workers -> Work] /\ \A w \in Workers : works'[w].at = "idle"
  BY IdleIsWork DEF Crash
<1>2. faults' \in 0 .. MaxFaults
  BY WorldsAssumption DEF Crash, Breaks, Inv, TypeOK
<1> QED BY <1>1, <1>2, Released DEF Crash, Inv, TypeOK

LEMMA ChargeStep ==
  ASSUME Inv, Readable, NEW w \in Workers, Charge(w)
  PROVE  Inv'
<1>1. faults \in 0 .. MaxFaults /\ TypeOK
  BY DEF Inv, TypeOK
<1>2. CASE ClaimFails(w)
  BY <1>1, <1>2, Advanced DEF ClaimFails, CutOff
<1>3. CASE AddCreditsFails(w)
  <2>1. credited[On(w)] = 0 /\ Holds(w) /\ faults' \in 0 .. MaxFaults
    BY <1>1, <1>3, FailsFaults DEF AddCreditsFails, Inv, UndoneIsUncredited, Holds
  <2> QED BY <1>3, <2>1, Advanced DEF AddCreditsFails
<1>4. CASE GetCredits(w)
  BY <1>1, <1>4, Advanced DEF GetCredits, Works
<1>5. CASE GetCreditsFails(w)
  <2>1. ~works[w].live /\ Holds(w) /\ faults' = faults
    BY <1>1, <1>5 DEF GetCreditsFails, Fails, CutOff, Breaks, Readable, TypeOK, Holds
  <2> QED BY <1>1, <1>5, <2>1, Advanced DEF GetCreditsFails
<1>6. CASE RollbackClaimFails(w)
  BY <1>1, <1>6, FailsFaults, Advanced DEF RollbackClaimFails
<1> QED BY <1>2, <1>3, <1>4, <1>5, <1>6, ClaimStep, AddCreditsStep, RollbackStep, AcknowledgeStep
        DEF Charge

LEMMA StepKeepsInv == Inv /\ Readable /\ [Next]_server => Inv'
<1> SUFFICES ASSUME Inv, Readable, [Next]_server PROVE Inv'
  OBVIOUS
<1>1. CASE Shop
  BY <1>1, ShopStep DEF Shop
<1>2. CASE Disturb
  BY <1>2, CutStep, CrashStep DEF Disturb
<1>3. ASSUME NEW w \in Workers, Charge(w) \/ Reply(w) PROVE Inv'
  BY <1>3, ChargeStep, AcknowledgeStep
<1>4. ASSUME NEW w \in Workers, NEW o \in Orders, HandleNotify(w, o) \/ GetOrder(w, o) PROVE Inv'
  BY <1>4, RequestStep
<1>5. CASE UNCHANGED server
  BY <1>5 DEF server, Inv, TypeOK, Exclusive, UndoneIsUncredited, CreditedIsClaimed,
              ChargedIsPaid, Holds, On
<1> QED BY <1>1, <1>2, <1>3, <1>4, <1>5 DEF Next

LEMMA InitInv == Init => Inv
BY IdleIsWork, WorldsAssumption
DEF Init, Inv, TypeOK, Exclusive, UndoneIsUncredited, CreditedIsClaimed, ChargedIsPaid, Holds,
    Idle

LEMMA InvCredits == Inv => CreditedOnce
BY DEF Inv, TypeOK, CreditedIsClaimed, CreditedOnce
-----------------------------------------------------------------------------
\* claimPaidOrder lets one request in, and only a request that has not added
\* the points may undo the claim: so the points of an order are added once, for
\* any number of orders, requests and repetitions, wherever a request is cut
\* off or the server dies.
THEOREM PointsAddedOnce ==
  ASSUME Readable
  PROVE  Spec => []CreditedOnce
<1>1. Inv /\ [Next]_server => Inv'
  BY StepKeepsInv
<1> QED BY <1>1, InitInv, InvCredits, PTL DEF Spec

-----------------------------------------------------------------------------
(* The points mall on top of the server *)

\* What the page buys and asks after are orders.
PageTyped == paying \in Orders \cup {None} /\ timer \in Orders \cup {None}

MallInv == Inv /\ PageTyped
-----------------------------------------------------------------------------
LEMMA ServerStep ==
  ASSUME Inv, PageTyped, Mall \/ Elsewhere
  PROVE  [Next]_server \/ LeavePage
<1>1. CASE OrderMade
  <2>1. paying \in Orders /\ \E c \in world.channels : CreateOrder(paying, c)
    BY <1>1 DEF OrderMade, PageTyped
  <2>2. world.channels \subseteq {"alipay", "wechat"}
    BY WorldsAssumption DEF Inv, TypeOK
  <2> QED BY <2>1, <2>2 DEF Next, Shop
<1>2. CASE OrderRefused
  BY <1>2 DEF OrderRefused, PageTyped, Next, Shop
<1>3. ASSUME NEW w \in Workers, Tick(w) \/ PollAnswered(w) PROVE [Next]_server
  BY <1>3 DEF Tick, PollAnswered, PageTyped, Next
<1>4. CASE FocusSync \/ BalanceRead \/ BalanceShown \/ CloseMall \/ OpenMall
           \/ \E o \in Orders : HandleBuy(o)
  BY <1>4 DEF FocusSync, BalanceRead, BalanceShown, CloseMall, OpenMall, HandleBuy
<1>5. CASE Elsewhere
  BY <1>5 DEF Elsewhere, Next, Shop, Disturb
<1> QED BY <1>1, <1>2, <1>3, <1>4, <1>5 DEF Mall

LEMMA LeaveStep ==
  ASSUME Inv, LeavePage
  PROVE  Inv'
<1>1. works' \in [Workers -> Work]
  BY DEF LeavePage, Inv, TypeOK, Work
<1>2. \A w \in Workers : /\ works'[w].at = works[w].at /\ works'[w].order = works[w].order
                         /\ works'[w].live => works[w].live
  BY DEF LeavePage, Inv, TypeOK, Work
<1> QED BY <1>1, <1>2, Released DEF LeavePage, Inv, TypeOK

LEMMA PageStep == PageTyped /\ [Mall \/ Elsewhere]_all => PageTyped'
<1> SUFFICES ASSUME PageTyped, [Mall \/ Elsewhere]_all PROVE PageTyped'
  OBVIOUS
<1>1. CASE OrderMade \/ OrderRefused \/ LeavePage \/ CloseMall \/ OpenMall
  BY <1>1 DEF OrderMade, OrderRefused, LeavePage, CloseMall, OpenMall, PageTyped
<1>2. CASE FocusSync \/ BalanceRead \/ BalanceShown
  BY <1>2 DEF FocusSync, BalanceRead, BalanceShown, PageTyped
<1>3. ASSUME NEW o \in Orders, HandleBuy(o) PROVE PageTyped'
  BY <1>3 DEF HandleBuy, PageTyped
<1>4. ASSUME NEW w \in Workers, Tick(w) \/ PollAnswered(w) PROVE PageTyped'
  BY <1>4 DEF Tick, PollAnswered, OrderPaid, OrderUnpaid, PageTyped
<1>5. CASE Elsewhere \/ UNCHANGED all
  BY <1>5 DEF Elsewhere, all, client, PageTyped
<1> QED BY <1>1, <1>2, <1>3, <1>4, <1>5 DEF Mall

\* Nothing the page does, and no moment at which it is left, makes the server
\* add the points of an order again (PointsMallModal.tsx over payment_shared.go).
THEOREM MallAddsOnce ==
  ASSUME Readable
  PROVE  MallSpec => []CreditedOnce
<1>1. MallInit => MallInv
  BY InitInv DEF MallInit, MallInv, PageTyped
<1>2. MallInv /\ [Mall \/ Elsewhere]_all => MallInv'
  <2> SUFFICES ASSUME MallInv, [Mall \/ Elsewhere]_all PROVE MallInv'
    OBVIOUS
  <2>1. [Next]_server \/ LeavePage
    BY ServerStep DEF MallInv, all
  <2> QED BY <2>1, StepKeepsInv, LeaveStep, PageStep DEF MallInv
<1>3. MallInv => CreditedOnce
  BY InvCredits DEF MallInv
<1> QED BY <1>1, <1>2, <1>3, PTL DEF MallSpec
-----------------------------------------------------------------------------
(* What was acknowledged was credited *)

\* The worlds without the holes of the protocol: nothing undone is left, no
\* request of WeChat Pay is cut off, and if adding may fail, the notifications
\* of Alipay come one after the other.
Smooth(v) ==
  /\ v.faults \cap {"balance", "rollback", "crash"} = {}
  /\ "wechat" \in v.channels => v.faults \cap {"add", "gone", "late"} = {}
  /\ "add" \in v.faults => "resend" \notin v.faults
AllSmooth == \A v \in Worlds : Smooth(v)

Firm == "add" \notin world.faults
Claims(w) == works[w].at \notin {"idle", "answer"}
\* The points are there, or on their way with nothing that could stop them.
Sure(o) == credited[o] >= 1 \/ (Firm /\ \E w \in Workers : works[w].at = "add" /\ On(w) = o)

Uncut ==
  \A w \in Workers : Claims(w) =>
    works[w].live /\ (works[w].via = "notify" \/ "wechat" \in world.channels)
Alipays == "wechat" \notin world.channels => \A o \in Orders : channel[o] = "alipay"
Payable == \A o \in paid : status[o] \in {"pending", "paid"}
\* A claim stands for credits, or is in somebody's hands.
ClaimIsHeld ==
  \A o \in Orders : status[o] = "paid" =>
    credited[o] >= 1 \/ \E w \in Workers : Holds(w) /\ On(w) = o
AddedFirst == \A w \in Workers : works[w].at = "balance" => credited[On(w)] >= 1
NeverUndone == Firm => \A w \in Workers : works[w].at # "rollback"
Solo == Firm \/ \A w, v \in Workers : Claims(w) /\ Claims(v) /\ On(w) = On(v) => w = v
AckIsSure ==
  /\ \A o \in acked : Sure(o)
  /\ \A w \in Workers : works[w].at = "ack" => Sure(On(w))

Honest ==
  /\ Uncut /\ Alipays /\ Payable /\ ClaimIsHeld /\ AddedFirst /\ NeverUndone /\ Solo /\ AckIsSure

LEMMA SmoothFacts ==
  ASSUME TypeOK, AllSmooth
  PROVE  /\ "balance" \notin world.faults /\ "rollback" \notin world.faults
         /\ "crash" \notin world.faults
         /\ "wechat" \in world.channels => Firm
         /\ "wechat" \in world.channels => "gone" \notin world.faults /\ "late" \notin world.faults
         /\ ~Firm => "resend" \notin world.faults
         /\ world.channels \subseteq {"alipay", "wechat"}
<1>1. world \in Worlds /\ Smooth(world)
  BY DEF TypeOK, AllSmooth
<1> QED
  BY <1>1, WorldsAssumption DEF Smooth, Firm

\* What a step of one worker leaves of the others.
Alone(w) == \A v \in Workers \ {w} : works'[v] = works[v]

\* Points that are sure stay so when no worker leaves "add" but for credits.
LEMMA SureStays ==
  ASSUME TypeOK, UNCHANGED world, \A o \in Orders : credited'[o] >= credited[o],
         credited' \in [Orders -> Nat],
         \A w \in Workers : works[w].at = "add" /\ Firm =>
           \/ works'[w].at = "add" /\ works'[w].order = On(w)
           \/ credited'[On(w)] >= 1,
         NEW o \in Orders, Sure(o)
  PROVE  Sure(o)'
<1>1. CASE credited[o] >= 1
  <2>1. credited[o] \in Nat /\ credited'[o] \in Nat
    BY DEF TypeOK
  <2> QED
    BY <1>1, <2>1 DEF Sure
<1>2. ASSUME NEW w \in Workers, Firm, works[w].at = "add", On(w) = o
      PROVE  Sure(o)'
  <2>1. Firm'
    BY <1>2 DEF Firm
  <2>2. \/ works'[w].at = "add" /\ works'[w].order = o
        \/ credited'[o] >= 1
    BY <1>2
  <2> QED
    BY <2>1, <2>2 DEF Sure, On
<1> QED
  BY <1>1, <1>2 DEF Sure

LEMMA HonestShop ==
  ASSUME TypeOK, Honest, AllSmooth, NEW o \in Orders,
         CreateRefused(o) \/ Pay(o) \/ \E c \in {"alipay", "wechat"} : CreateOrder(o, c)
  PROVE  Honest'
<1>1. UNCHANGED <<world, acked, credited, works, faults>>
  BY DEF CreateRefused, Pay, CreateOrder
<1>2. Uncut' /\ AddedFirst' /\ NeverUndone' /\ Solo' /\ AckIsSure'
  BY <1>1 DEF Honest, Uncut, AddedFirst, NeverUndone, Solo, AckIsSure, Claims, Sure, Firm, On
<1>3. Alipays'
  <2>1. CASE CreateRefused(o)
    BY <1>1, <2>1 DEF CreateRefused, Alipays
  <2>2. CASE Pay(o)
    BY <1>1, <2>2 DEF Pay, Honest, Alipays
  <2>3. ASSUME NEW c \in {"alipay", "wechat"}, CreateOrder(o, c)
        PROVE  Alipays'
    BY <1>1, <2>3 DEF CreateOrder, Honest, Alipays, TypeOK
  <2> QED
    BY <2>1, <2>2, <2>3
<1>4. Payable'
  <2>1. paid \subseteq Orders /\ (o \in paid => status[o] \in {"pending", "paid"})
    BY DEF TypeOK, Honest, Payable
  <2>2. CASE Pay(o)
    BY <2>1, <2>2 DEF Pay, Honest, Payable
  <2>3. CASE ~Pay(o)
    <3>1. o \notin paid /\ UNCHANGED paid /\ \A p \in Orders \ {o} : status'[p] = status[p]
      BY <2>1, <2>3 DEF CreateRefused, CreateOrder, TypeOK
    <3> QED
      BY <2>1, <3>1 DEF Honest, Payable
  <2> QED
    BY <2>2, <2>3
<1>5. ClaimIsHeld'
  <2>1. \A p \in Orders : status'[p] = "paid" => status[p] = "paid"
    BY DEF CreateRefused, Pay, CreateOrder, TypeOK
  <2> QED
    BY <1>1, <2>1 DEF Honest, ClaimIsHeld, Holds, On
<1> QED
  BY <1>2, <1>3, <1>4, <1>5 DEF Honest

LEMMA HonestRequest ==
  ASSUME TypeOK, Honest, AllSmooth, NEW w \in Workers, NEW o \in Orders,
         HandleNotify(w, o) \/ GetOrder(w, o)
  PROVE  Honest'
<1>1. PICK via \in {"notify", "poll"}, step \in {"claim", "answer"} :
        /\ Start(w, o, via, step)
        /\ step = "claim" => /\ via = "notify" \/ "wechat" \in world.channels
                             /\ Firm \/ ~Busy(o)
  <2>1. CASE HandleNotify(w, o)
    <3>1. Firm \/ ~Busy(o)
      BY <2>1, SmoothFacts DEF HandleNotify
    <3> QED
      BY <2>1, <3>1 DEF HandleNotify
  <2>2. CASE GetOrder(w, o) /\ Start(w, o, "poll", "answer")
    BY <2>2
  <2>3. CASE GetOrder(w, o) /\ channel[o] = "wechat" /\ Start(w, o, "poll", "claim")
    <3>1. "wechat" \in world.channels /\ Firm
      BY <2>3, SmoothFacts DEF Honest, Alipays
    <3> QED
      BY <2>3, <3>1
  <2> QED
    BY <2>1, <2>2, <2>3 DEF GetOrder
<1> DEFINE x == [at |-> step, order |-> o, via |-> via, live |-> TRUE]
<1>2. x \in Work
  BY DEF Work, Steps
<1>3. works[w].at = "idle" /\ works'[w] = x /\ Alone(w)
  BY <1>1, <1>2, Replaced DEF Start, TypeOK, Alone
<1>4. UNCHANGED <<world, status, channel, paid, acked, credited, faults>>
  BY <1>1 DEF Start
<1>5. x.at = step /\ x.order = o /\ x.via = via /\ x.live
  OBVIOUS
<1> HIDE DEF x
<1>6. Uncut'
  BY <1>1, <1>3, <1>4, <1>5 DEF Honest, Uncut, Claims, Alone
<1>7. Alipays' /\ Payable'
  BY <1>4 DEF Honest, Alipays, Payable
<1>8. ClaimIsHeld'
  BY <1>3, <1>4 DEF Honest, ClaimIsHeld, Holds, On, Alone
<1>9. AddedFirst' /\ NeverUndone'
  BY <1>1, <1>3, <1>4, <1>5 DEF Honest, AddedFirst, NeverUndone, Firm, On, Alone
<1>10. Solo'
  <2> SUFFICES ASSUME ~Firm', NEW u \in Workers, NEW v \in Workers, Claims(u)', Claims(v)',
                      On(u)' = On(v)', u # v
               PROVE  FALSE
    BY DEF Solo
  <2>1. ~Firm
    BY <1>4 DEF Firm
  <2>2. CASE u = w
    BY <1>1, <1>3, <1>5, <2>1, <2>2 DEF Claims, On, Busy, Alone
  <2>3. CASE v = w
    BY <1>1, <1>3, <1>5, <2>1, <2>3 DEF Claims, On, Busy, Alone
  <2>4. CASE u # w /\ v # w
    BY <1>3, <2>1, <2>4 DEF Claims, On, Alone, Honest, Solo
  <2> QED
    BY <2>2, <2>3, <2>4
<1>11. AckIsSure'
  <2>1. \A p \in Orders : Sure(p) => Sure(p)'
    BY <1>3, <1>4 DEF Sure, Firm, On, Alone
  <2>2. acked \subseteq Orders
    BY DEF TypeOK
  <2>3. \A v \in Workers : works'[v].at = "ack" =>
          works[v].at = "ack" /\ works'[v].order = On(v) /\ On(v) \in Orders
    BY <1>1, <1>3, <1>5 DEF On, Alone, TypeOK
  <2> QED
    BY <1>4, <2>1, <2>2, <2>3 DEF Honest, AckIsSure, On
<1> QED
  BY <1>6, <1>7, <1>8, <1>9, <1>10, <1>11 DEF Honest

\* A worker goes on inside chargeOrder: what it must show for itself.
LEMMA HonestOnward ==
  ASSUME TypeOK, TypeOK', Honest, NEW w \in Workers, Claims(w), NEW step \in Steps \ {"idle", "answer"},
         At(w, step), UNCHANGED <<world, channel, paid, acked>>,
         \A o \in Orders : credited'[o] >= credited[o],
         works[w].at = "add" /\ Firm => credited'[On(w)] >= 1,
         \A o \in Orders \ {On(w)} : status'[o] = status[o],
         On(w) \in paid => status'[On(w)] \in {"pending", "paid"},
         status'[On(w)] = "paid" =>
           \/ credited'[On(w)] >= 1 \/ step \in {"add", "balance", "rollback"}
           \/ ~Holds(w) /\ UNCHANGED status,
         step = "balance" => credited'[On(w)] >= 1,
         step = "rollback" => ~Firm,
         step = "ack" => credited'[On(w)] >= 1 \/ Sure(On(w))
  PROVE  Honest'
<1>1. step \in Steps
  OBVIOUS
<1>2. /\ works'[w].at = step /\ works'[w].order = On(w)
      /\ works'[w].via = works[w].via /\ works'[w].live = works[w].live
      /\ Alone(w)
  BY <1>1, Moved DEF TypeOK, Alone
<1>3. credited \in [Orders -> Nat] /\ credited' \in [Orders -> Nat] /\ On(w) \in Orders
  BY DEF TypeOK, Claims
<1>4. Firm' <=> Firm
  BY DEF Firm
<1>5. Uncut'
  BY <1>2 DEF Honest, Uncut, Claims, Alone
<1>6. Alipays'
  BY DEF Honest, Alipays
<1>7. Payable'
  BY DEF Honest, Payable, TypeOK
<1>8. ClaimIsHeld'
  <2> SUFFICES ASSUME NEW o \in Orders, status'[o] = "paid", ~(credited'[o] >= 1)
               PROVE  \E v \in Workers : Holds(v)' /\ On(v)' = o
    BY DEF ClaimIsHeld
  <2>1. ~(credited[o] >= 1)
    BY <1>3
  <2>2. CASE status[o] = "paid" /\ (o = On(w) => ~Holds(w))
    <3>1. PICK v \in Workers : Holds(v) /\ On(v) = o
      BY <2>1, <2>2 DEF Honest, ClaimIsHeld
    <3>2. v # w
      BY <2>2, <3>1
    <3> QED
      BY <1>2, <3>1, <3>2 DEF Holds, On, Alone
  <2>3. CASE o = On(w) /\ step \in {"add", "balance", "rollback"}
    BY <1>2, <2>3 DEF Holds, On
  <2> QED
    BY <2>2, <2>3
<1>9. AddedFirst'
  <2> SUFFICES ASSUME NEW v \in Workers, works'[v].at = "balance"
               PROVE  credited'[works'[v].order] >= 1
    BY DEF AddedFirst, On
  <2>1. CASE v = w
    BY <1>2, <2>1
  <2>2. CASE v # w
    <3>1. works[v].at = "balance" /\ works'[v].order = On(v) /\ On(v) \in Orders
      BY <1>2, <2>2 DEF Alone, On, TypeOK
    <3>2. credited[On(v)] >= 1 /\ credited'[On(v)] >= credited[On(v)]
      BY <3>1 DEF Honest, AddedFirst
    <3> QED
      BY <1>3, <3>1, <3>2
  <2> QED
    BY <2>1, <2>2
<1>10. NeverUndone'
  BY <1>2, <1>4 DEF Honest, NeverUndone, Alone
<1>11. Solo'
  <2>1. \A v \in Workers : Claims(v)' => Claims(v) /\ On(v)' = On(v)
    BY <1>2 DEF Claims, On, Alone
  <2> QED
    BY <1>4, <2>1 DEF Honest, Solo
<1>12. AckIsSure'
  <2>1. \A v \in Workers : works[v].at = "add" /\ Firm =>
          \/ works'[v].at = "add" /\ works'[v].order = On(v)
          \/ credited'[On(v)] >= 1
    BY <1>2 DEF Alone, On
  <2>2. \A o \in Orders : Sure(o) => Sure(o)'
    BY <1>3, <2>1, SureStays
  <2>3. \A o \in Orders : credited'[o] >= 1 => Sure(o)'
    BY DEF Sure
  <2>4. \A o \in acked' : Sure(o)'
    BY <2>2 DEF Honest, AckIsSure, TypeOK
  <2>5. ASSUME NEW v \in Workers, works'[v].at = "ack"
        PROVE  \E o \in Orders : works'[v].order = o /\ Sure(o)'
    <3>1. CASE v = w
      <4>1. step = "ack" /\ works'[v].order = On(w)
        BY <1>2, <2>5, <3>1
      <4>2. Sure(On(w)) \/ credited'[On(w)] >= 1
        BY <4>1
      <4> QED
        BY <1>3, <2>2, <2>3, <4>1, <4>2
    <3>2. CASE v # w
      <4>1. works[v].at = "ack" /\ works'[v].order = On(v) /\ On(v) \in Orders
        BY <1>2, <2>5, <3>2 DEF Alone, On, TypeOK
      <4>2. Sure(On(v))
        BY <4>1 DEF Honest, AckIsSure
      <4> QED
        BY <2>2, <4>1, <4>2
    <3> QED
      BY <3>1, <3>2
  <2> QED
    BY <2>4, <2>5 DEF AckIsSure, Sure, On
<1> QED
  BY <1>5, <1>6, <1>7, <1>8, <1>9, <1>10, <1>11, <1>12 DEF Honest

LEMMA HonestCharge ==
  ASSUME Inv, TypeOK', Honest, AllSmooth, NEW w \in Workers, Charge(w) \/ Reply(w)
  PROVE  Honest'
<1>0. /\ TypeOK /\ credited \in [Orders -> Nat]
      /\ Claims(w) => works[w].live /\ On(w) \in Orders /\ On(w) \in paid
  BY DEF Inv, TypeOK, ChargedIsPaid, Claims, Honest, Uncut
<1>1. CASE Claim(w)
  <2>1. Claims(w) /\ ~Holds(w) /\ works[w].at # "add"
        /\ UNCHANGED <<world, channel, paid, acked, credited>>
    BY <1>1 DEF Claim, Claims, Holds
  <2>2. status[On(w)] \in {"pending", "paid"}
    BY <1>0, <2>1 DEF Honest, Payable
  <2>3. CASE status[On(w)] = "pending"
    <3>1. At(w, "add") /\ status' = [status EXCEPT ![On(w)] = "paid"]
      BY <1>1, <2>3 DEF Claim
    <3>2. status'[On(w)] = "paid" /\ \A o \in Orders \ {On(w)} : status'[o] = status[o]
      BY <1>0, <2>1, <3>1 DEF TypeOK
    <3>3. "add" \in Steps \ {"idle", "answer"}
      BY DEF Steps
    <3> QED
      BY <1>0, <2>1, <3>1, <3>2, <3>3, HonestOnward
  <2>4. CASE status[On(w)] = "paid"
    <3>1. At(w, "ack") /\ UNCHANGED status
      BY <1>1, <2>4 DEF Claim
    <3>2. Sure(On(w))
      <4>1. CASE credited[On(w)] >= 1
        BY <4>1 DEF Sure
      <4>2. ASSUME NEW v \in Workers, Holds(v), On(v) = On(w)
            PROVE  Sure(On(w))
        <5>1. CASE Firm
          <6>1. works[v].at \in {"add", "balance"}
            BY <4>2, <5>1 DEF Holds, Honest, NeverUndone
          <6> QED
            BY <4>2, <5>1, <6>1 DEF Sure, Honest, AddedFirst
        <5>2. CASE ~Firm
          <6>1. v = w
            BY <2>1, <4>2, <5>2 DEF Honest, Solo, Claims, Holds
          <6> QED
            BY <2>1, <4>2, <6>1
        <5> QED
          BY <5>1, <5>2
      <4> QED
        BY <1>0, <2>1, <2>4, <4>1, <4>2 DEF Honest, ClaimIsHeld
    <3>3. "ack" \in Steps \ {"idle", "answer"}
      BY DEF Steps
    <3> QED
      BY <1>0, <2>1, <2>2, <3>1, <3>2, <3>3, HonestOnward
  <2> QED
    BY <2>2, <2>3, <2>4
<1>2. CASE ClaimFails(w)
  BY <1>0, <1>2 DEF ClaimFails, CutOff, Claims
<1>3. CASE AddCredits(w)
  <2>1. Claims(w) /\ At(w, "balance") /\ UNCHANGED <<world, status, channel, paid, acked>>
    BY <1>3 DEF AddCredits, Claims
  <2>2. /\ credited'[On(w)] = credited[On(w)] + 1
        /\ \A o \in Orders \ {On(w)} : credited'[o] = credited[o]
    BY <1>0, <1>3, <2>1 DEF AddCredits
  <2>3. credited'[On(w)] >= 1 /\ \A o \in Orders : credited'[o] >= credited[o]
    <3>1. credited[On(w)] \in Nat /\ \A o \in Orders : credited[o] \in Nat
      BY <1>0, <2>1
    <3> QED
      BY <2>2, <3>1
  <2>4. On(w) \in paid => status'[On(w)] \in {"pending", "paid"}
    BY <2>1 DEF Honest, Payable
  <2>5. "balance" \in Steps \ {"idle", "answer"}
    BY DEF Steps
  <2> QED
    BY <1>0, <2>1, <2>3, <2>4, <2>5, HonestOnward
<1>4. CASE AddCreditsFails(w)
  <2>1. Claims(w) /\ At(w, "rollback") /\ UNCHANGED <<world, status, channel, paid, acked, credited>>
    BY <1>4 DEF AddCreditsFails, Claims
  <2>2. ~Firm
    BY <1>0, <1>4, <2>1 DEF AddCreditsFails, Fails, CutOff, Breaks, Firm
  <2>3. On(w) \in paid => status'[On(w)] \in {"pending", "paid"}
    BY <2>1 DEF Honest, Payable
  <2>4. "rollback" \in Steps \ {"idle", "answer"} /\ \A o \in Orders : credited'[o] >= credited[o]
    BY <1>0, <2>1 DEF Steps
  <2> QED
    BY <1>0, <2>1, <2>2, <2>3, <2>4, HonestOnward
<1>5. CASE GetCredits(w)
  <2>1. Claims(w) /\ At(w, "ack") /\ UNCHANGED <<world, status, channel, paid, acked, credited>>
        /\ works[w].at = "balance"
    BY <1>5 DEF GetCredits, Claims
  <2>2. credited'[On(w)] >= 1
    BY <2>1 DEF Honest, AddedFirst
  <2>3. On(w) \in paid => status'[On(w)] \in {"pending", "paid"}
    BY <2>1 DEF Honest, Payable
  <2>4. "ack" \in Steps \ {"idle", "answer"} /\ \A o \in Orders : credited'[o] >= credited[o]
    BY <1>0, <2>1 DEF Steps
  <2> QED
    BY <1>0, <2>1, <2>2, <2>3, <2>4, HonestOnward
<1>6. CASE GetCreditsFails(w) \/ RollbackClaimFails(w)
  BY <1>0, <1>6, SmoothFacts DEF GetCreditsFails, RollbackClaimFails, Fails, CutOff, Breaks, Claims
<1>7. CASE RollbackClaim(w)
  <2>1. Claims(w) /\ At(w, "fail") /\ UNCHANGED <<world, channel, paid, acked, credited>>
        /\ works[w].at = "rollback" /\ status' = [status EXCEPT ![On(w)] = "pending"]
    BY <1>7 DEF RollbackClaim, Claims
  <2>2. status'[On(w)] = "pending" /\ \A o \in Orders \ {On(w)} : status'[o] = status[o]
    BY <1>0, <2>1 DEF TypeOK
  <2>3. "fail" \in Steps \ {"idle", "answer"} /\ \A o \in Orders : credited'[o] >= credited[o]
    BY <1>0, <2>1 DEF Steps
  <2> QED
    BY <1>0, <2>1, <2>2, <2>3, HonestOnward
<1>8. CASE Acknowledge(w) \/ Reply(w)
  <2>1. /\ works' = [works EXCEPT ![w] = Idle]
        /\ UNCHANGED <<world, status, channel, paid, credited, faults>>
        /\ works[w].at \in {"ack", "fail", "answer"}
    BY <1>8 DEF Acknowledge, Reply, Replied
  <2>2. works'[w].at = "idle" /\ Alone(w)
    BY <1>0, <2>1, IdleIsWork, Replaced DEF TypeOK, Alone
  <2>3. acked' \subseteq Orders /\ \A o \in acked' : Sure(o)
    <3>1. CASE acked' = acked
      BY <1>0, <3>1 DEF TypeOK, Honest, AckIsSure
    <3>2. CASE acked' = acked \cup {On(w)} /\ works[w].at = "ack"
      BY <1>0, <3>2 DEF TypeOK, Honest, AckIsSure
    <3> QED
      BY <1>8, <3>1, <3>2 DEF Acknowledge, Reply
  <2>4. Firm' <=> Firm
    BY <2>1 DEF Firm
  <2>5. \A o \in Orders : Sure(o) => Sure(o)'
    BY <2>1, <2>2, <2>4 DEF Sure, On, Alone
  <2>6. Uncut' /\ Alipays' /\ Payable'
    BY <2>1, <2>2 DEF Honest, Uncut, Alipays, Payable, Claims, Alone
  <2>7. ClaimIsHeld'
    BY <2>1, <2>2 DEF Honest, ClaimIsHeld, Holds, On, Alone
  <2>8. AddedFirst' /\ NeverUndone' /\ Solo'
    BY <2>1, <2>2, <2>4 DEF Honest, AddedFirst, NeverUndone, Solo, Claims, On, Alone
  <2>9. AckIsSure'
    <3>1. \A v \in Workers : works'[v].at = "ack" =>
            works[v].at = "ack" /\ works'[v].order = On(v) /\ On(v) \in Orders
      BY <1>0, <2>2 DEF On, Alone, TypeOK
    <3> QED
      BY <2>3, <2>5, <3>1 DEF Honest, AckIsSure, On
  <2> QED
    BY <2>6, <2>7, <2>8, <2>9 DEF Honest
<1> QED
  BY <1>1, <1>2, <1>3, <1>4, <1>5, <1>6, <1>7, <1>8 DEF Charge

\* Cutting requests off reaches the mere answers to polls only.
LEMMA HonestCut ==
  ASSUME TypeOK, Honest, AllSmooth, LeavePage \/ \E w \in Workers : Cut(w)
  PROVE  Honest'
<1>1. UNCHANGED <<world, status, channel, paid, acked, credited>>
  BY DEF LeavePage, Cut
<1>2. \A w \in Workers : works'[w].at = works[w].at /\ works'[w].order = works[w].order
                         /\ works'[w].via = works[w].via
  BY DEF LeavePage, Cut, TypeOK, Work
<1>3. \A w \in Workers : Claims(w) => works'[w].live
  <2> SUFFICES ASSUME NEW w \in Workers, Claims(w) PROVE works'[w].live
    OBVIOUS
  <2>1. works[w].live /\ (works[w].via = "notify" \/ "wechat" \in world.channels) /\ On(w) \in Orders
    BY DEF Honest, Uncut, TypeOK, Claims
  <2>2. CASE LeavePage
    <3>1. works[w].via # "poll"
      BY <2>1, <2>2, SmoothFacts DEF LeavePage
    <3> QED
      BY <2>1, <2>2, <3>1 DEF LeavePage, TypeOK, Work
  <2>3. ASSUME NEW v \in Workers, Cut(v) PROVE works'[w].live
    <3>1. v # w
      <4> SUFFICES ASSUME v = w PROVE FALSE
        OBVIOUS
      <4>1. CASE works[w].via = "poll" /\ "gone" \in world.faults
        BY <2>1, <4>1, SmoothFacts
      <4>2. CASE channel[On(w)] = "wechat" /\ "late" \in world.faults
        BY <2>1, <4>2, SmoothFacts DEF Honest, Alipays
      <4> QED
        BY <2>3, <4>1, <4>2 DEF Cut
    <3> QED
      BY <2>1, <2>3, <3>1 DEF Cut, TypeOK, Work
  <2> QED
    BY <2>2, <2>3
<1>4. Uncut'
  BY <1>1, <1>2, <1>3 DEF Honest, Uncut, Claims
<1>5. Alipays' /\ Payable'
  BY <1>1 DEF Honest, Alipays, Payable
<1>6. ClaimIsHeld'
  BY <1>1, <1>2 DEF Honest, ClaimIsHeld, Holds, On
<1>7. AddedFirst' /\ NeverUndone' /\ Solo'
  BY <1>1, <1>2 DEF Honest, AddedFirst, NeverUndone, Solo, Claims, On, Firm
<1>8. AckIsSure'
  <2>1. \A o : Sure(o) => Sure(o)'
    BY <1>1, <1>2 DEF Sure, Firm, On
  <2> QED
    BY <1>1, <1>2, <2>1 DEF Honest, AckIsSure, On
<1> QED
  BY <1>4, <1>5, <1>6, <1>7, <1>8 DEF Honest

LEMMA HonestStep ==
  ASSUME Inv, Inv', Honest, AllSmooth, [Next]_server \/ LeavePage
  PROVE  Honest'
<1>0. TypeOK /\ TypeOK'
  BY DEF Inv
<1>1. CASE Shop
  BY <1>0, <1>1, HonestShop DEF Shop
<1>2. CASE Crash
  BY <1>0, <1>2, SmoothFacts DEF Crash, Breaks
<1>3. CASE LeavePage \/ \E w \in Workers : Cut(w)
  BY <1>0, <1>3, HonestCut
<1>4. ASSUME NEW w \in Workers, Charge(w) \/ Reply(w) PROVE Honest'
  BY <1>0, <1>4, HonestCharge
<1>5. ASSUME NEW w \in Workers, NEW o \in Orders, HandleNotify(w, o) \/ GetOrder(w, o)
      PROVE  Honest'
  BY <1>0, <1>5, HonestRequest
<1>6. CASE UNCHANGED server
  BY <1>6 DEF server, Honest, Uncut, Alipays, Payable, ClaimIsHeld, AddedFirst, NeverUndone,
              Solo, AckIsSure, Sure, Firm, Claims, Holds, On
<1> QED
  BY <1>1, <1>2, <1>3, <1>4, <1>5, <1>6 DEF Next, Disturb

LEMMA HonestInit == Init => Honest
BY DEF Init, Idle, Honest, Uncut, Alipays, Payable, ClaimIsHeld, AddedFirst, NeverUndone,
       Solo, AckIsSure, Claims

LEMMA SmoothIsReadable == AllSmooth => Readable
BY DEF AllSmooth, Smooth, Readable

LEMMA HonestIsCredited == TypeOK /\ Honest => AckedIsCredited
<1> SUFFICES ASSUME TypeOK, Honest, NEW o \in acked PROVE Busy(o) \/ credited[o] >= 1
  BY DEF AckedIsCredited
<1> QED
  BY DEF Honest, AckIsSure, Sure, Busy

\* Where nothing can be undone half, the provider is told "success" only when
\* the points are there or a live request is adding them: a notification that
\* finds the order claimed may rely on the claim (payment_shared.go:
\* claimPaidOrder; wechat_pay_service.go: HandleNotify).
THEOREM ServerAcksAreHonest ==
  ASSUME AllSmooth
  PROVE  Spec => []AckedIsCredited
<1>1. Init => Inv /\ Honest
  BY InitInv, HonestInit
<1>2. Inv /\ Honest /\ [Next]_server => (Inv /\ Honest)'
  BY SmoothIsReadable, StepKeepsInv, HonestStep
<1>3. Inv /\ Honest => AckedIsCredited
  BY HonestIsCredited DEF Inv
<1> QED
  BY <1>1, <1>2, <1>3, PTL DEF Spec

\* The page that polls, closes and leaves on top of it does not change that
\* (PointsMallModal.tsx).
THEOREM AcksAreHonest ==
  ASSUME AllSmooth
  PROVE  MallSpec => []AckedIsCredited
<1>1. MallInit => MallInv /\ Honest
  BY InitInv, HonestInit DEF MallInit, MallInv, PageTyped
<1>2. MallInv /\ Honest /\ [Mall \/ Elsewhere]_all => (MallInv /\ Honest)'
  <2> SUFFICES ASSUME MallInv, Honest, [Mall \/ Elsewhere]_all PROVE (MallInv /\ Honest)'
    OBVIOUS
  <2>1. [Next]_server \/ LeavePage
    BY ServerStep DEF MallInv, all
  <2>2. MallInv'
    BY <2>1, SmoothIsReadable, StepKeepsInv, LeaveStep, PageStep DEF MallInv
  <2>3. Honest'
    BY <2>1, <2>2, HonestStep DEF MallInv
  <2> QED
    BY <2>2, <2>3
<1>3. MallInv /\ Honest => AckedIsCredited
  BY HonestIsCredited DEF MallInv, Inv
<1> QED
  BY <1>1, <1>2, <1>3, PTL DEF MallSpec
=============================================================================
