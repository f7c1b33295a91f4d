------------------------------- MODULE PointsMall -------------------------------
(***************************************************************************)
(* The points mall in the browser, on top of the server of Recharge: buy,  *)
(* pay elsewhere, ask after the order every three seconds, and show the    *)
(* new balance.  From src/web/src/components/auth/PointsMallModal.tsx,     *)
(* utils/refreshCredits.ts and hooks/useCreditsSync.ts.                    *)
(***************************************************************************)
EXTENDS Recharge

CONSTANTS MaxTries, MaxSyncs   \* bounds: polls of one order; refocusings of the window

VARIABLES
  open,        \* the mall, and the page it is on
  paying,      \* payingPkgId: the order being created
  timer,       \* payTimerRef: the order asked after
  tries,
  told,        \* orders announced as paid and credited
  shown,       \* the orders whose points the balance on the page includes
  inflight,    \* refreshCredits: None, "asked" or "read"
  sees,        \* the orders the balance read includes
  syncs

client == <<open, paying, timer, tries, told, shown, inflight, sees, syncs>>
all == <<server, client>>

MallInit ==
  /\ Init /\ open = "mall" /\ paying = None /\ timer = None /\ tries = 0
  /\ told = {} /\ shown = {} /\ inflight = None /\ sees = {} /\ syncs = 0

HandleBuy(o) ==
  /\ open = "mall" /\ paying = None /\ status[o] = "none" /\ paying' = o
  /\ UNCHANGED <<server, open, timer, tries, told, shown, inflight, sees, syncs>>
\* startPolling drops the timer of the order before.
OrderMade ==
  /\ paying # None /\ open # "gone" /\ \E c \in world.channels : CreateOrder(paying, c)
  /\ paying' = None /\ timer' = paying /\ tries' = 0
  /\ UNCHANGED <<open, told, shown, inflight, sees, syncs>>
OrderRefused ==
  /\ paying # None /\ open # "gone" /\ CreateRefused(paying) /\ paying' = None
  /\ UNCHANGED <<open, timer, tries, told, shown, inflight, sees, syncs>>

Tick(w) ==
  /\ open # "gone" /\ timer # None /\ tries < MaxTries /\ tries' = tries + 1
  /\ GetOrder(w, timer)
  /\ UNCHANGED <<open, paying, timer, told, shown, inflight, sees, syncs>>
\* refreshCredits: a request under way stands for every later one.
Refreshed == inflight' = IF inflight = None THEN "asked" ELSE inflight
\* Whatever order it was about, the answer "paid" stops the timer there is.
OrderPaid(o) ==
  /\ status[o] = "paid"
  /\ timer' = None /\ told' = told \cup {o} /\ Refreshed
OrderUnpaid(o) ==
  /\ status[o] # "paid" /\ timer' = (IF tries >= MaxTries THEN None ELSE timer)
  /\ UNCHANGED <<told, inflight>>
PollAnswered(w) ==
  /\ open # "gone" /\ works[w].live /\ Reply(w)
  /\ OrderPaid(On(w)) \/ OrderUnpaid(On(w))
  /\ UNCHANGED <<open, paying, tries, shown, sees, syncs>>
\* The window gets the focus back, or a page mounts.
FocusSync ==
  /\ open # "gone" /\ syncs < MaxSyncs /\ syncs' = syncs + 1 /\ Refreshed
  /\ UNCHANGED <<server, open, paying, timer, tries, told, shown, sees>>
BalanceRead ==
  /\ inflight = "asked" /\ open # "gone" /\ inflight' = "read" /\ sees' = {o \in Orders : credited[o] > 0}
  /\ UNCHANGED <<server, open, paying, timer, tries, told, shown, syncs>>
BalanceShown ==
  /\ inflight = "read" /\ open # "gone" /\ shown' = sees /\ inflight' = None
  /\ UNCHANGED <<server, open, paying, timer, tries, told, sees, syncs>>
\* Requests on their way live on when the mall is closed.
CloseMall ==
  /\ open = "mall" /\ open' = "closed" /\ timer' = None
  /\ UNCHANGED <<server, paying, tries, told, shown, inflight, sees, syncs>>
OpenMall ==
  /\ open = "closed" /\ paying = None /\ timer = None /\ open' = "mall"
  /\ UNCHANGED <<server, paying, timer, tries, told, shown, inflight, sees, syncs>>
\* The page goes, and its requests are cut off.
LeavePage ==
  /\ "gone" \in world.faults /\ open # "gone" /\ open' = "gone" /\ timer' = None /\ paying' = None
  /\ works' = [w \in Workers |-> [works[w] EXCEPT !.live = @ /\ works[w].via # "poll"]]
  /\ UNCHANGED <<world, status, channel, paid, acked, credited, faults, tries, told, shown, inflight, sees, syncs>>

Mall ==
  \/ OrderMade \/ OrderRefused \/ FocusSync \/ BalanceRead \/ BalanceShown
  \/ CloseMall \/ OpenMall \/ LeavePage
  \/ \E o \in Orders : HandleBuy(o)
  \/ \E w \in Workers : Tick(w) \/ PollAnswered(w)
\* What goes on at the server and at the providers without the page.
Elsewhere ==
  /\ UNCHANGED client
  /\ \/ Crash \/ \E o \in Orders : Pay(o)
     \/ \E w \in Workers :
          \/ Charge(w) \/ \E o \in Orders : HandleNotify(w, o)
          \/ works[w].via = "notify" /\ Cut(w)
          \/ (open = "gone" \/ ~works[w].live) /\ Reply(w)
MallSpec == MallInit /\ [][Mall \/ Elsewhere]_all

\* What must go on: the server works and answers, the page polls and is told,
\* and what was not acknowledged is notified again.
Served(w) ==
  UNCHANGED client /\ (Charge(w) \/ ((open = "gone" \/ ~works[w].live) /\ Reply(w)))
Notified(o) == UNCHANGED client /\ \E w \in Workers : HandleNotify(w, o)
Told == BalanceRead \/ BalanceShown \/ OrderMade
MallFairness ==
  /\ \A w \in Workers : WF_all(Served(w)) /\ WF_all(PollAnswered(w)) /\ WF_all(Tick(w))
  /\ \A o \in Orders : SF_all(Notified(o))
  /\ WF_all(Told)
FairMallSpec == MallSpec /\ MallFairness

-----------------------------------------------------------------------------
\* The timer stops only for an order that was announced, or given up, or left
\* (PointsMallModal.tsx: startPolling).
TimerIsTheOrders ==
  [][ timer # None /\ timer' = None =>
        \/ timer \in told' \/ tries >= MaxTries \/ open' # "mall" ]_all
\* Once an order is announced and nothing is on its way, the balance has its points.
ToldIsShown == \A o \in told : inflight # None \/ o \in shown
-----------------------------------------------------------------------------
(* The channels and troubles TLC tries: none, credits that fail to be added,  *)
(* a page that is closed, a request that is late, notifications that overlap  *)
(* and a crash.                                                               *)

World(c, f) == [channels |-> c, faults |-> f]
MCCalm == {World({"alipay", "wechat"}, {}), World({"alipay"}, {"add", "gone"})}
MCGone == {World({"wechat"}, {"gone"})}
MCLate == {World({"wechat"}, {"late"})}
MCAgain == {World({"alipay"}, {"add", "resend"})}
MCCrash == {World({"alipay"}, {"crash"})}
MCWorlds == MCCalm \cup MCGone \cup MCLate \cup MCAgain \cup MCCrash
=============================================================================
