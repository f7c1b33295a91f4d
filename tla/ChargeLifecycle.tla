-------------------------- MODULE ChargeLifecycle --------------------------
(***************************************************************************)
(* What the program promises about the charges of one node of one          *)
(* execution (billing/doc.go, billing/policy.go), without any of its       *)
(* machinery: a charge is taken while no other one is open, is then either *)
(* delivered or returned, and is neither twice.                            *)
(***************************************************************************)
EXTENDS Integers

CONSTANT Charges

VARIABLES
  state,   \* state[c]: what became of charge c
  balance  \* what the user's credits changed by, in charges

lifecycle == <<state, balance>>

Init ==
  /\ state = [c \in Charges |-> "none"]
  /\ balance = 0

\* The user pays; nothing else is open or delivered.
Take(c) ==
  /\ state[c] = "none"
  /\ \A d \in Charges : state[d] \in {"none", "returned"}
  /\ state' = [state EXCEPT ![c] = "open"]
  /\ balance' = balance - 1

Deliver(c) ==
  /\ state[c] = "open"
  /\ state' = [state EXCEPT ![c] = "delivered"]
  /\ UNCHANGED balance

Return(c) ==
  /\ state[c] = "open"
  /\ state' = [state EXCEPT ![c] = "returned"]
  /\ balance' = balance + 1

Next == \E c \in Charges : Take(c) \/ Deliver(c) \/ Return(c)

Spec == Init /\ [][Next]_lifecycle
=============================================================================
