------------------------------ MODULE MCAdmins ------------------------------
(* The administrator's clicks in two worlds: in the storm, two runs of one    *)
(* execution overlap while calls fail and processes die; in the calm, one run *)
(* at a time follows another, dying anywhere.                                 *)
EXTENDS VideoCharge

CONSTANTS
  r1, r2, r3,
  CalmCrashAt   \* labels at which a run may die in the calm

VARIABLE weather

Twins == Permutations({r1, r2}) \cup Permutations(Clicks)

Calm == INSTANCE VideoCharge WITH Overlap <- FALSE, CrashAt <- CalmCrashAt, Faults <- {}

\* Bound: the storm takes two runs.
AdminsNext ==
  /\ weather' = weather
  /\ \/ weather = "storm" /\ Next /\ act'[r3] = NoRun
     \/ weather = "calm" /\ Calm!Next
AdminsSpec == Init /\ weather \in {"storm", "calm"} /\ [][AdminsNext]_<<vars, weather>>

\* With administrators at work too, every charge is delivered, returned or
\* waiting on a row they can refund once nothing runs (billing/policy.go).
AdminsSettle == weather = "calm" => SettledWhenQuiet
=============================================================================
