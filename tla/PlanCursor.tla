----------------------------- MODULE PlanCursor -----------------------------
(***************************************************************************)
(* What the path handler promises its caller: a plan never changes until a *)
(* new one arrives, and a cursor says how many of its poses the robot has  *)
(* passed.  The cursor moves forward only, at most MaxSearch along the     *)
(* plan at a time, and always leaves at least one pose ahead.              *)
(***************************************************************************)
EXTENDS Integers, Sequences

CONSTANTS Plans,              \* the paths a planner may deliver
          LengthTo(_, _),     \* length of a path up to its k-th pose
          MaxSearch           \* length of plan searched for the closest pose

VARIABLES plan, passed

cvars == <<plan, passed>>

Ahead == SubSeq(plan, passed + 1, Len(plan))

Init == plan = <<>> /\ passed = 0

NewPlan == plan' \in Plans /\ passed' = 0

Advance ==
  \E n \in 1 .. Len(plan) - 1 - passed :
    /\ ~ (LengthTo(Ahead, n + 1) > MaxSearch)
    /\ passed' = passed + n
    /\ UNCHANGED plan

Rewind == passed' = 0 /\ UNCHANGED plan

Next == NewPlan \/ Advance \/ Rewind

Spec == Init /\ [][Next]_cvars
=============================================================================
