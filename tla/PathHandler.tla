----------------------------- MODULE PathHandler -----------------------------
(***************************************************************************)
(* mpc::PathHandler (path_handler.cpp): keeps the global plan split into   *)
(* the part already passed and the part ahead, and at every control cycle  *)
(* cuts a local plan, in the costmap's frame, from the part ahead.         *)
(*                                                                         *)
(* The robot's pose, the tf transform and the costmap's origin are inputs  *)
(* of a call: other threads change them between calls.                     *)
(***************************************************************************)
EXTENDS PlanGeometry

CONSTANTS
  Places,         \* where a pose of a plan may lie, in the plan's frame
  Plans,          \* the paths a planner may deliver
  Robots,         \* robot positions, in the costmap's frame
  Shifts,         \* plan frame to costmap frame translations
  Origins,        \* positions of the costmap's lower left corner
  SizeX, SizeY,   \* size of the costmap
  Unit,           \* Dist of two points one coordinate unit apart
  MaxSearch       \* max_robot_pose_search_dist, in the unit of Dist

ASSUME PathHandlerAssumption ==
  /\ Places \subseteq Point /\ Plans \subseteq Seq(Places)
  /\ Robots \subseteq Point /\ Shifts \subseteq Point /\ Origins \subseteq Point
  /\ SizeX \in Nat /\ SizeY \in Nat /\ Unit \in Nat /\ MaxSearch \in Nat

ASSUME DistAssumption ==
  \A r \in Robots, s \in Shifts, p \in Places : Dist(ToPlan(r, s), p) \in Nat

VARIABLES
  global_plan,    \* the poses ahead
  pruned_plan,    \* the poses passed
  received,       \* history: the plan last delivered
  out             \* history: the last call and what it gave back

vars == <<global_plan, pruned_plan, received, out>>

Call == [robot : Robots, shift : Shifts, origin : Origins]

Throws    == {"no_plan", "no_robot_tf", "no_pose_tf", "no_projection_tf"}
Outcomes  == Throws \union {"none", "near", "projected"}

Return(kind, c, poses) ==
  out' = [kind |-> kind, robot |-> c.robot, shift |-> c.shift,
          origin |-> c.origin, poses |-> poses]

Larger(a, b)  == IF a >= b THEN a ELSE b
Smaller(a, b) == IF a <= b THEN a ELSE b

-----------------------------------------------------------------------------
(* max_costmap_extent, and the piece of the plan a call selects. *)
Extent == (Unit * Larger(SizeX, SizeY)) \div 2

\* Mutant: the search for the closest pose is not bounded.
BeginUnbounded(c) ==
  Closest(global_plan, Len(global_plan) + 1, ToPlan(c.robot, c.shift))

Begin(c) ==
  Closest(global_plan, FirstAfterIntegratedDistance(global_plan, MaxSearch),
          ToPlan(c.robot, c.shift))

End(c) == FirstBeyond(global_plan, Begin(c), Extent, ToPlan(c.robot, c.shift))

\* Mutant: the selected poses are counted from the front of the plan.
LocalPosesFromFront(c) ==
  [i \in 1 .. End(c) - Begin(c) |-> ToLocal(global_plan[i], c.shift)]

LocalPoses(c) ==
  [i \in 1 .. End(c) - Begin(c) |-> ToLocal(global_plan[Begin(c) + i - 1], c.shift)]

\* Mutants: what was passed is kept as it was transformed; the closest pose is
\* erased but not kept.
PruneStoresLocal(c) ==
  /\ pruned_plan' = pruned_plan \o
       [i \in 1 .. Begin(c) - 1 |-> ToLocal(global_plan[i], c.shift)]
  /\ global_plan' = SubSeq(global_plan, Begin(c), Len(global_plan))

PruneErasesClosest(c) ==
  /\ pruned_plan' = pruned_plan \o SubSeq(global_plan, 1, Begin(c) - 1)
  /\ global_plan' = SubSeq(global_plan, Begin(c) + 1, Len(global_plan))

Prune(c) ==
  /\ pruned_plan' = pruned_plan \o SubSeq(global_plan, 1, Begin(c) - 1)
  /\ global_plan' = SubSeq(global_plan, Begin(c), Len(global_plan))

ClampToBounds(v, lo, hi) == Larger(lo, Smaller(v, hi))

\* Mutant: the upper bounds are forgotten.
ProjectionUnbounded(c) ==
  LET p == ToLocal(global_plan[Begin(c)], c.shift)
  IN  <<Larger(c.origin[1], p[1]), Larger(c.origin[2], p[2])>>

Projection(c) ==
  LET p == ToLocal(global_plan[Begin(c)], c.shift)
  IN  <<ClampToBounds(p[1], c.origin[1], c.origin[1] + SizeX),
        ClampToBounds(p[2], c.origin[2], c.origin[2] + SizeY)>>

-----------------------------------------------------------------------------
(* transformGlobalPlan, one action per way out of it.  Any lookup in tf may *)
(* fail; the lookups of the near poses come before the pruning, the lookup  *)
(* of the projected pose after it.                                          *)

ThrowNoPlan(c) ==
  /\ global_plan = <<>>
  /\ Return("no_plan", c, <<>>)
  /\ UNCHANGED <<global_plan, pruned_plan, received>>

ThrowNoRobotTransform(c) ==
  /\ global_plan # <<>>
  /\ Return("no_robot_tf", c, <<>>)
  /\ UNCHANGED <<global_plan, pruned_plan, received>>

ThrowNoPoseTransform(c) ==
  /\ global_plan # <<>>
  /\ LocalPoses(c) # <<>>
  /\ Return("no_pose_tf", c, <<>>)
  /\ UNCHANGED <<global_plan, pruned_plan, received>>

ReturnNear(c) ==
  /\ global_plan # <<>>
  /\ LocalPoses(c) # <<>>
  /\ Prune(c)
  /\ Return("near", c, LocalPoses(c))
  /\ UNCHANGED received

ThrowNoProjectionTransform(c) ==
  /\ global_plan # <<>>
  /\ LocalPoses(c) = <<>>
  /\ Prune(c)
  /\ Return("no_projection_tf", c, <<>>)
  /\ UNCHANGED received

ReturnProjection(c) ==
  /\ global_plan # <<>>
  /\ LocalPoses(c) = <<>>
  /\ Prune(c)
  /\ Return("projected", c, <<Projection(c)>>)
  /\ UNCHANGED received

TransformGlobalPlan(c) ==
  \/ ThrowNoPlan(c)
  \/ ThrowNoRobotTransform(c)
  \/ ThrowNoPoseTransform(c)
  \/ ReturnNear(c)
  \/ ThrowNoProjectionTransform(c)
  \/ ReturnProjection(c)

SetPlan(path) ==
  /\ global_plan' = path
  /\ pruned_plan' = <<>>
  /\ received' = path
  /\ UNCHANGED out

ResetPlan ==
  /\ pruned_plan # <<>>
  /\ global_plan' = pruned_plan \o global_plan
  /\ pruned_plan' = <<>>
  /\ UNCHANGED <<received, out>>

-----------------------------------------------------------------------------
Init ==
  /\ global_plan = <<>> /\ pruned_plan = <<>> /\ received = <<>>
  /\ \E c \in Call : out = [kind |-> "none", robot |-> c.robot, shift |-> c.shift,
                            origin |-> c.origin, poses |-> <<>>]

Next ==
  \/ \E path \in Plans : SetPlan(path)
  \/ \E c \in Call : TransformGlobalPlan(c)
  \/ ResetPlan

Spec == Init /\ [][Next]_vars

-----------------------------------------------------------------------------
(* Type correctness of the handler's two paths and of what a call returns. *)
TypeOK ==
  /\ global_plan \in Seq(Places)
  /\ pruned_plan \in Seq(Places)
  /\ received \in Seq(Places)
  /\ out \in [kind : Outcomes, robot : Robots, shift : Shifts,
              origin : Origins, poses : Seq(Point)]

(* No pose of the delivered plan is lost, duplicated or reordered by the   *)
(* pruning: passed poses followed by the poses ahead are the plan that     *)
(* setPlan got (path_handler.cpp:109-115, 146-163).                        *)
PlanConserved == pruned_plan \o global_plan = received

(* Pruning never eats the whole plan, so only a planner that delivers an   *)
(* empty path can make a call throw "zero length" (path_handler.cpp:49).   *)
PoseAhead == received # <<>> => global_plan # <<>>

(* A call that returns normally hands out the poses of the plan from the   *)
(* new head of the pruned plan on, without a gap, seen from the costmap's  *)
(* frame, and all of them up to the first that is further from the robot   *)
(* than the extent; and the head is the nearest of the poses searched      *)
(* (path_handler.cpp:61-115: what was transformed before the pruning is    *)
(* still what the pruned plan starts with after it).                       *)
Searched(j) == \A k \in 2 .. j : ~ (IntegratedDistance(global_plan, k) > MaxSearch)

HandedOutFromHead ==
  [][out' # out /\ out'.kind = "near" =>
       LET here == ToPlan(out'.robot, out'.shift)
           n    == Len(out'.poses)
       IN  /\ n \in 1 .. Len(global_plan')
           /\ \A i \in 1 .. n : /\ out'.poses[i] = ToLocal(global_plan'[i], out'.shift)
                                /\ ~ (Dist(global_plan'[i], here) > Extent)
           /\ n < Len(global_plan') => Dist(global_plan'[n + 1], here) > Extent
           /\ \A j \in DOMAIN global_plan :
                Searched(j) => Dist(here, global_plan'[1]) <= Dist(here, global_plan[j])]_vars

(* With every pose ahead out of reach the caller still gets one pose, and  *)
(* that pose lies in the costmap (path_handler.cpp:117-134).               *)
ProjectionInCostmap ==
  out.kind = "projected" =>
    /\ Len(out.poses) = 1
    /\ \A i \in {1, 2} :
         out.poses[1][i] - out.origin[i] \in 0 .. (IF i = 1 THEN SizeX ELSE SizeY)

(* One call never skips to a later portion of the plan: what it prunes is  *)
(* no longer than the searched length (path_handler.cpp:61-71).            *)
NoJumpAhead ==
  [][LET pruned == Len(pruned_plan') - Len(pruned_plan)
     IN  received' = received /\ pruned > 0 =>
           ~ (IntegratedDistance(global_plan, pruned + 1) > MaxSearch)]_vars

(* The abstract cursor over the delivered plan. *)
Cursor == INSTANCE PlanCursor WITH plan <- received, passed <- Len(pruned_plan),
                                   LengthTo <- IntegratedDistance

(* The handler implements the cursor: forward only, bounded steps, at      *)
(* least one pose ahead, back to the start on a reset or a new plan.       *)
ImplementsCursor == Cursor!Spec
=============================================================================
