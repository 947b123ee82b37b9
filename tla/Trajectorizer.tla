--------------------------- MODULE Trajectorizer ---------------------------
(***************************************************************************)
(* PathTrajectorizer (path_trajectorizer.cpp): trajectorize rolls the      *)
(* robot out along the local plan, one action per pass of its loop, and    *)
(* puts the poses it passes in the place of the plan.                      *)
(*                                                                         *)
(* The variables are the locals of one call; previous calls leave nothing  *)
(* behind (last_cmd_ is never read).                                       *)
(***************************************************************************)
EXTENDS PurePursuit

CONSTANTS
  Plans,        \* local plans, sequences of poses
  Robots,       \* poses the robot may have
  Speeds,       \* speeds it may report
  CheckerTols,  \* goal checker's tolerances, 0 for no checker or no usable value
  MaxSteps      \* max_steps_

ASSUME TrajectorizerAssumption ==
  /\ \A p \in Plans : p \in Seq(Poses) /\ p # <<>>
  /\ \A p \in Plans, c \in Places : \A k \in 2 .. Len(p) :
       Dist(c, p[k - 1].at) < Lookahead /\ Dist(c, p[k].at) >= Lookahead =>
         LET q == Leaves(c, p[k - 1].at, p[k].at) IN q \in Places /\ Dist(c, q) = Lookahead
  /\ Robots \subseteq Poses /\ Speeds \subseteq [lin : Int, ang : Int]
  /\ CheckerTols \subseteq Nat /\ MaxSteps \in Nat \ {0}

VARIABLES
  path,            \* in: the plan; out: the rollout
  plan, robot, speed,  \* what the call was given
  goal_tolerance,
  current_rp,      \* where the rollout is
  goal_distance,
  previous_cmd,
  new_path, cmds,  \* the rollout so far
  pc               \* "idle" or "rollout"

vars == <<path, plan, robot, speed, goal_tolerance, current_rp, goal_distance,
          previous_cmd, new_path, cmds, pc>>

inputs == <<plan, robot, speed, goal_tolerance>>
rollout == <<current_rp, goal_distance, previous_cmd, new_path, cmds>>

-----------------------------------------------------------------------------
Goal == plan[Len(plan)]

Call(p, r, s, tol) ==
  /\ pc = "idle" /\ pc' = "rollout"
  /\ path' = p /\ plan' = p /\ robot' = r /\ speed' = s
  /\ goal_tolerance' = IF tol > 0 THEN tol ELSE GoalDistTol
  /\ current_rp' = r /\ previous_cmd' = s
  /\ goal_distance' = Dist(r.at, p[Len(p)].at)
  /\ new_path' = <<r>> /\ cmds' = <<>>

Continues == pc = "rollout" /\ Len(cmds) < MaxSteps /\ goal_distance > goal_tolerance

Carrot == LookAheadPose(path, current_rp)

\* Mutant: every step accelerates from the measured speed.
AppliedToMeasured(desired) == Integrate(speed, desired)

Applied(desired) == Integrate(previous_cmd, desired)

\* Mutant: the robot moves as asked, not as its limits allow.
ReachedAsAsked(desired) == Advance(current_rp, desired)

Reached(desired) == Advance(current_rp, Applied(desired))

\* Mutant: the distance is the one before the step.
DistanceStale(rp) == Dist(current_rp.at, path[Len(path)].at)

DistanceToGo(rp) == Dist(rp.at, path[Len(path)].at)

(* applyMotionModel, and what the loop records of it. *)
Extend(desired) ==
  /\ current_rp' = Reached(desired) /\ previous_cmd' = Applied(desired)
  /\ new_path' = Append(new_path, Reached(desired)) /\ cmds' = Append(cmds, Applied(desired))
  /\ goal_distance' = DistanceToGo(Reached(desired))
  /\ UNCHANGED <<path, inputs, pc>>

(* The angle here is not brought back into one turn. *)
RotateToGoal ==
  /\ Continues /\ ShouldRotateToGoalHeading(current_rp, Carrot)
  /\ Extend(RotateToHeading(path[Len(path)].yaw - current_rp.yaw, speed.ang))

RotateToPath ==
  /\ Continues /\ ~ ShouldRotateToGoalHeading(current_rp, Carrot)
  /\ ShouldRotateToPath(current_rp, Carrot)
  /\ Extend(RotateToHeading(AngleToPath(current_rp, Carrot), speed.ang))

Follow ==
  /\ Continues /\ ~ ShouldRotateToGoalHeading(current_rp, Carrot)
  /\ ~ ShouldRotateToPath(current_rp, Carrot)
  /\ Extend(FollowArc(current_rp, Carrot, path[Len(path)]))

Return ==
  /\ pc = "rollout" /\ ~ Continues
  /\ path' = new_path /\ pc' = "idle"
  /\ UNCHANGED <<inputs, rollout>>

Init ==
  /\ pc = "idle" /\ path = <<>> /\ plan = <<>>
  /\ robot \in Robots /\ speed \in Speeds /\ goal_tolerance = GoalDistTol
  /\ current_rp = robot /\ goal_distance = 0 /\ previous_cmd = speed
  /\ new_path = <<robot>> /\ cmds = <<>>

Next ==
  \/ \E p \in Plans, r \in Robots, s \in Speeds, tol \in CheckerTols : Call(p, r, s, tol)
  \/ RotateToGoal \/ RotateToPath \/ Follow
  \/ Return

Spec == Init /\ [][Next]_vars

-----------------------------------------------------------------------------
Returned == pc = "idle" /\ plan # <<>>

(* Type correctness: at most MaxSteps commands, all within the speed       *)
(* limits, even when the robot reports a speed beyond them.                *)
TypeOK ==
  /\ pc \in {"idle", "rollout"}
  /\ plan \in Plans \union {<<>>} /\ path \in Seq(Poses)
  /\ robot \in Robots /\ speed \in Speeds
  /\ goal_tolerance \in Nat \ {0} /\ goal_distance \in Nat
  /\ current_rp \in Poses /\ previous_cmd \in Twists \union Speeds
  /\ new_path \in Seq(Poses) /\ cmds \in Seq(Twists)
  /\ Len(cmds) <= MaxSteps

(* The poses are the ones the commands lead through, starting at the       *)
(* robot, one more than commands; the plan is replaced by them at the end  *)
(* (path_trajectorizer.cpp:299, 389-401, 412-413).  The optimizer pairs    *)
(* poses and commands by their index and relies on it.                     *)
RolloutConsistent ==
  /\ Len(new_path) = Len(cmds) + 1 /\ new_path[1] = robot
  /\ \A i \in DOMAIN cmds : new_path[i + 1] = Advance(new_path[i], cmds[i])
  /\ pc = "rollout" => path = plan
  /\ Returned => path = new_path

(* No command asks for more acceleration than the robot has, from the      *)
(* reported speed on if that is a speed the robot may have                 *)
(* (motion_model.hpp:67-77, 158-170, path_trajectorizer.cpp:389-394).      *)
Within(a, b, delta) == delta > 0 => Magnitude(a - b) <= delta

AccelerationsInLimits ==
  \A i \in DOMAIN cmds :
    LET prev == IF i = 1 THEN speed ELSE cmds[i - 1]
    IN  prev \in Twists =>
          Within(cmds[i].lin, prev.lin, LinDelta) /\ Within(cmds[i].ang, prev.ang, AngDelta)

(* The rollout goes on until its last pose is within tolerance of the      *)
(* goal, no further, and gives up only after MaxSteps commands             *)
(* (path_trajectorizer.cpp:325-328, 403-404).                              *)
StopsAtGoal ==
  plan # <<>> =>
    /\ \A i \in 1 .. Len(new_path) - 1 : Dist(new_path[i].at, Goal.at) > goal_tolerance
    /\ Returned => \/ Dist(new_path[Len(new_path)].at, Goal.at) <= goal_tolerance
                   \/ Len(cmds) = MaxSteps

(* A robot that turns more slowly than one step can stop is never told to  *)
(* stand still twice in a row: no combination of rotation, slow approach   *)
(* and limits leaves the rollout stuck (regulated_pure_pursuit.hpp:72-90,  *)
(* 181-196, 278-286), if the parameters let it move and it looks beyond    *)
(* the goal's tolerance.  Every rotation is limited from the speed         *)
(* measured before the rollout (path_trajectorizer.cpp:366-370): a robot   *)
(* that turns away by just as much as a step can stop is asked to stand    *)
(* still at every pass, so the bound cannot be relaxed.                    *)
CanMove ==
  /\ RotateVel > 0 /\ AngDelta > 0 /\ MinApproach > 0 /\ MinRegulated > 0
  /\ Lookahead >= GoalDistTol

Still == [lin |-> 0, ang |-> 0]

NeverStuck ==
  CanMove /\ Magnitude(speed.ang) < AngDelta =>
    \A i \in 1 .. Len(cmds) - 1 : cmds[i] # Still \/ cmds[i + 1] # Still
=============================================================================
