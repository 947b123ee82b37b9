---------------------------- MODULE PurePursuit ----------------------------
(***************************************************************************)
(* RegulatedPurePursuit (regulated_pure_pursuit.hpp): where on the path to *)
(* look, whether to turn on the spot first, and how fast to drive.         *)
(*                                                                         *)
(* A pose is a point and a yaw; angles are integers, Turn to a full turn.  *)
(* What geometry computes (distances, bearings, curvatures, the point      *)
(* where a segment leaves a circle) is a parameter.  The cost scaling of   *)
(* 260-276 is out: its only caller passes no cost.  So is the check that   *)
(* path and robot share a frame (133-141): the local plan is in the frame  *)
(* of the costmap, and so is the robot's pose.                             *)
(***************************************************************************)
EXTENDS Integers, Sequences, FiniteSetsExt, MotionModel

CONSTANTS
  Dist(_, _),        \* distance of two points
  Bearing(_, _),     \* direction in which the second point lies from the first
  Curvature(_, _),   \* curvature of the arc from a pose to a point, 1/CurveUnit
  InFront(_, _),     \* whether a point lies in front of a pose
  Leaves(_, _, _),   \* where the segment of two points leaves the look-ahead circle
  Turn, CurveUnit,
  Lookahead, UseInterpolation, AllowReverse, UseRotateToHeading,
  RotateVel, RotateMinAngle,   \* rotate_to_heading_angular_vel, _min_angle
  GoalDistTol,                 \* goal_dist_tol, the trajectorizer's waypoint_dist_tol
  Desired, MinApproach,        \* desired_linear_vel, min_approach_linear_velocity
  MinRadius, MinRegulated      \* regulated_linear_scaling_min_radius_, _min_speed_

Places == {p.at : p \in Poses}

ASSUME PursuitAssumption ==
  /\ \A p, q \in Places : Dist(p, q) \in Nat /\ Bearing(p, q) \in Int
  /\ \A p \in Poses, q \in Places : Curvature(p, q) \in Int /\ InFront(p, q) \in BOOLEAN
  /\ Turn \in Nat \ {0} /\ CurveUnit \in Nat \ {0}
  /\ {UseInterpolation, AllowReverse, UseRotateToHeading} \subseteq BOOLEAN
  /\ {Lookahead, RotateVel, RotateMinAngle, MinApproach, MinRegulated} \subseteq Nat
  /\ {GoalDistTol, Desired, MinRadius} \subseteq Nat \ {0}

Least(a, b)    == IF a < b THEN a ELSE b
Greatest(a, b) == IF a > b THEN a ELSE b
Magnitude(v)   == IF v < 0 THEN -v ELSE v

(* The angle's representative in (-pi, pi]. *)
Normalize(a) ==
  LET r == a % Turn IN IF 2 * r > Turn THEN r - Turn ELSE r

(* The first pose at least the look-ahead distance away, or the last one.  *)
(* An interpolated pose has no orientation, which reads as yaw 0.          *)
LookAheadPose(path, robot) ==
  LET far == {k \in DOMAIN path : Dist(robot.at, path[k].at) >= Lookahead}
  IN  IF far = {} THEN path[Len(path)]
      ELSE IF UseInterpolation /\ Min(far) > 1
           THEN [at |-> Leaves(robot.at, path[Min(far) - 1].at, path[Min(far)].at), yaw |-> 0]
           ELSE path[Min(far)]

-----------------------------------------------------------------------------
ShouldRotateToGoalHeading(robot, carrot) ==
  /\ UseRotateToHeading
  /\ Dist(robot.at, carrot.at) < GoalDistTol
  /\ Magnitude(Normalize(carrot.yaw - robot.yaw)) > RotateMinAngle

AngleToPath(robot, carrot) == Normalize(Bearing(robot.at, carrot.at) - robot.yaw)

ShouldRotateToPath(robot, carrot) ==
  UseRotateToHeading /\ Magnitude(AngleToPath(robot, carrot)) > RotateMinAngle

(* The speed from which the robot can still stop within the angle.         *)
MaxVelToStop(angle) ==
  LET n == 2 * AngDelta * Magnitude(angle) IN Max({r \in 0 .. n : r * r <= n})

(* Turning on the spot by the angle, when turning at rate ang now.         *)
RotateToHeading(angle, ang) ==
  LET sign == IF angle > 0 THEN 1 ELSE -1
      w    == Clamp(sign * RotateVel, ang - AngDelta, ang + AngDelta)
  IN  [lin |-> 0,
       ang |-> IF Magnitude(w) > MaxVelToStop(angle) THEN sign * MaxVelToStop(angle) ELSE w]

-----------------------------------------------------------------------------
(* Slower in tight curves. *)
CurvatureVel(v, c) ==
  IF MinRadius * Magnitude(c) > CurveUnit
  THEN (v * CurveUnit) \div (MinRadius * Magnitude(c))
  ELSE v

\* Mutant: nothing keeps the approach from slowing down to zero.
ApproachVelToZero(v, goal_dist) ==
  IF goal_dist <= GoalDistTol THEN 0 ELSE Least(v, (v * goal_dist) \div (4 * GoalDistTol))

(* Slower from four tolerances before the goal on, but not below MinApproach. *)
ApproachVel(v, goal_dist) ==
  LET scaled == IF goal_dist <= GoalDistTol THEN 0
                ELSE Least(v, (v * goal_dist) \div (4 * GoalDistTol))
  IN  Least(v, Greatest(scaled, MinApproach))

ApplyConstraints(c, goal_dist, sign) ==
  sign * Least(Desired,
               ApproachVel(Greatest(CurvatureVel(Desired, c), MinRegulated), goal_dist))

\* v times the curvature, rounded towards zero.
TurnRate(v, c) ==
  LET n == Magnitude(v * c) \div CurveUnit IN IF v * c < 0 THEN -n ELSE n

(* Driving along the arc to the carrot. *)
FollowArc(robot, carrot, goal) ==
  LET c    == Curvature(robot, carrot.at)
      sign == IF AllowReverse /\ ~ InFront(robot, carrot.at) THEN -1 ELSE 1
      v    == ApplyConstraints(c, Dist(robot.at, goal.at), sign)
  IN  [lin |-> v, ang |-> TurnRate(v, c)]
=============================================================================
