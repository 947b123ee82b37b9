---------------------------- MODULE MotionModel ----------------------------
(***************************************************************************)
(* One step of the robot's motion (motion_model.hpp): the command is cut   *)
(* to what acceleration and speed limits allow, then the pose follows it.  *)
(* This is the unicycle model; the holonomic one does the same as long as  *)
(* the robot has no lateral speed, which no command asks for.              *)
(*                                                                         *)
(* Speeds are per time step, accelerations the change in one time step.    *)
(* Trigonometry is a parameter: Advance moves a pose by a twist.           *)
(***************************************************************************)
EXTENDS Integers

CONSTANTS
  Poses,              \* poses of the robot: a point at and a yaw
  Advance(_, _),      \* the pose a twist leads to in one time step
  MaxLin, MaxAng,     \* max_linear_vel, max_angular_vel
  LinDelta, AngDelta  \* max_linear_accel, max_angular_accel; 0 is no limit

Twists == [lin : -MaxLin .. MaxLin, ang : -MaxAng .. MaxAng]

ASSUME MotionAssumption ==
  /\ MaxLin \in Nat \ {0} /\ MaxAng \in Nat \ {0} /\ LinDelta \in Nat /\ AngDelta \in Nat
  /\ \A p \in Poses : p = [at |-> p.at, yaw |-> p.yaw] /\ p.yaw \in Int
  /\ \A p \in Poses, t \in Twists : Advance(p, t) \in Poses

Clamp(v, lo, hi) == IF v < lo THEN lo ELSE IF v > hi THEN hi ELSE v

ClampCommand(target, current, delta) ==
  IF delta = 0 THEN target ELSE current + Clamp(target - current, -delta, delta)

\* Mutant: the speed is limited first, the acceleration after it.
IntegrateSpeedFirst(prev, cmd) ==
  [lin |-> ClampCommand(Clamp(cmd.lin, -MaxLin, MaxLin), prev.lin, LinDelta),
   ang |-> ClampCommand(Clamp(cmd.ang, -MaxAng, MaxAng), prev.ang, AngDelta)]

(* The twist applied when cmd is asked for after prev. *)
Integrate(prev, cmd) ==
  [lin |-> Clamp(ClampCommand(cmd.lin, prev.lin, LinDelta), -MaxLin, MaxLin),
   ang |-> Clamp(ClampCommand(cmd.ang, prev.ang, AngDelta), -MaxAng, MaxAng)]
=============================================================================
