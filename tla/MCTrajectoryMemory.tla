------------------------ MODULE MCTrajectoryMemory ------------------------
(***************************************************************************)
(* Up to five poses against a maximum of four: trajectories that end at    *)
(* the goal at once, that are kept whole and that are cut, in any order.   *)
(* A step moves the robot by two, so that half a step shows in a blend.    *)
(***************************************************************************)
EXTENDS TrajectoryMemory

MCTrajectories ==
  [robot : {0, 2, 6},
   cmds : {<<>>, <<2>>, <<2, 2>>, <<0, 2>>, <<2, 2, 2>>, <<2, 2, 2, 2>>}]
MCSpeeds     == {0, 2}
MCVelocities == {0, 2}
MCGarbage    == {9}
=============================================================================
