------------------------- MODULE MCSocialOptimizer -------------------------
(***************************************************************************)
(* Trajectories of one to five poses against two, three and thirty steps;  *)
(* nobody, people who stand and walk within and beyond the reach of the    *)
(* force (one metre), one exactly where the robot is, one who comes into   *)
(* the range of the crossing critic (four metres), and four people.  A     *)
(* quarter turn in a step is more than a robot does; it keeps positions    *)
(* whole.  The files cover the defaults, a short horizon of uneven blocks, *)
(* counts of zero and below, and a solver that does not exist.             *)
(***************************************************************************)
EXTENDS SocialOptimizer

Ahead5 == [v |-> 5, w |-> 0]
Stop   == [v |-> 0, w |-> 0]
Turn5  == [v |-> 5, w |-> 1]

PosesOf(cmds) ==
  LET p[k \in 1 .. Len(cmds) + 1] ==
        IF k = 1 THEN [at |-> <<20, 0>>, yaw |-> 0] ELSE Drive(p[k - 1], cmds[k - 1])
  IN  p

MCTrajectories ==
  {[poses |-> PosesOf(c), cmds |-> c] :
     c \in {<<>>, <<Ahead5>>, <<Stop, Ahead5>>, <<Ahead5, Ahead5, Turn5>>,
           <<Turn5, Stop, Ahead5, Ahead5>>}}

Standing(x, y)   == [at |-> <<x, y>>, v |-> <<0, 0>>]
Walking(x, y, v) == [at |-> <<x, y>>, v |-> v]

MCPeople ==
  {<<>>,
   <<Standing(50, 0)>>,
   <<Standing(20, 0)>>,
   <<Walking(430, 0, <<-6, 0>>)>>,
   <<Standing(170, 0), Walking(190, 30, <<-6, 0>>)>>,
   <<Walking(20, 180, <<0, -4>>), Standing(170, 0), Walking(195, 0, <<0, 4>>)>>,
   <<Standing(170, 0), Walking(300, 40, <<4, 4>>), Standing(0, 70), Walking(60, 0, <<-6, 0>>)>>}

MCCommands == {Ahead5, Stop, Turn5}
MCGoal     == <<300, 0>>

MCFiles ==
  {[max_linear_vel |-> 7],
   [control_horizon |-> 3, parameter_block_length |-> 1, enable_crossing |-> 1],
   [max_time |-> 3, control_horizon |-> 2, parameter_block_length |-> 1,
    enable_crossing |-> 1, goal_proximity_weight |-> 1],
   [max_time |-> 4, control_horizon |-> -1, parameter_block_length |-> 2],
   [max_time |-> 2, desired_linear_vel |-> 4],
   [control_horizon |-> 0],
   [max_time |-> 3, parameter_block_length |-> 0, enable_angle |-> 0],
   [linear_solver_type |-> 0]}

MCChanges ==
  {[name |-> "linear_solver_type", value |-> 1], [name |-> "max_time", value |-> 3]}
=============================================================================
