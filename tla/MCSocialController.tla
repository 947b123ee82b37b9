------------------------ MODULE MCSocialController ------------------------
(***************************************************************************)
(* Messages in the plan's frame, in the sensor's, and without persons; the *)
(* speeds lie below, between and above the limits of 2 and 4.              *)
(***************************************************************************)
EXTENDS SocialController

MCMessages ==
  {[id |-> 1, frame |-> "sensor", count |-> 2], [id |-> 2, frame |-> "map", count |-> 1],
   [id |-> 3, frame |-> "sensor", count |-> 0]}
MCPursuitCmds == {[lin |-> v, ang |-> 3 * v] : v \in {-5, -1, 0, 1, 5}}
MCSolverCmds  == {[lin |-> v, ang |-> -1] : v \in {2, 4}}
=============================================================================
