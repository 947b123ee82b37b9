--------------------------- MODULE MCObstacleGrid ---------------------------
(***************************************************************************)
(* Two frames; grids that are wide, tall, without width or height, without *)
(* resolution, with more cells than an int counts and a width that is -1   *)
(* as an int, or with indexes that are too few or lead out of the grid;    *)
(* points in a first, in the last and in no column, and on the wide grid   *)
(* at the index that is the least int.                                     *)
(***************************************************************************)
EXTENDS ObstacleGrid

Grid(frame, origin, resolution, width, height, indexes) ==
  [frame |-> frame, in |-> frame, origin |-> origin, resolution |-> resolution,
   width |-> width, height |-> height, indexes |-> indexes]

MCGrids ==
  {Grid("map", <<0, 0>>, 2, 3, 2, <<5, 4, 0, 0, 2, 1>>),
   Grid("odom", <<-3, 1>>, 1, 1, 3, <<2, 0, 7>>),
   Grid("map", <<1, 0>>, 0, 0, 2, <<0>>),
   Grid("odom", <<1, 0>>, 2, 2, 0, <<0>>),
   Grid("map", <<-3, 3>>, 1, 15, 1, <<3>>)}

MCFrames == {"map", "odom"}
MCOffset == [f \in MCFrames |-> IF f = "map" THEN <<0, 0>> ELSE <<2, -1>>]
MCPoints == {<<0, 2>>, <<5, 3>>, <<-1, 1>>}
=============================================================================
