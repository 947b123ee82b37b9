------------------------- MODULE MCTrajectorizer -------------------------
(***************************************************************************)
(* A flat world of 17 by 17 cells with eight headings, in which a step in  *)
(* a heading moves along a row, a column or a diagonal and a distance is   *)
(* the larger of the two coordinates' differences.  Its edges are walls,   *)
(* too far away to be reached.                                             *)
(***************************************************************************)
EXTENDS Trajectorizer

Side == 8
MCPoses == [at : (-Side .. Side) \X (-Side .. Side), yaw : -3 .. 4]

Heading == [y \in -3 .. 4 |->
  CASE y = 0 -> <<1, 0>>  [] y = 1 -> <<1, 1>>   [] y = 2 -> <<0, 1>>   [] y = 3 -> <<-1, 1>>
    [] y = 4 -> <<-1, 0>> [] y = -3 -> <<-1, -1>> [] y = -2 -> <<0, -1>> [] y = -1 -> <<1, -1>>]

Abs(v) == IF v < 0 THEN -v ELSE v
Wall(v) == IF v > Side THEN Side ELSE IF v < -Side THEN -Side ELSE v

MCAdvance(p, t) ==
  [at |-> <<Wall(p.at[1] + t.lin * Heading[p.yaw][1]), Wall(p.at[2] + t.lin * Heading[p.yaw][2])>>,
   yaw |-> Normalize(p.yaw + t.ang)]

MCDist(p, q) ==
  IF Abs(p[1] - q[1]) > Abs(p[2] - q[2]) THEN Abs(p[1] - q[1]) ELSE Abs(p[2] - q[2])

\* The heading nearest to the direction of q from p; 0 if they coincide.
MCBearing(p, q) ==
  LET dx == q[1] - p[1]
      dy == q[2] - p[2]
      sx == IF 2 * Abs(dx) < Abs(dy) \/ dx = 0 THEN 0 ELSE dx \div Abs(dx)
      sy == IF 2 * Abs(dy) < Abs(dx) \/ dy = 0 THEN 0 ELSE dy \div Abs(dy)
  IN  IF p = q THEN 0 ELSE CHOOSE y \in DOMAIN Heading : Heading[y] = <<sx, sy>>

MCInFront(p, q) == (q[1] - p.at[1]) * Heading[p.yaw][1] + (q[2] - p.at[2]) * Heading[p.yaw][2] >= 0

\* Twice the lateral offset of q over the square of its distance.
MCCurvature(p, q) ==
  LET dy == (q[2] - p.at[2]) * Heading[p.yaw][1] - (q[1] - p.at[1]) * Heading[p.yaw][2]
      n  == (2 * CurveUnit * Abs(dy)) \div (MCDist(p.at, q) * MCDist(p.at, q))
  IN  IF p.at = q THEN 0 ELSE IF dy < 0 THEN -n ELSE n

MCLeaves(c, p, q) ==
  CHOOSE x \in (Least(p[1], q[1]) .. Greatest(p[1], q[1])) \X
                (Least(p[2], q[2]) .. Greatest(p[2], q[2])) : MCDist(c, x) = Lookahead

At(x, y, yaw) == [at |-> <<x, y>>, yaw |-> yaw]

Straight == <<At(0, 0, 0), At(1, 0, 0), At(2, 0, 0), At(4, 0, 0), At(6, 0, 0)>>
Corner   == <<At(0, 0, 0), At(2, 0, 0), At(2, 2, 2), At(2, 5, 2)>>
Back     == <<At(0, 0, 4), At(-2, 0, 4), At(-4, 0, -3)>>
Near     == <<At(0, 0, -3)>>

MCPlans  == {Straight, Corner, Back, Near}
MCRobots == {At(0, 0, 0), At(0, 1, -2), At(-2, -1, 3), At(1, 0, 4)}
MCSpeeds == {[lin |-> 0, ang |-> 0], [lin |-> 2, ang |-> -1], [lin |-> -4, ang |-> 3]}
=============================================================================
