--------------------------- MODULE MCPathHandler ---------------------------
(***************************************************************************)
(* Small plans for TLC: a straight one, a hairpin whose way back runs      *)
(* beside its way out, a loop that crosses itself, one with a long gap,    *)
(* and the empty path.                                                     *)
(***************************************************************************)
EXTENDS PathHandler

\* Euclidean distance in tenths, rounded down, tabulated by its square.
MaxSquare == 162
Root == [n \in 0 .. MaxSquare |->
           CHOOSE r \in 0 .. 10 * 13 : r * r <= 100 * n /\ 100 * n < (r + 1) * (r + 1)]
MCDist(p, q) ==
  Root[(p[1] - q[1]) * (p[1] - q[1]) + (p[2] - q[2]) * (p[2] - q[2])]

Straight == <<<<0, 0>>, <<1, 0>>, <<2, 0>>, <<3, 0>>>>
Hairpin  == <<<<0, 0>>, <<1, 0>>, <<2, 0>>, <<2, 1>>, <<1, 1>>, <<0, 1>>>>
Loop     == <<<<0, 0>>, <<1, 0>>, <<1, 1>>, <<0, 1>>, <<0, 0>>, <<0, -1>>>>
Gap      == <<<<0, 0>>, <<3, 0>>, <<3, 1>>>>

MCPlaces  == (0 .. 3) \X (-1 .. 2)
MCPlans   == {<<>>, Straight, Hairpin, Loop, Gap}
MCRobots  == {<<0, 0>>, <<2, 0>>, <<0, 1>>, <<4, 2>>}
MCShifts  == {<<0, 0>>, <<2, 0>>}
MCOrigins == {<<-1, -1>>, <<1, 0>>}
=============================================================================
