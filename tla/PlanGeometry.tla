---------------------------- MODULE PlanGeometry ----------------------------
(***************************************************************************)
(* Points of a plan, the rigid transform between the plan's frame and the  *)
(* costmap's frame, and the three search routines PathHandler takes from   *)
(* nav2_util::geometry_utils and the standard library.  Orientations and   *)
(* stamps are abstracted: nothing here reads them.                         *)
(***************************************************************************)
EXTENDS Integers, Sequences, FiniteSetsExt

CONSTANT Dist(_, _)     \* euclidean_distance, in an integer unit

Point == Int \X Int

(***************************************************************************)
(* The frames differ by a translation, the part of a tf transform that     *)
(* decides which pose is close to which.                                   *)
(***************************************************************************)
ToLocal(p, shift) == <<p[1] + shift[1], p[2] + shift[2]>>
ToPlan(p, shift)  == <<p[1] - shift[1], p[2] - shift[2]>>

\* Length of the polyline through poses 1..k of the path s.
IntegratedDistance(s, k) ==
  LET Leg(i) == Dist(s[i], s[i + 1]) IN MapThenSumSet(Leg, 1 .. k - 1)

\* nav2_util's first_after_integrated_distance over all of s: the index of
\* the first pose further along s than d, one past the end if there is none.
FirstAfterIntegratedDistance(s, d) ==
  LET beyond == {k \in 2 .. Len(s) : IntegratedDistance(s, k) > d}
  IN  IF beyond = {} THEN Len(s) + 1 ELSE Min(beyond)

\* nav2_util's min_by over s[1 .. ub - 1]: it keeps the last of equal minima.
Closest(s, ub, p) ==
  Max({k \in 1 .. ub - 1 : \A j \in 1 .. ub - 1 : Dist(p, s[k]) <= Dist(p, s[j])})

\* std::find_if from position b: the first pose beyond distance d of p.
FirstBeyond(s, b, d, p) ==
  LET beyond == {k \in b .. Len(s) : Dist(s[k], p) > d}
  IN  IF beyond = {} THEN Len(s) + 1 ELSE Min(beyond)
=============================================================================
