-------------------------- MODULE PathHandlerProofs --------------------------
(***************************************************************************)
(* The path handler's invariants and its refinement of the plan cursor,    *)
(* for every set of plans, every metric and every search length.           *)
(***************************************************************************)
EXTENDS PathHandler, TLAPS, NumberLemmas, SequenceTheorems

(***************************************************************************)
(* What the searches of PlanGeometry return, over a path that is not       *)
(* empty: the window searched for the closest pose is never empty and      *)
(* never runs past the end, so the closest pose exists.                    *)
(***************************************************************************)
LEMMA UpperBound ==
  ASSUME NEW S, NEW s \in Seq(S), s # <<>>, NEW d
  PROVE  /\ FirstAfterIntegratedDistance(s, d) \in 2 .. Len(s) + 1
         /\ \A k \in 2 .. FirstAfterIntegratedDistance(s, d) - 1 :
               ~ (IntegratedDistance(s, k) > d)
         /\ LET ub == FirstAfterIntegratedDistance(s, d)
            IN  ub <= Len(s) => IntegratedDistance(s, ub) > d
<1>. DEFINE beyond == {k \in 2 .. Len(s) : IntegratedDistance(s, k) > d}
<1>0. Len(s) \in Nat /\ Len(s) >= 1
  BY EmptySeq
<1>1. CASE beyond = {}
  BY <1>0, <1>1 DEF FirstAfterIntegratedDistance
<1>2. CASE beyond # {}
  <2>1. beyond \subseteq Nat
    BY <1>0
  <2>2. Min(beyond) \in beyond /\ \A y \in beyond : Min(beyond) <= y
    BY <1>2, <2>1, MinIsLeast
  <2>3. FirstAfterIntegratedDistance(s, d) = Min(beyond)
    BY <1>2 DEF FirstAfterIntegratedDistance
  <2>4. Min(beyond) \in 2 .. Len(s)
    BY <2>2
  <2>5. ASSUME NEW k \in 2 .. Min(beyond) - 1
        PROVE  ~ (IntegratedDistance(s, k) > d)
    <3>1. k \in 2 .. Len(s) /\ ~ (Min(beyond) <= k)
      BY <1>0, <2>4
    <3>2. k \notin beyond
      BY <2>2, <3>1
    <3>. QED  BY <3>1, <3>2
  <2>6. IntegratedDistance(s, Min(beyond)) > d
    BY <2>2
  <2>. HIDE DEF beyond
  <2>. QED  BY <1>0, <2>3, <2>4, <2>5, <2>6
<1>. QED  BY <1>1, <1>2

LEMMA ClosestExists ==
  ASSUME NEW s, NEW p, NEW n \in Nat, n >= 1,
         \A k \in 1 .. n : Dist(p, s[k]) \in Nat
  PROVE  /\ Closest(s, n + 1, p) \in 1 .. n
         /\ \A j \in 1 .. n : Dist(p, s[Closest(s, n + 1, p)]) <= Dist(p, s[j])
<1>. DEFINE D == {Dist(p, s[k]) : k \in 1 .. n}
            K == {k \in 1 .. n : \A j \in 1 .. n : Dist(p, s[k]) <= Dist(p, s[j])}
<1>1. D \subseteq Nat /\ D # {}
  OBVIOUS
<1>2. PICK d \in D : \A e \in D : d <= e
  BY <1>1, LeastNatural
<1>3. K # {}
  BY <1>2
<1>4. K \subseteq 0 .. n
  OBVIOUS
<1>5. Max(K) \in K
  BY <1>3, <1>4, MaxIsGreatest
<1>6. Closest(s, n + 1, p) = Max(K)
  BY DEF Closest
<1>. QED  BY <1>5, <1>6

LEMMA BeginInRange ==
  ASSUME TypeOK, global_plan # <<>>, NEW c \in Call
  PROVE  /\ Begin(c) \in 1 .. Len(global_plan)
         /\ \A k \in 2 .. Begin(c) : ~ (IntegratedDistance(global_plan, k) > MaxSearch)
         /\ \A j \in 1 .. Len(global_plan) : Searched(j) =>
              Dist(ToPlan(c.robot, c.shift), global_plan[Begin(c)])
                <= Dist(ToPlan(c.robot, c.shift), global_plan[j])
<1>. DEFINE ub == FirstAfterIntegratedDistance(global_plan, MaxSearch)
            here == ToPlan(c.robot, c.shift)
<1>1. global_plan \in Seq(Places)
  BY DEF TypeOK
<1>2. /\ ub \in 2 .. Len(global_plan) + 1
      /\ \A k \in 2 .. ub - 1 : ~ (IntegratedDistance(global_plan, k) > MaxSearch)
      /\ ub <= Len(global_plan) => IntegratedDistance(global_plan, ub) > MaxSearch
  BY <1>1, UpperBound
<1>3. \A k \in 1 .. Len(global_plan) : global_plan[k] \in Places
  BY <1>1, ElementOfSeq
<1>4. \A k \in 1 .. ub - 1 : Dist(here, global_plan[k]) \in Nat
  <2>1. Len(global_plan) \in Nat
    BY <1>1, LenProperties
  <2>2. c.robot \in Robots /\ c.shift \in Shifts
    BY DEF Call
  <2>. QED  BY <1>2, <1>3, <2>1, <2>2, DistAssumption
<1>5. ub - 1 \in Nat /\ ub - 1 >= 1 /\ (ub - 1) + 1 = ub
  BY <1>2
<1>6. Begin(c) = Closest(global_plan, ub, here)
  BY DEF Begin
<1>. HIDE DEF ub, here
<1>7. LET b == Closest(global_plan, (ub - 1) + 1, here)
      IN  /\ b \in 1 .. ub - 1
          /\ \A j \in 1 .. ub - 1 : Dist(here, global_plan[b]) <= Dist(here, global_plan[j])
  BY <1>4, <1>5, ClosestExists
<1>8. Len(global_plan) \in Nat
  BY <1>1, LenProperties
<1>9. Begin(c) \in 1 .. ub - 1
      /\ \A j \in 1 .. ub - 1 :
           Dist(here, global_plan[Begin(c)]) <= Dist(here, global_plan[j])
  BY <1>5, <1>6, <1>7
<1>10. Begin(c) \in 1 .. Len(global_plan)
       /\ \A k \in 2 .. Begin(c) : ~ (IntegratedDistance(global_plan, k) > MaxSearch)
  BY <1>2, <1>8, <1>9
<1>11. ASSUME NEW j \in 1 .. Len(global_plan), Searched(j)
       PROVE  Dist(here, global_plan[Begin(c)]) <= Dist(here, global_plan[j])
  <2>1. ~ (ub \in 2 .. j)
    BY <1>2, <1>8, <1>11 DEF Searched
  <2>2. j \in 1 .. ub - 1
    BY <1>2, <1>8, <2>1
  <2>. QED  BY <1>9, <2>2
<1>. QED  BY <1>10, <1>11 DEF here

LEMMA EndInRange ==
  ASSUME TypeOK, global_plan # <<>>, NEW c \in Call
  PROVE  /\ End(c) \in Begin(c) .. Len(global_plan) + 1
         /\ End(c) <= Len(global_plan) =>
              Dist(global_plan[End(c)], ToPlan(c.robot, c.shift)) > Extent
<1>. DEFINE here == ToPlan(c.robot, c.shift)
            beyond == {k \in Begin(c) .. Len(global_plan) : Dist(global_plan[k], here) > Extent}
<1>1. Begin(c) \in 1 .. Len(global_plan)
  BY BeginInRange
<1>2. Len(global_plan) \in Nat
  BY LenProperties DEF TypeOK
<1>3. End(c) = IF beyond = {} THEN Len(global_plan) + 1 ELSE Min(beyond)
  BY DEF End, FirstBeyond
<1>4. beyond \subseteq Begin(c) .. Len(global_plan)
  OBVIOUS
<1>5. \A k \in beyond : Dist(global_plan[k], here) > Extent
  OBVIOUS
<1>. HIDE DEF beyond, here
<1>6. beyond \subseteq Nat
  BY <1>1, <1>2, <1>4
<1>7. beyond # {} => Min(beyond) \in beyond
  BY <1>6, MinIsLeast
<1>8. CASE beyond = {}
  BY <1>1, <1>2, <1>3, <1>8
<1>9. CASE beyond # {}
  <2>1. Min(beyond) \in Begin(c) .. Len(global_plan) /\ End(c) = Min(beyond)
    BY <1>3, <1>4, <1>7, <1>9
  <2>2. Dist(global_plan[End(c)], here) > Extent
    BY <1>5, <1>7, <1>9, <2>1
  <2>. QED  BY <1>1, <1>2, <2>1, <2>2 DEF here
<1>. QED  BY <1>8, <1>9

(***************************************************************************)
(* Pruning moves poses from the head of the one path to the tail of the    *)
(* other and leaves at least the closest pose ahead.                       *)
(***************************************************************************)
LEMMA PruneEffect ==
  ASSUME TypeOK, global_plan # <<>>, NEW c \in Call, Prune(c)
  PROVE  /\ pruned_plan' \in Seq(Places)
         /\ global_plan' \in Seq(Places)
         /\ global_plan' # <<>>
         /\ pruned_plan' \o global_plan' = pruned_plan \o global_plan
         /\ Len(pruned_plan') = Len(pruned_plan) + Begin(c) - 1
<1>. DEFINE b == Begin(c)
            n == Len(global_plan)
            passed == SubSeq(global_plan, 1, b - 1)
            ahead == SubSeq(global_plan, b, n)
<1>1. global_plan \in Seq(Places) /\ pruned_plan \in Seq(Places)
  BY DEF TypeOK
<1>2. n \in Nat /\ Len(pruned_plan) \in Nat
  BY <1>1, LenProperties
<1>3. b \in 1 .. n
  BY BeginInRange
<1>4. \A i \in 1 .. n : global_plan[i] \in Places
  BY <1>1, ElementOfSeq
<1>5. passed \in Seq(Places) /\ Len(passed) = b - 1
  BY <1>2, <1>3, <1>4, SubSeqProperties
<1>6. ahead \in Seq(Places) /\ Len(ahead) = n - b + 1
  BY <1>2, <1>3, <1>4, SubSeqProperties
<1>7. pruned_plan' = pruned_plan \o passed /\ global_plan' = ahead
  BY DEF Prune
<1>8. passed \o ahead = global_plan
  <2>1. SubSeq(global_plan, 1, b - 1) \o SubSeq(global_plan, (b - 1) + 1, n)
          = SubSeq(global_plan, 1, n)
    <3>1. 1 \in 1 .. n + 1 /\ b - 1 \in 1 - 1 .. n /\ n \in b - 1 .. n
      BY <1>2, <1>3
    <3>. HIDE DEF b
    <3>. QED  BY <1>1, <3>1, ConcatAdjacentSubSeq
  <2>2. (b - 1) + 1 = b
    BY <1>3
  <2>. QED  BY <1>1, <2>1, <2>2, SubSeqFull
<1>. HIDE DEF b, n, passed, ahead
<1>9. ahead # <<>>
  BY <1>2, <1>3, <1>6
<1>10. (pruned_plan \o passed) \o ahead = pruned_plan \o (passed \o ahead)
  <2>1. pruned_plan \in Seq(Places) /\ passed \in Seq(Places) /\ ahead \in Seq(Places)
    BY <1>1, <1>5, <1>6
  <2>. QED  BY <2>1, ConcatAssociative, SMTT(30)
<1>11. /\ pruned_plan \o passed \in Seq(Places)
       /\ Len(pruned_plan \o passed) = Len(pruned_plan) + b - 1
  BY <1>1, <1>2, <1>3, <1>5, ConcatProperties
<1>. QED  BY <1>6, <1>7, <1>8, <1>9, <1>10, <1>11 DEF b

(***************************************************************************)
(* What a call hands out is a path of points.                              *)
(***************************************************************************)
LEMMA LocalPosesType ==
  ASSUME TypeOK, global_plan # <<>>, NEW c \in Call
  PROVE  LocalPoses(c) \in Seq(Point)
<1>. DEFINE n == End(c) - Begin(c)
<1>1. Begin(c) \in 1 .. Len(global_plan) /\ End(c) \in Begin(c) .. Len(global_plan) + 1
  BY BeginInRange, EndInRange
<1>2. Len(global_plan) \in Nat
  BY LenProperties DEF TypeOK
<1>3. n \in Nat
  BY <1>1, <1>2
<1>4. ASSUME NEW i \in 1 .. n
      PROVE  ToLocal(global_plan[Begin(c) + i - 1], c.shift) \in Point
  <2>1. Begin(c) + i - 1 \in 1 .. Len(global_plan)
    BY <1>1, <1>2
  <2>2. global_plan[Begin(c) + i - 1] \in Point
    BY <2>1, PathHandlerAssumption, ElementOfSeq DEF TypeOK
  <2>3. c.shift \in Point
    BY PathHandlerAssumption DEF Call
  <2>. QED  BY <2>2, <2>3 DEF ToLocal, Point
<1>5. LocalPoses(c) = [i \in 1 .. n |-> ToLocal(global_plan[Begin(c) + i - 1], c.shift)]
  BY DEF LocalPoses
<1>. HIDE DEF n
<1>6. LocalPoses(c) \in [1 .. n -> Point]
  BY <1>4, <1>5
<1>. QED  BY <1>3, <1>6

LEMMA ProjectionType ==
  ASSUME TypeOK, global_plan # <<>>, NEW c \in Call
  PROVE  Projection(c) \in Point
<1>1. global_plan[Begin(c)] \in Point
  BY BeginInRange, PathHandlerAssumption, ElementOfSeq DEF TypeOK
<1>2. c.shift \in Point /\ c.origin \in Point
  BY PathHandlerAssumption DEF Call
<1>. DEFINE p == ToLocal(global_plan[Begin(c)], c.shift)
<1>3. p[1] \in Int /\ p[2] \in Int
  BY <1>1, <1>2 DEF ToLocal, Point
<1>4. c.origin[1] \in Int /\ c.origin[2] \in Int /\ SizeX \in Int /\ SizeY \in Int
  BY <1>2, PathHandlerAssumption DEF Point
<1>5. Projection(c) = <<ClampToBounds(p[1], c.origin[1], c.origin[1] + SizeX),
                        ClampToBounds(p[2], c.origin[2], c.origin[2] + SizeY)>>
  BY DEF Projection
<1>. HIDE DEF p
<1>. QED  BY <1>3, <1>4, <1>5 DEF ClampToBounds, Larger, Smaller, Point

-----------------------------------------------------------------------------
(***************************************************************************)
(* The inductive invariant: the type invariant and the two facts about the *)
(* split of the delivered plan.  PoseAhead needs no help from              *)
(* PlanConserved, but the refinement below needs both.                     *)
(***************************************************************************)
Inv == TypeOK /\ PlanConserved /\ PoseAhead

LEMMA InitInv == Init => Inv
<1>. SUFFICES ASSUME Init PROVE Inv
  OBVIOUS
<1>1. PICK c \in Call : out = [kind |-> "none", robot |-> c.robot, shift |-> c.shift,
                              origin |-> c.origin, poses |-> <<>>]
  BY DEF Init
<1>2. out \in [kind : Outcomes, robot : Robots, shift : Shifts,
              origin : Origins, poses : Seq(Point)]
  BY <1>1 DEF Call, Outcomes
<1>3. <<>> \o <<>> = <<>>
  BY EmptySeq, ConcatEmptySeq
<1>. QED  BY <1>2, <1>3 DEF Init, Inv, TypeOK, PlanConserved, PoseAhead

\* What a call returns is well typed, whichever way it ends.
LEMMA ReturnType ==
  ASSUME NEW kind \in Outcomes, NEW c \in Call, NEW poses \in Seq(Point),
         Return(kind, c, poses)
  PROVE  out' \in [kind : Outcomes, robot : Robots, shift : Shifts,
                  origin : Origins, poses : Seq(Point)]
BY DEF Return, Call

LEMMA CallPreservesInv ==
  ASSUME Inv, NEW c \in Call, TransformGlobalPlan(c)
  PROVE  Inv'
<1>. USE DEF Inv
<1>0. <<>> \in Seq(Point)
  BY EmptySeq
<1>1. ASSUME Prune(c), global_plan # <<>>, UNCHANGED received,
             NEW kind \in Outcomes, NEW poses \in Seq(Point), Return(kind, c, poses)
      PROVE  Inv'
  <2>1. /\ pruned_plan' \in Seq(Places) /\ global_plan' \in Seq(Places)
        /\ global_plan' # <<>>
        /\ pruned_plan' \o global_plan' = pruned_plan \o global_plan
    BY <1>1, PruneEffect
  <2>2. TypeOK'
    BY <1>1, <2>1, ReturnType DEF TypeOK
  <2>3. PlanConserved' /\ PoseAhead'
    BY <1>1, <2>1 DEF PlanConserved, PoseAhead
  <2>. QED  BY <2>2, <2>3
<1>2. ASSUME UNCHANGED <<global_plan, pruned_plan, received>>,
             NEW kind \in Outcomes, Return(kind, c, <<>>)
      PROVE  Inv'
  <2>1. TypeOK'
    BY <1>0, <1>2, ReturnType DEF TypeOK
  <2>. QED  BY <1>2, <2>1 DEF PlanConserved, PoseAhead
<1>3. CASE ThrowNoPlan(c)
  BY <1>2, <1>3 DEF ThrowNoPlan, Outcomes, Throws
<1>4. CASE ThrowNoRobotTransform(c)
  BY <1>2, <1>4 DEF ThrowNoRobotTransform, Outcomes, Throws
<1>5. CASE ThrowNoPoseTransform(c)
  BY <1>2, <1>5 DEF ThrowNoPoseTransform, Outcomes, Throws
<1>6. CASE ReturnNear(c)
  <2>1. LocalPoses(c) \in Seq(Point)
    BY <1>6, LocalPosesType DEF ReturnNear
  <2>. QED  BY <1>1, <1>6, <2>1 DEF ReturnNear, Outcomes
<1>7. CASE ThrowNoProjectionTransform(c)
  BY <1>0, <1>1, <1>7 DEF ThrowNoProjectionTransform, Outcomes, Throws
<1>8. CASE ReturnProjection(c)
  <2>1. <<Projection(c)>> \in Seq(Point)
    BY <1>8, ProjectionType DEF ReturnProjection
  <2>. QED  BY <1>1, <1>8, <2>1 DEF ReturnProjection, Outcomes
<1>. QED  BY <1>3, <1>4, <1>5, <1>6, <1>7, <1>8 DEF TransformGlobalPlan

LEMMA StepPreservesInv == Inv /\ [Next]_vars => Inv'
<1>. SUFFICES ASSUME Inv, [Next]_vars PROVE Inv'
  OBVIOUS
<1>. USE DEF Inv
<1>1. ASSUME NEW path \in Plans, SetPlan(path)
      PROVE  Inv'
  <2>1. path \in Seq(Places) /\ <<>> \in Seq(Places)
    BY PathHandlerAssumption, EmptySeq
  <2>2. <<>> \o path = path
    BY <2>1, ConcatEmptySeq
  <2>. QED  BY <1>1, <2>1, <2>2 DEF SetPlan, TypeOK, PlanConserved, PoseAhead
<1>2. ASSUME NEW c \in Call, TransformGlobalPlan(c)
      PROVE  Inv'
  BY <1>2, CallPreservesInv
<1>3. CASE ResetPlan
  <2>1. global_plan' \in Seq(Places) /\ global_plan' # <<>>
    BY <1>3, ConcatProperties, ConcatEqualIffEmpty DEF ResetPlan, TypeOK
  <2>2. <<>> \o global_plan' = global_plan' /\ <<>> \in Seq(Places)
    BY <2>1, ConcatEmptySeq, EmptySeq
  <2>. QED  BY <1>3, <2>1, <2>2 DEF ResetPlan, TypeOK, PlanConserved, PoseAhead
<1>4. CASE UNCHANGED vars
  BY <1>4 DEF vars, TypeOK, PlanConserved, PoseAhead
<1>. QED  BY <1>1, <1>2, <1>3, <1>4 DEF Next

LEMMA SpecInv == Spec => []Inv
BY InitInv, StepPreservesInv, PTL DEF Spec

(***************************************************************************)
(* The two paths and every value a call returns keep their types.          *)
(***************************************************************************)
THEOREM TypeCorrect == Spec => []TypeOK
<1>1. Inv => TypeOK
  BY DEF Inv
<1>. QED  BY <1>1, SpecInv, PTL

(***************************************************************************)
(* However calls, failures, resets and new plans interleave, the poses     *)
(* passed and the poses ahead are together the plan that was delivered.    *)
(***************************************************************************)
THEOREM NoPoseLost == Spec => []PlanConserved
<1>1. Inv => PlanConserved
  BY DEF Inv
<1>. QED  BY <1>1, SpecInv, PTL

(***************************************************************************)
(* Pruning never leaves the handler without a pose ahead.                  *)
(***************************************************************************)
THEOREM AlwaysPoseAhead == Spec => []PoseAhead
<1>1. Inv => PoseAhead
  BY DEF Inv
<1>. QED  BY <1>1, SpecInv, PTL

-----------------------------------------------------------------------------
(***************************************************************************)
(* Every step is a step of the cursor over the delivered plan.  The poses  *)
(* ahead are, by PlanConserved, what the cursor calls Ahead.               *)
(***************************************************************************)
LEMMA AheadIsGlobalPlan ==
  ASSUME Inv
  PROVE  Cursor!Ahead = global_plan /\ Len(received) = Len(pruned_plan) + Len(global_plan)
<1>. DEFINE m == Len(pruned_plan)
            n == Len(global_plan)
<1>1. pruned_plan \in Seq(Places) /\ global_plan \in Seq(Places)
  BY DEF Inv, TypeOK
<1>2. m \in Nat /\ n \in Nat
  BY <1>1, LenProperties
<1>3. /\ received = pruned_plan \o global_plan
      /\ received \in Seq(Places)
      /\ Len(received) = m + n
      /\ \A i \in 1 .. m + n : received[i] = IF i <= m THEN pruned_plan[i] ELSE global_plan[i - m]
  BY <1>1, ConcatProperties DEF Inv, PlanConserved
<1>4. \A i \in m + 1 .. m + n : received[i] \in Places
  BY <1>2, <1>3, ElementOfSeq
<1>5. /\ SubSeq(received, m + 1, m + n) \in Seq(Places)
      /\ Len(SubSeq(received, m + 1, m + n)) = n
      /\ \A i \in 1 .. n : SubSeq(received, m + 1, m + n)[i] = received[m + 1 + i - 1]
  <2>1. m + 1 \in Int /\ m + n \in Int /\ (m + n) - (m + 1) + 1 = n
    BY <1>2
  <2>. HIDE DEF m, n
  <2>2. /\ SubSeq(received, m + 1, m + n) \in Seq(Places)
        /\ Len(SubSeq(received, m + 1, m + n))
             = IF m + 1 <= m + n THEN (m + n) - (m + 1) + 1 ELSE 0
        /\ \A i \in 1 .. (m + n) - (m + 1) + 1 :
              SubSeq(received, m + 1, m + n)[i] = received[(m + 1) + i - 1]
    BY <1>4, <2>1, SubSeqProperties
  <2>. QED  BY <1>2, <2>1, <2>2 DEF m, n
<1>6. ASSUME NEW i \in 1 .. n
      PROVE  SubSeq(received, m + 1, m + n)[i] = global_plan[i]
  <2>1. m + 1 + i - 1 \in 1 .. m + n /\ ~ (m + 1 + i - 1 <= m) /\ m + 1 + i - 1 - m = i
    BY <1>2
  <2>. QED  BY <1>3, <1>5, <2>1
<1>7. SubSeq(received, m + 1, m + n) = global_plan
  BY <1>1, <1>5, <1>6, SeqEqual
<1>. QED  BY <1>3, <1>7 DEF Cursor!Ahead

LEMMA PruneIsAdvance ==
  ASSUME Inv, global_plan # <<>>, NEW c \in Call, Prune(c), UNCHANGED received
  PROVE  [Cursor!Next]_(Cursor!cvars)
<1>. DEFINE n == Begin(c) - 1
<1>1. Begin(c) \in 1 .. Len(global_plan)
      /\ \A k \in 2 .. Begin(c) : ~ (IntegratedDistance(global_plan, k) > MaxSearch)
  BY BeginInRange DEF Inv
<1>2. Len(pruned_plan') = Len(pruned_plan) + Begin(c) - 1
  BY PruneEffect DEF Inv
<1>3. Len(pruned_plan) \in Nat /\ Len(global_plan) \in Nat
  BY LenProperties DEF Inv, TypeOK
<1>4. CASE Begin(c) = 1
  BY <1>2, <1>3, <1>4 DEF Cursor!cvars
<1>5. CASE Begin(c) # 1
  <2>1. n \in 1 .. Len(received) - 1 - Len(pruned_plan) /\ n + 1 \in 2 .. Begin(c)
    BY <1>1, <1>3, <1>5, AheadIsGlobalPlan
  <2>2. ~ (IntegratedDistance(Cursor!Ahead, n + 1) > MaxSearch)
    BY <1>1, <2>1, AheadIsGlobalPlan
  <2>3. Len(pruned_plan') = Len(pruned_plan) + n
    BY <1>1, <1>2, <1>3
  <2>. HIDE DEF n
  <2>4. Cursor!Advance
    BY <2>1, <2>2, <2>3 DEF Cursor!Advance
  <2>. QED  BY <2>4 DEF Cursor!Next
<1>. QED  BY <1>4, <1>5

(***************************************************************************)
(* The path handler implements the plan cursor.                            *)
(***************************************************************************)
THEOREM Refinement == Spec => ImplementsCursor
<1>1. Init => Cursor!Init
  BY EmptySeq DEF Init, Cursor!Init
<1>2. Inv /\ [Next]_vars => [Cursor!Next]_(Cursor!cvars)
  <2>. SUFFICES ASSUME Inv, [Next]_vars PROVE [Cursor!Next]_(Cursor!cvars)
    OBVIOUS
  <2>0. ASSUME UNCHANGED <<pruned_plan, received>>
        PROVE  [Cursor!Next]_(Cursor!cvars)
    BY <2>0 DEF Cursor!cvars
  <2>1. ASSUME NEW path \in Plans, SetPlan(path)
        PROVE  [Cursor!Next]_(Cursor!cvars)
    BY <2>1, EmptySeq DEF SetPlan, Cursor!Next, Cursor!NewPlan
  <2>2. ASSUME NEW c \in Call, TransformGlobalPlan(c)
        PROVE  [Cursor!Next]_(Cursor!cvars)
    <3>1. CASE ThrowNoPlan(c)
      BY <2>0, <3>1 DEF ThrowNoPlan
    <3>2. CASE ThrowNoRobotTransform(c)
      BY <2>0, <3>2 DEF ThrowNoRobotTransform
    <3>3. CASE ThrowNoPoseTransform(c)
      BY <2>0, <3>3 DEF ThrowNoPoseTransform
    <3>4. CASE ReturnNear(c)
      BY <3>4, PruneIsAdvance DEF ReturnNear
    <3>5. CASE ThrowNoProjectionTransform(c)
      BY <3>5, PruneIsAdvance DEF ThrowNoProjectionTransform
    <3>6. CASE ReturnProjection(c)
      BY <3>6, PruneIsAdvance DEF ReturnProjection
    <3>. QED  BY <2>2, <3>1, <3>2, <3>3, <3>4, <3>5, <3>6 DEF TransformGlobalPlan
  <2>3. CASE ResetPlan
    BY <2>3, EmptySeq DEF ResetPlan, Cursor!Next, Cursor!Rewind
  <2>4. CASE UNCHANGED vars
    BY <2>0, <2>4 DEF vars
  <2>. QED  BY <2>1, <2>2, <2>3, <2>4 DEF Next
<1>. QED  BY <1>1, <1>2, SpecInv, PTL DEF Spec, ImplementsCursor, Cursor!Spec

(***************************************************************************)
(* No call moves the head of the plan further than the searched length.    *)
(***************************************************************************)
THEOREM NeverJumpsAhead == Spec => NoJumpAhead
<1>. DEFINE pruned == Len(pruned_plan') - Len(pruned_plan)
            Short == received' = received /\ pruned > 0 =>
                       ~ (IntegratedDistance(global_plan, pruned + 1) > MaxSearch)
<1>1. Inv /\ [Next]_vars => [Short]_vars
  <2>. SUFFICES ASSUME Inv, [Next]_vars PROVE Short
    OBVIOUS
  <2>0. Len(pruned_plan) \in Nat
    BY LenProperties DEF Inv, TypeOK
  <2>1. ASSUME NEW c \in Call, global_plan # <<>>, Prune(c)
        PROVE  Short
    <3>1. Begin(c) \in 1 .. Len(global_plan)
          /\ \A k \in 2 .. Begin(c) : ~ (IntegratedDistance(global_plan, k) > MaxSearch)
      BY <2>1, BeginInRange DEF Inv
    <3>2. pruned = Begin(c) - 1
      BY <2>0, <2>1, <3>1, PruneEffect DEF Inv
    <3>3. pruned + 1 = Begin(c)
      BY <3>1, <3>2
    <3>4. pruned > 0 => Begin(c) \in 2 .. Begin(c)
      BY <3>1, <3>2
    <3>. HIDE DEF pruned
    <3>. QED  BY <3>1, <3>3, <3>4
  <2>2. ASSUME UNCHANGED pruned_plan
        PROVE  Short
    BY <2>0, <2>2
  <2>3. ASSUME pruned_plan' = <<>>
        PROVE  Short
    BY <2>0, <2>3, EmptySeq
  <2>4. ASSUME NEW path \in Plans, SetPlan(path)
        PROVE  Short
    BY <2>3, <2>4 DEF SetPlan
  <2>5. ASSUME NEW c \in Call, TransformGlobalPlan(c)
        PROVE  Short
    <3>. HIDE DEF Short
    <3>. QED
      BY <2>1, <2>2, <2>5 DEF TransformGlobalPlan, ThrowNoPlan, ThrowNoRobotTransform,
           ThrowNoPoseTransform, ReturnNear, ThrowNoProjectionTransform, ReturnProjection
  <2>6. CASE ResetPlan
    BY <2>3, <2>6 DEF ResetPlan
  <2>7. CASE UNCHANGED vars
    BY <2>2, <2>7 DEF vars
  <2>. HIDE DEF Short
  <2>. QED  BY <2>4, <2>5, <2>6, <2>7 DEF Next
<1>. QED  BY <1>1, SpecInv, PTL DEF Spec, NoJumpAhead

\* What the selection of the near poses guarantees: none beyond the extent.
LEMMA NearWithinExtent ==
  ASSUME TypeOK, global_plan # <<>>, NEW c \in Call, NEW k \in Begin(c) .. End(c) - 1
  PROVE  ~ (Dist(global_plan[k], ToPlan(c.robot, c.shift)) > Extent)
<1>. DEFINE here == ToPlan(c.robot, c.shift)
            beyond == {j \in Begin(c) .. Len(global_plan) : Dist(global_plan[j], here) > Extent}
<1>1. Begin(c) \in 1 .. Len(global_plan) /\ Len(global_plan) \in Nat
  BY BeginInRange, LenProperties DEF TypeOK
<1>2. End(c) = IF beyond = {} THEN Len(global_plan) + 1 ELSE Min(beyond)
  BY DEF End, FirstBeyond
<1>3. beyond \subseteq Nat
  BY <1>1
<1>4. beyond # {} => Min(beyond) \in beyond /\ \A y \in beyond : Min(beyond) <= y
  BY <1>3, MinIsLeast
<1>5. CASE beyond = {}
  <2>1. k \in Begin(c) .. Len(global_plan)
    BY <1>1, <1>2, <1>5
  <2>. QED  BY <1>5, <2>1
<1>6. CASE beyond # {}
  <2>1. Min(beyond) \in Begin(c) .. Len(global_plan)
    BY <1>4, <1>6
  <2>2. k \in Begin(c) .. Len(global_plan) /\ ~ (Min(beyond) <= k)
    BY <1>1, <1>2, <1>6, <2>1
  <2>3. k \notin beyond
    BY <1>4, <1>6, <2>2
  <2>. QED  BY <2>2, <2>3
<1>. QED  BY <1>5, <1>6

\* The clamping to the costmap's bounds, coordinate by coordinate.
LEMMA ProjectionInside ==
  ASSUME TypeOK, global_plan # <<>>, NEW c \in Call
  PROVE  /\ Projection(c)[1] - c.origin[1] \in 0 .. SizeX
         /\ Projection(c)[2] - c.origin[2] \in 0 .. SizeY
<1>1. global_plan[Begin(c)] \in Point
  BY BeginInRange, PathHandlerAssumption, ElementOfSeq DEF TypeOK
<1>2. c.shift \in Point /\ c.origin \in Point
  BY PathHandlerAssumption DEF Call
<1>. DEFINE p == ToLocal(global_plan[Begin(c)], c.shift)
<1>3. p[1] \in Int /\ p[2] \in Int
  BY <1>1, <1>2 DEF ToLocal, Point
<1>4. c.origin[1] \in Int /\ c.origin[2] \in Int /\ SizeX \in Nat /\ SizeY \in Nat
  BY <1>2, PathHandlerAssumption DEF Point
<1>5. Projection(c) = <<ClampToBounds(p[1], c.origin[1], c.origin[1] + SizeX),
                        ClampToBounds(p[2], c.origin[2], c.origin[2] + SizeY)>>
  BY DEF Projection
<1>6. ASSUME NEW v \in Int, NEW o \in Int, NEW size \in Nat
      PROVE  ClampToBounds(v, o, o + size) - o \in 0 .. size
  BY DEF ClampToBounds, Larger, Smaller
<1>. HIDE DEF p
<1>7. /\ ClampToBounds(p[1], c.origin[1], c.origin[1] + SizeX) - c.origin[1] \in 0 .. SizeX
      /\ ClampToBounds(p[2], c.origin[2], c.origin[2] + SizeY) - c.origin[2] \in 0 .. SizeY
  BY <1>3, <1>4, <1>6, Zenon
<1>8. /\ Projection(c)[1] = ClampToBounds(p[1], c.origin[1], c.origin[1] + SizeX)
      /\ Projection(c)[2] = ClampToBounds(p[2], c.origin[2], c.origin[2] + SizeY)
  <2>. HIDE DEF Projection
  <2>. QED  BY <1>5
<1>. QED  BY <1>7, <1>8, Zenon

(***************************************************************************)
(* The one pose handed out when every pose ahead is out of reach lies in   *)
(* the costmap: no action but ReturnProjection makes such an answer, and   *)
(* none changes it afterwards.                                             *)
(***************************************************************************)
THEOREM ProjectsIntoCostmap == Spec => []ProjectionInCostmap
<1>1. Init => ProjectionInCostmap
  BY DEF Init, ProjectionInCostmap
<1>2. Inv /\ ProjectionInCostmap /\ [Next]_vars => ProjectionInCostmap'
  <2>. SUFFICES ASSUME Inv, ProjectionInCostmap, [Next]_vars PROVE ProjectionInCostmap'
    OBVIOUS
  <2>1. ASSUME NEW c \in Call, ReturnProjection(c)
        PROVE  ProjectionInCostmap'
    <3>1. out'.poses = <<Projection(c)>> /\ out'.origin = c.origin
      BY <2>1 DEF ReturnProjection, Return
    <3>2. /\ Projection(c)[1] - c.origin[1] \in 0 .. SizeX
          /\ Projection(c)[2] - c.origin[2] \in 0 .. SizeY
      BY <2>1, ProjectionInside DEF Inv, ReturnProjection
    <3>3. Len(out'.poses) = 1 /\ out'.poses[1] = Projection(c)
      BY <3>1
    <3>. QED  BY <3>1, <3>2, <3>3 DEF ProjectionInCostmap
  <2>2. ASSUME NEW c \in Call, NEW kind \in Outcomes \ {"projected"}, NEW poses,
               Return(kind, c, poses)
        PROVE  ProjectionInCostmap'
    BY <2>2 DEF Return, ProjectionInCostmap
  <2>3. ASSUME NEW c \in Call, TransformGlobalPlan(c)
        PROVE  ProjectionInCostmap'
    <3>1. CASE ThrowNoPlan(c)
      BY <2>2, <3>1 DEF ThrowNoPlan, Outcomes, Throws
    <3>2. CASE ThrowNoRobotTransform(c)
      BY <2>2, <3>2 DEF ThrowNoRobotTransform, Outcomes, Throws
    <3>3. CASE ThrowNoPoseTransform(c)
      BY <2>2, <3>3 DEF ThrowNoPoseTransform, Outcomes, Throws
    <3>4. CASE ReturnNear(c)
      BY <2>2, <3>4 DEF ReturnNear, Outcomes
    <3>5. CASE ThrowNoProjectionTransform(c)
      BY <2>2, <3>5 DEF ThrowNoProjectionTransform, Outcomes, Throws
    <3>. QED  BY <2>1, <2>3, <3>1, <3>2, <3>3, <3>4, <3>5 DEF TransformGlobalPlan
  <2>4. ASSUME UNCHANGED out
        PROVE  ProjectionInCostmap'
    BY <2>4 DEF ProjectionInCostmap
  <2>. QED  BY <2>3, <2>4 DEF Next, SetPlan, ResetPlan, vars
<1>. QED  BY <1>1, <1>2, SpecInv, PTL DEF Spec

(***************************************************************************)
(* What a successful call hands out is what the pruned plan starts with.   *)
(***************************************************************************)
THEOREM HandsOutFromHead == Spec => HandedOutFromHead
<1>. DEFINE FromHead ==
       out' # out /\ out'.kind = "near" =>
         LET here == ToPlan(out'.robot, out'.shift)
             m    == Len(out'.poses)
         IN  /\ m \in 1 .. Len(global_plan')
             /\ \A i \in 1 .. m : /\ out'.poses[i] = ToLocal(global_plan'[i], out'.shift)
                                  /\ ~ (Dist(global_plan'[i], here) > Extent)
             /\ m < Len(global_plan') => Dist(global_plan'[m + 1], here) > Extent
             /\ \A j \in DOMAIN global_plan :
                  Searched(j) => Dist(here, global_plan'[1]) <= Dist(here, global_plan[j])
<1>1. Inv /\ [Next]_vars => [FromHead]_vars
  <2>. SUFFICES ASSUME Inv, [Next]_vars PROVE FromHead
    OBVIOUS
  <2>1. ASSUME NEW c \in Call, ReturnNear(c)
        PROVE  FromHead
    <3>. DEFINE b == Begin(c)
                n == End(c) - Begin(c)
                g == Len(global_plan)
    <3>1. b \in 1 .. g /\ End(c) \in b .. g + 1 /\ g \in Nat
      BY <2>1, BeginInRange, EndInRange, LenProperties DEF Inv, TypeOK, ReturnNear
    <3>2. /\ out'.poses = LocalPoses(c) /\ out'.shift = c.shift /\ out'.robot = c.robot
          /\ LocalPoses(c) # <<>>
          /\ global_plan' = SubSeq(global_plan, b, g)
      BY <2>1 DEF ReturnNear, Return, Prune
    <3>3. LocalPoses(c) = [i \in 1 .. n |-> ToLocal(global_plan[b + i - 1], c.shift)]
      BY DEF LocalPoses
    <3>4. \A i \in b .. g : global_plan[i] \in Places
      BY <3>1, ElementOfSeq DEF Inv, TypeOK
    <3>. HIDE DEF b, g
    <3>5. /\ Len(global_plan') = g - b + 1
          /\ \A i \in 1 .. g - b + 1 : global_plan'[i] = global_plan[b + i - 1]
      BY <3>1, <3>2, <3>4, SubSeqProperties
    <3>6. n \in Nat /\ n <= g - b + 1
      BY <3>1 DEF b
    <3>. HIDE DEF n
    <3>7. LocalPoses(c) \in Seq(Point) /\ DOMAIN LocalPoses(c) = 1 .. n
      BY <2>1, <3>3, LocalPosesType DEF Inv, ReturnNear
    <3>8. Len(LocalPoses(c)) = n
      BY <3>6, <3>7, LenProperties
    <3>9. n >= 1
      BY <3>2, <3>6, <3>7, <3>8, EmptySeq
    <3>10. ASSUME NEW i \in 1 .. n
           PROVE  /\ LocalPoses(c)[i] = ToLocal(global_plan'[i], c.shift)
                  /\ ~ (Dist(global_plan'[i], ToPlan(c.robot, c.shift)) > Extent)
      <4>1. i \in 1 .. g - b + 1 /\ b + i - 1 \in Begin(c) .. End(c) - 1
        BY <3>1, <3>6 DEF b, n
      <4>2. global_plan'[i] = global_plan[b + i - 1]
        BY <3>5, <4>1
      <4>3. ~ (Dist(global_plan[b + i - 1], ToPlan(c.robot, c.shift)) > Extent)
        BY <2>1, <4>1, NearWithinExtent DEF Inv, ReturnNear
      <4>. QED  BY <3>3, <4>2, <4>3
    <3>11. Len(out'.poses) = n /\ n \in 1 .. Len(global_plan')
      BY <3>1, <3>2, <3>5, <3>6, <3>8, <3>9
    <3>. DEFINE here == ToPlan(c.robot, c.shift)
    <3>12. n < Len(global_plan') => Dist(global_plan'[n + 1], here) > Extent
      <4>. SUFFICES ASSUME n < Len(global_plan') PROVE Dist(global_plan'[n + 1], here) > Extent
        OBVIOUS
      <4>1. n + 1 \in 1 .. g - b + 1 /\ b + (n + 1) - 1 = End(c) /\ End(c) <= g
        <5>1. n = End(c) - b /\ n < g - b + 1
          BY <3>5 DEF b, n
        <5>2. b \in 1 .. g /\ End(c) \in b .. g + 1 /\ g \in Nat
          BY <3>1
        <5>. QED  BY <5>1, <5>2
      <4>2. Dist(global_plan[End(c)], here) > Extent
        BY <2>1, <4>1, EndInRange DEF Inv, ReturnNear, g
      <4>. QED  BY <3>5, <4>1, <4>2
    <3>13. global_plan'[1] = global_plan[Begin(c)]
      <4>1. 1 \in 1 .. g - b + 1 /\ b + 1 - 1 = Begin(c)
        BY <3>1 DEF b
      <4>. QED  BY <3>5, <4>1
    <3>14. DOMAIN global_plan = 1 .. Len(global_plan)
      BY LenProperties DEF Inv, TypeOK
    <3>15. ASSUME NEW j \in DOMAIN global_plan, Searched(j)
           PROVE  Dist(here, global_plan'[1]) <= Dist(here, global_plan[j])
      BY <2>1, <3>13, <3>14, <3>15, BeginInRange DEF Inv, ReturnNear
    <3>16. out'.robot = c.robot /\ out'.shift = c.shift
      BY <3>2
    <3>17. ToPlan(out'.robot, out'.shift) = here
      BY <3>16
    <3>. HIDE DEF here
    <3>. QED  BY <3>2, <3>10, <3>11, <3>12, <3>15, <3>16, <3>17 DEF here
  <2>2. ASSUME NEW c \in Call, NEW kind \in Outcomes \ {"near"}, NEW poses,
               Return(kind, c, poses)
        PROVE  FromHead
    BY <2>2 DEF Return
  <2>3. ASSUME NEW c \in Call, TransformGlobalPlan(c)
        PROVE  FromHead
    <3>. HIDE DEF FromHead
    <3>1. CASE ThrowNoPlan(c)
      BY <2>2, <3>1 DEF ThrowNoPlan, Outcomes, Throws
    <3>2. CASE ThrowNoRobotTransform(c)
      BY <2>2, <3>2 DEF ThrowNoRobotTransform, Outcomes, Throws
    <3>3. CASE ThrowNoPoseTransform(c)
      BY <2>2, <3>3 DEF ThrowNoPoseTransform, Outcomes, Throws
    <3>4. CASE ThrowNoProjectionTransform(c)
      BY <2>2, <3>4 DEF ThrowNoProjectionTransform, Outcomes, Throws
    <3>5. CASE ReturnProjection(c)
      BY <2>2, <3>5 DEF ReturnProjection, Outcomes
    <3>. QED  BY <2>1, <2>3, <3>1, <3>2, <3>3, <3>4, <3>5 DEF TransformGlobalPlan
  <2>4. ASSUME UNCHANGED out
        PROVE  FromHead
    BY <2>4
  <2>. HIDE DEF FromHead
  <2>. QED  BY <2>3, <2>4 DEF Next, SetPlan, ResetPlan, vars
<1>. QED  BY <1>1, SpecInv, PTL DEF Spec, HandedOutFromHead
=============================================================================
