------------------------ MODULE TrajectorizerProofs ------------------------
(***************************************************************************)
(* The trajectorizer's invariants, for all plans, parameters and           *)
(* geometries.                                                             *)
(***************************************************************************)
EXTENDS Trajectorizer, NumberLemmas, TLAPS, SequenceTheorems

Asked == [lin : Int, ang : Int]

LEMMA Parameters ==
  /\ MaxLin \in Nat \ {0} /\ MaxAng \in Nat \ {0} /\ LinDelta \in Nat /\ AngDelta \in Nat
  /\ Turn \in Nat \ {0} /\ CurveUnit \in Nat \ {0}
  /\ Lookahead \in Nat /\ RotateVel \in Nat /\ RotateMinAngle \in Nat
  /\ MinApproach \in Nat /\ MinRegulated \in Nat
  /\ GoalDistTol \in Nat \ {0} /\ Desired \in Nat \ {0} /\ MinRadius \in Nat \ {0}
<1>. QED  BY MotionAssumption, PursuitAssumption

-----------------------------------------------------------------------------
(***************************************************************************)
(* The motion model: what is applied is within the speed limits, and       *)
(* within the acceleration limits of a speed that is.                      *)
(***************************************************************************)
LEMMA IntegrateTwist ==
  ASSUME NEW prev \in Asked, NEW cmd \in Asked
  PROVE  Integrate(prev, cmd) \in Twists
<1>1. prev.lin \in Int /\ prev.ang \in Int /\ cmd.lin \in Int /\ cmd.ang \in Int
  BY DEF Asked
<1>2. \A t, c \in Int, d \in Nat : ClampCommand(t, c, d) \in Int
  BY DEF ClampCommand, Clamp
<1>3. \A v \in Int, m \in Nat : Clamp(v, -m, m) \in -m .. m
  BY DEF Clamp
<1>. QED  BY <1>1, <1>2, <1>3, Parameters DEF Integrate, Twists

LEMMA ClampWithin ==
  ASSUME NEW m \in Nat, NEW c \in -m .. m, NEW t \in Int, NEW d \in Nat, d > 0
  PROVE  Magnitude(Clamp(ClampCommand(t, c, d), -m, m) - c) <= d
<1>. QED  BY DEF Magnitude, Clamp, ClampCommand

LEMMA IntegrateWithin ==
  ASSUME NEW prev \in Twists, NEW cmd \in Asked
  PROVE  /\ Within(Integrate(prev, cmd).lin, prev.lin, LinDelta)
         /\ Within(Integrate(prev, cmd).ang, prev.ang, AngDelta)
<1>1. prev.lin \in -MaxLin .. MaxLin /\ prev.ang \in -MaxAng .. MaxAng
      /\ cmd.lin \in Int /\ cmd.ang \in Int
  BY DEF Asked, Twists
<1>2. LinDelta > 0 => Magnitude(Integrate(prev, cmd).lin - prev.lin) <= LinDelta
  BY <1>1, Parameters, ClampWithin DEF Integrate
<1>3. AngDelta > 0 => Magnitude(Integrate(prev, cmd).ang - prev.ang) <= AngDelta
  BY <1>1, Parameters, ClampWithin DEF Integrate
<1>. QED  BY <1>2, <1>3 DEF Within

(* A robot at rest that is asked to move moves. *)
LEMMA IntegrateMoves ==
  ASSUME NEW cmd \in Asked, cmd # Still
  PROVE  Integrate(Still, cmd) # Still
<1>1. cmd.lin \in Int /\ cmd.ang \in Int /\ (cmd.lin # 0 \/ cmd.ang # 0)
  BY DEF Asked, Still
<1>2. \A v \in Int, d \in Nat, m \in Nat \ {0} :
        v # 0 => Clamp(ClampCommand(v, 0, d), -m, m) # 0
  BY DEF Clamp, ClampCommand
<1>. QED  BY <1>1, <1>2, Parameters DEF Integrate, Still

-----------------------------------------------------------------------------
(***************************************************************************)
(* Pure pursuit asks for integers, and to move when it can.                *)
(***************************************************************************)
LEMMA NormalizeType ==
  ASSUME NEW a \in Int
  PROVE  Normalize(a) \in Int /\ (Normalize(a) # 0 => a # 0)
<1>1. a % Turn \in Int /\ (a = 0 => a % Turn = 0)
  BY Parameters
<1>2. a = 0 => Normalize(a) = 0
  BY <1>1, Parameters DEF Normalize
<1>. QED  BY <1>1, <1>2, Parameters DEF Normalize

LEMMA StopType ==
  ASSUME NEW angle \in Int
  PROVE  /\ MaxVelToStop(angle) \in Nat
         /\ AngDelta > 0 /\ angle # 0 => MaxVelToStop(angle) > 0
<1>. DEFINE n == 2 * AngDelta * Magnitude(angle)
            S == {r \in 0 .. n : r * r <= n}
<1>1. Magnitude(angle) \in Nat /\ (angle # 0 => Magnitude(angle) >= 1)
  BY DEF Magnitude
<1>2. n \in Nat
  BY <1>1, Parameters
<1>3. 0 \in S /\ (n >= 1 => 1 \in S)
  BY <1>2
<1>4. AngDelta > 0 /\ angle # 0 => n >= 1
  <2>1. \A a, b \in Nat : a >= 1 /\ b >= 1 => 2 * a * b >= 1
    OBVIOUS
  <2>. QED  BY <1>1, <2>1, Parameters
<1>5. MaxVelToStop(angle) = Max(S)
  BY DEF MaxVelToStop
<1>. HIDE DEF n
<1>6. S \subseteq 0 .. n /\ S # {}
  BY <1>3
<1>7. Max(S) \in S /\ \A y \in S : Max(S) >= y
  BY <1>2, <1>6, MaxIsGreatest
<1>8. Max(S) \in Nat
  BY <1>2, <1>6, <1>7
<1>9. 1 \in S => Max(S) >= 1
  BY <1>7
<1>. QED  BY <1>3, <1>4, <1>5, <1>8, <1>9

LEMMA RotateAsks ==
  ASSUME NEW angle \in Int, NEW ang \in Int
  PROVE  /\ RotateToHeading(angle, ang) \in Asked
         /\ CanMove /\ angle # 0 /\ Magnitude(ang) < AngDelta => RotateToHeading(angle, ang) # Still
<1>. DEFINE sign == IF angle > 0 THEN 1 ELSE -1
            w    == Clamp(sign * RotateVel, ang - AngDelta, ang + AngDelta)
            stop == MaxVelToStop(angle)
            turn == IF Magnitude(w) > stop THEN sign * stop ELSE w
<1>1. sign \in {1, -1} /\ stop \in Nat /\ (AngDelta > 0 /\ angle # 0 => stop > 0)
  BY StopType
<1>2. RotateToHeading(angle, ang) = [lin |-> 0, ang |-> turn]
  BY DEF RotateToHeading
<1>. HIDE DEF stop
<1>3. w \in Int
  BY <1>1, Parameters DEF Clamp
<1>4. RotateVel > 0 /\ AngDelta > 0 /\ Magnitude(ang) < AngDelta => w # 0
  BY <1>1, Parameters DEF Clamp, Magnitude
<1>. HIDE DEF sign, w
<1>5. turn \in Int /\ (w # 0 /\ stop > 0 => turn # 0)
  BY <1>1, <1>3
<1>. QED  BY <1>1, <1>2, <1>4, <1>5 DEF Asked, CanMove, Still

LEMMA CurvatureVelType ==
  ASSUME NEW v \in Nat, NEW c \in Int
  PROVE  CurvatureVel(v, c) \in Nat
<1>1. Magnitude(c) \in Nat
  BY DEF Magnitude
<1>2. MinRadius * Magnitude(c) \in Nat /\ v * CurveUnit \in Nat
  BY <1>1, Parameters
<1>3. MinRadius * Magnitude(c) > CurveUnit => MinRadius * Magnitude(c) \in Nat \ {0}
  BY <1>2, Parameters
<1>4. MinRadius * Magnitude(c) > CurveUnit =>
        (v * CurveUnit) \div (MinRadius * Magnitude(c)) \in Nat
  BY <1>2, <1>3, DivType
<1>. QED  BY <1>4 DEF CurvatureVel

LEMMA ApproachVelType ==
  ASSUME NEW v \in Nat, NEW d \in Nat
  PROVE  ApproachVel(v, d) \in Nat /\ (v > 0 /\ MinApproach > 0 => ApproachVel(v, d) > 0)
<1>1. v * d \in Nat /\ 4 * GoalDistTol \in Nat \ {0}
  BY Parameters
<1>2. (v * d) \div (4 * GoalDistTol) \in Nat
  BY <1>1, DivType
<1>3. (IF d <= GoalDistTol THEN 0 ELSE Least(v, (v * d) \div (4 * GoalDistTol))) \in Nat
  BY <1>2 DEF Least
<1>. QED  BY <1>3, Parameters DEF ApproachVel, Least, Greatest

LEMMA FollowAsks ==
  ASSUME NEW rp \in Poses, NEW carrot, carrot.at \in Places, NEW goal \in Poses
  PROVE  /\ FollowArc(rp, carrot, goal) \in Asked
         /\ CanMove => FollowArc(rp, carrot, goal) # Still
<1>. DEFINE c    == Curvature(rp, carrot.at)
            d    == Dist(rp.at, goal.at)
            sign == IF AllowReverse /\ ~ InFront(rp, carrot.at) THEN -1 ELSE 1
            u    == Greatest(CurvatureVel(Desired, c), MinRegulated)
            v    == ApplyConstraints(c, d, sign)
<1>1. rp.at \in Places /\ goal.at \in Places
  BY DEF Places
<1>2. c \in Int /\ d \in Nat
  BY <1>1, PursuitAssumption
<1>3. sign \in {1, -1}
  OBVIOUS
<1>4. FollowArc(rp, carrot, goal) = [lin |-> v, ang |-> TurnRate(v, c)]
  BY DEF FollowArc
<1>. HIDE DEF c, d, sign
<1>5. CurvatureVel(Desired, c) \in Nat
  BY <1>2, Parameters, CurvatureVelType
<1>6. u \in Nat /\ (MinRegulated > 0 => u > 0)
  BY <1>5, Parameters DEF Greatest
<1>7. v = sign * Least(Desired, ApproachVel(u, d))
  BY DEF ApplyConstraints
<1>. HIDE DEF u, v
<1>8. ApproachVel(u, d) \in Nat /\ (u > 0 /\ MinApproach > 0 => ApproachVel(u, d) > 0)
  BY <1>2, <1>6, ApproachVelType
<1>9. v \in Int /\ (u > 0 /\ MinApproach > 0 => v # 0)
  BY <1>3, <1>7, <1>8, Parameters DEF Least
<1>10. TurnRate(v, c) \in Int
  <2>1. v * c \in Int
    BY <1>2, <1>9
  <2>2. Magnitude(v * c) \in Nat
    BY <2>1 DEF Magnitude
  <2>3. Magnitude(v * c) \div CurveUnit \in Nat
    BY <2>2, Parameters, DivType
  <2>. QED  BY <2>3 DEF TurnRate
<1>. QED  BY <1>4, <1>6, <1>9, <1>10 DEF Asked, CanMove, Still

(***************************************************************************)
(* The carrot is a point of the world; one within the goal's tolerance is  *)
(* the goal, when the look-ahead distance is longer than that.             *)
(***************************************************************************)
LEMMA CarrotFacts ==
  ASSUME NEW p \in Plans, NEW rp \in Poses
  PROVE  /\ LookAheadPose(p, rp).at \in Places /\ LookAheadPose(p, rp).yaw \in Int
         /\ Dist(rp.at, LookAheadPose(p, rp).at) < Lookahead
              => LookAheadPose(p, rp) = p[Len(p)]
<1>. DEFINE far == {k \in DOMAIN p : Dist(rp.at, p[k].at) >= Lookahead}
            k == Min(far)
<1>1. p \in Seq(Poses) /\ p # <<>> /\ rp.at \in Places
  BY TrajectorizerAssumption DEF Places
<1>2. \A i \in DOMAIN p : p[i] \in Poses /\ p[i].at \in Places /\ p[i].yaw \in Int
                         /\ Dist(rp.at, p[i].at) \in Nat
  <2>. SUFFICES ASSUME NEW i \in DOMAIN p
                PROVE  p[i] \in Poses /\ p[i].at \in Places /\ p[i].yaw \in Int
                       /\ Dist(rp.at, p[i].at) \in Nat
    OBVIOUS
  <2>1. p[i] \in Poses
    BY <1>1
  <2>2. p[i].at \in Places
    BY <2>1 DEF Places
  <2>. QED  BY <1>1, <2>1, <2>2, MotionAssumption, PursuitAssumption
<1>3. CASE far = {}
  <2>1. LookAheadPose(p, rp) = p[Len(p)]
    BY <1>3 DEF LookAheadPose
  <2>2. Len(p) \in DOMAIN p
    BY <1>1
  <2>. QED  BY <1>2, <2>1, <2>2
<1>4. CASE far # {}
  <2>1. far \subseteq Nat
    BY <1>1
  <2>2. k \in far /\ \A j \in far : k <= j
    BY <1>4, <2>1, MinIsLeast
  <2>3. k \in DOMAIN p /\ Dist(rp.at, p[k].at) >= Lookahead
    BY <2>2
  <2>4. ASSUME k > 1
        PROVE  LET q == Leaves(rp.at, p[k - 1].at, p[k].at)
               IN  q \in Places /\ Dist(rp.at, q) = Lookahead
    <3>1. k \in 2 .. Len(p) /\ k - 1 \in DOMAIN p /\ ~ (k <= k - 1)
      BY <1>1, <2>3, <2>4
    <3>2. ~ (Dist(rp.at, p[k - 1].at) >= Lookahead)
      BY <2>2, <3>1
    <3>3. Dist(rp.at, p[k - 1].at) < Lookahead
      BY <1>2, <3>1, <3>2, Parameters
    <3>. QED  BY <1>1, <2>3, <3>1, <3>3, TrajectorizerAssumption
  <2>5. CASE UseInterpolation /\ k > 1
    <3>1. LookAheadPose(p, rp) = [at |-> Leaves(rp.at, p[k - 1].at, p[k].at), yaw |-> 0]
      BY <1>4, <2>5 DEF LookAheadPose
    <3>. HIDE DEF k
    <3>. QED  BY <2>4, <2>5, <3>1, Parameters
  <2>6. CASE ~ (UseInterpolation /\ k > 1)
    <3>1. LookAheadPose(p, rp) = p[k]
      BY <1>4, <2>6 DEF LookAheadPose
    <3>. HIDE DEF k
    <3>. QED  BY <1>2, <2>3, <3>1, Parameters
  <2>. QED  BY <2>5, <2>6
<1>. QED  BY <1>3, <1>4

-----------------------------------------------------------------------------
(***************************************************************************)
(* The invariant.  While it rolls out, a call is where its last pose says, *)
(* and its last command is what the next one accelerates from.             *)
(***************************************************************************)
RolloutInv ==
  /\ plan # <<>> => /\ current_rp = new_path[Len(new_path)]
                    /\ goal_distance = Dist(current_rp.at, Goal.at)
  /\ previous_cmd = IF cmds = <<>> THEN speed ELSE cmds[Len(cmds)]
  /\ pc = "rollout" => plan # <<>>

Inv == TypeOK /\ RolloutConsistent /\ RolloutInv

(* A pass of the loop. *)
Pass(d) == Continues /\ Extend(d)

LEMMA PassAsks ==
  ASSUME Inv, RotateToGoal \/ RotateToPath \/ Follow
  PROVE  \E d \in Asked : Pass(d) /\ (CanMove /\ Magnitude(speed.ang) < AngDelta => d # Still)
<1>1. path \in Plans /\ current_rp \in Poses /\ current_rp.at \in Places
      /\ current_rp.yaw \in Int /\ speed.ang \in Int
  <2>1. pc = "rollout"
    BY DEF RotateToGoal, RotateToPath, Follow, Continues
  <2>2. path \in Plans /\ current_rp \in Poses /\ speed \in [lin : Int, ang : Int]
    BY <2>1, TrajectorizerAssumption DEF Inv, TypeOK, RolloutConsistent, RolloutInv
  <2>. QED  BY <2>2, MotionAssumption DEF Places
<1>2. path[Len(path)] \in Poses /\ path[Len(path)].yaw \in Int
  <2>1. path \in Seq(Poses) /\ path # <<>>
    BY <1>1, TrajectorizerAssumption
  <2>2. path[Len(path)] \in Poses
    BY <2>1
  <2>. QED  BY <2>2, MotionAssumption
<1>3. Carrot.at \in Places /\ Carrot.yaw \in Int
      /\ (Dist(current_rp.at, Carrot.at) < Lookahead => Carrot = path[Len(path)])
  BY <1>1, CarrotFacts DEF Carrot
<1>4. CASE RotateToGoal
  <2>. DEFINE a == path[Len(path)].yaw - current_rp.yaw
              d == RotateToHeading(a, speed.ang)
  <2>1. a \in Int /\ Pass(d)
    BY <1>1, <1>2, <1>4 DEF RotateToGoal, Pass
  <2>2. Dist(current_rp.at, Carrot.at) < GoalDistTol
        /\ Magnitude(Normalize(Carrot.yaw - current_rp.yaw)) > RotateMinAngle
    BY <1>4 DEF RotateToGoal, ShouldRotateToGoalHeading
  <2>3. Dist(current_rp.at, Carrot.at) \in Nat
    BY <1>1, <1>3, PursuitAssumption
  <2>4. CanMove => Carrot = path[Len(path)]
    BY <1>3, <2>2, <2>3, Parameters DEF CanMove
  <2>5. CanMove => Magnitude(Normalize(a)) > RotateMinAngle
    BY <2>2, <2>4
  <2>6. Normalize(a) \in Int /\ (Normalize(a) # 0 => a # 0)
    BY <2>1, NormalizeType
  <2>7. CanMove => a # 0
    BY <2>5, <2>6, Parameters DEF Magnitude
  <2>8. d \in Asked /\ (CanMove /\ a # 0 /\ Magnitude(speed.ang) < AngDelta => d # Still)
    BY <1>1, <2>1, RotateAsks
  <2>. QED  BY <2>1, <2>7, <2>8
<1>5. CASE RotateToPath
  <2>. DEFINE a == AngleToPath(current_rp, Carrot)
              d == RotateToHeading(a, speed.ang)
  <2>1. Bearing(current_rp.at, Carrot.at) \in Int
    BY <1>1, <1>3, PursuitAssumption
  <2>2. a \in Int /\ Pass(d)
    BY <1>1, <1>5, <2>1, NormalizeType DEF RotateToPath, Pass, AngleToPath
  <2>3. Magnitude(a) > RotateMinAngle
    BY <1>5 DEF RotateToPath, ShouldRotateToPath
  <2>. HIDE DEF a
  <2>4. a # 0
    BY <2>2, <2>3, Parameters DEF Magnitude
  <2>5. d \in Asked /\ (CanMove /\ a # 0 /\ Magnitude(speed.ang) < AngDelta => d # Still)
    BY <1>1, <2>2, RotateAsks
  <2>. QED  BY <2>2, <2>4, <2>5
<1>6. CASE Follow
  <2>. DEFINE d == FollowArc(current_rp, Carrot, path[Len(path)])
  <2>1. Pass(d)
    BY <1>6 DEF Follow, Pass
  <2>2. d \in Asked /\ (CanMove => d # Still)
    BY <1>1, <1>2, <1>3, FollowAsks
  <2>. QED  BY <2>1, <2>2
<1>. QED  BY <1>4, <1>5, <1>6

(* What a pass does: one applied command and the pose it leads to. *)
LEMMA PassEffect ==
  ASSUME Inv, NEW d \in Asked, Pass(d)
  PROVE  \E t \in Twists, q \in Poses :
           /\ t = Integrate(previous_cmd, d) /\ q = Advance(new_path[Len(new_path)], t)
           /\ cmds' = Append(cmds, t) /\ new_path' = Append(new_path, q)
           /\ previous_cmd' = t /\ current_rp' = q /\ goal_distance' = Dist(q.at, Goal.at)
           /\ pc' = pc /\ path' = path /\ UNCHANGED inputs
           /\ pc = "rollout" /\ path = plan /\ plan # <<>>
           /\ Len(cmds) < MaxSteps /\ goal_distance > goal_tolerance
<1>1. Continues /\ Extend(d)
  BY DEF Pass
<1>2. pc = "rollout" /\ path = plan /\ plan # <<>> /\ current_rp = new_path[Len(new_path)]
  BY <1>1 DEF Inv, RolloutConsistent, RolloutInv, Continues
<1>3. previous_cmd \in Asked
  <2>1. previous_cmd \in Twists \union Speeds
    BY DEF Inv, TypeOK
  <2>2. Twists \subseteq Asked
    BY Parameters DEF Twists, Asked
  <2>. QED  BY <2>1, <2>2, TrajectorizerAssumption DEF Asked
<1>4. Applied(d) \in Twists
  BY <1>3, IntegrateTwist DEF Applied
<1>5. Reached(d) \in Poses
  BY <1>4, MotionAssumption DEF Reached, Inv, TypeOK
<1>6. Applied(d) = Integrate(previous_cmd, d)
      /\ Reached(d) = Advance(new_path[Len(new_path)], Applied(d))
  BY <1>2 DEF Applied, Reached
<1>7. goal_distance' = Dist(Reached(d).at, Goal.at)
  BY <1>1, <1>2 DEF Extend, DistanceToGo, Goal
<1>. QED  BY <1>1, <1>2, <1>4, <1>5, <1>6, <1>7 DEF Extend, Continues

LEMMA Appended ==
  ASSUME NEW S, NEW s \in Seq(S), NEW e \in S
  PROVE  /\ Append(s, e) \in Seq(S) /\ Append(s, e) # <<>>
         /\ Len(Append(s, e)) = Len(s) + 1 /\ Append(s, e)[Len(s) + 1] = e
         /\ \A i \in 1 .. Len(s) : Append(s, e)[i] = s[i]
<1>. QED  OBVIOUS

-----------------------------------------------------------------------------
(***************************************************************************)
(* The invariant holds initially and every step keeps it.                  *)
(***************************************************************************)
LEMMA InitInv == Init => Inv
<1>. SUFFICES ASSUME Init
              PROVE  Inv
  OBVIOUS
<1>1. robot \in Poses /\ new_path = <<robot>> /\ cmds = <<>>
  BY TrajectorizerAssumption DEF Init
<1>2. <<robot>> \in Seq(Poses) /\ Len(<<robot>>) = 1 /\ <<robot>>[1] = robot
  BY <1>1
<1>3. <<>> \in Seq(Twists) /\ <<>> \in Seq(Poses) /\ Len(<<>>) = 0 /\ DOMAIN <<>> = {}
  OBVIOUS
<1>4. TypeOK
  BY <1>1, <1>2, <1>3, Parameters, TrajectorizerAssumption DEF Init, TypeOK
<1>5. RolloutConsistent
  BY <1>1, <1>2, <1>3 DEF Init, RolloutConsistent, Returned
<1>6. RolloutInv
  BY <1>1 DEF Init, RolloutInv
<1>. QED  BY <1>4, <1>5, <1>6 DEF Inv

LEMMA CallInv ==
  ASSUME Inv, NEW p \in Plans, NEW r \in Robots, NEW s \in Speeds, NEW tol \in CheckerTols,
         Call(p, r, s, tol)
  PROVE  Inv'
<1>1. p \in Seq(Poses) /\ p # <<>> /\ r \in Poses
  BY TrajectorizerAssumption
<1>2. p[Len(p)] \in Poses /\ Dist(r.at, p[Len(p)].at) \in Nat
  <2>1. p[Len(p)] \in Poses
    BY <1>1
  <2>. QED  BY <1>1, <2>1, PursuitAssumption DEF Places
<1>3. <<r>> \in Seq(Poses) /\ Len(<<r>>) = 1 /\ <<r>>[1] = r
  BY <1>1
<1>4. <<>> \in Seq(Twists) /\ Len(<<>>) = 0 /\ DOMAIN <<>> = {}
  OBVIOUS
<1>5. (IF tol > 0 THEN tol ELSE GoalDistTol) \in Nat \ {0}
  <2>1. tol \in Nat
    BY TrajectorizerAssumption
  <2>. QED  BY <2>1, Parameters
<1>6. TypeOK'
  BY <1>1, <1>2, <1>3, <1>4, <1>5, TrajectorizerAssumption DEF Call, TypeOK
<1>7. RolloutConsistent'
  BY <1>3, <1>4 DEF Call, RolloutConsistent, Returned
<1>8. RolloutInv'
  BY <1>1, <1>3 DEF Call, RolloutInv, Goal
<1>. QED  BY <1>6, <1>7, <1>8 DEF Inv

LEMMA PassInv ==
  ASSUME Inv, NEW d \in Asked, Pass(d)
  PROVE  Inv'
<1>1. PICK t \in Twists, q \in Poses :
        /\ q = Advance(new_path[Len(new_path)], t)
        /\ cmds' = Append(cmds, t) /\ new_path' = Append(new_path, q)
        /\ previous_cmd' = t /\ current_rp' = q /\ goal_distance' = Dist(q.at, Goal.at)
        /\ pc' = pc /\ path' = path /\ UNCHANGED inputs
        /\ pc = "rollout" /\ path = plan /\ plan # <<>>
        /\ Len(cmds) < MaxSteps
  BY PassEffect
<1>2. cmds \in Seq(Twists) /\ new_path \in Seq(Poses) /\ Len(new_path) = Len(cmds) + 1
  BY DEF Inv, TypeOK, RolloutConsistent
<1>3. cmds' \in Seq(Twists) /\ cmds' # <<>> /\ Len(cmds') = Len(cmds) + 1
      /\ cmds'[Len(cmds) + 1] = t /\ \A i \in 1 .. Len(cmds) : cmds'[i] = cmds[i]
  BY <1>1, <1>2, Appended
<1>4. new_path' \in Seq(Poses) /\ Len(new_path') = Len(new_path) + 1
      /\ new_path'[Len(new_path) + 1] = q
      /\ \A i \in 1 .. Len(new_path) : new_path'[i] = new_path[i]
  BY <1>1, <1>2, Appended
<1>5. goal_distance' \in Nat
  <2>1. plan \in Seq(Poses) /\ plan # <<>>
    BY <1>1, TrajectorizerAssumption DEF Inv, TypeOK
  <2>2. Goal \in Poses
    BY <2>1 DEF Goal
  <2>. QED  BY <1>1, <2>2, PursuitAssumption DEF Places
<1>6. TypeOK'
  <2>1. Len(cmds') <= MaxSteps
    BY <1>1, <1>2, <1>3, TrajectorizerAssumption
  <2>2. previous_cmd' \in Twists \union Speeds
    BY <1>1
  <2>. QED  BY <1>1, <1>3, <1>4, <1>5, <2>1, <2>2 DEF Inv, TypeOK, inputs
<1>7. RolloutConsistent'
  <2>1. Len(new_path') = Len(cmds') + 1 /\ new_path'[1] = robot'
    <3>1. 1 \in 1 .. Len(new_path) /\ new_path[1] = robot
      BY <1>2 DEF Inv, RolloutConsistent
    <3>. QED  BY <1>1, <1>2, <1>3, <1>4, <3>1 DEF inputs
  <2>2. ASSUME NEW i \in DOMAIN cmds'
        PROVE  new_path'[i + 1] = Advance(new_path'[i], cmds'[i])
    <3>1. i \in 1 .. Len(cmds) + 1
      BY <1>3
    <3>2. CASE i = Len(cmds) + 1
      <4>1. i \in 1 .. Len(new_path) /\ i = Len(new_path)
        BY <1>2, <3>1, <3>2
      <4>. QED  BY <1>1, <1>2, <1>3, <1>4, <3>2, <4>1
    <3>3. CASE i # Len(cmds) + 1
      <4>1. i \in 1 .. Len(cmds) /\ i \in DOMAIN cmds
            /\ i \in 1 .. Len(new_path) /\ i + 1 \in 1 .. Len(new_path)
        BY <1>2, <3>1, <3>3
      <4>2. new_path[i + 1] = Advance(new_path[i], cmds[i])
        BY <4>1 DEF Inv, RolloutConsistent
      <4>. QED  BY <1>3, <1>4, <4>1, <4>2
    <3>. QED  BY <3>2, <3>3
  <2>3. (pc = "rollout" => path = plan)' /\ ~ Returned'
    BY <1>1 DEF inputs, Returned
  <2>. QED  BY <2>1, <2>2, <2>3 DEF RolloutConsistent
<1>8. RolloutInv'
  <2>1. Goal' = Goal
    BY <1>1 DEF Goal, inputs
  <2>2. Len(new_path') = Len(new_path) + 1
    BY <1>4
  <2>. QED  BY <1>1, <1>3, <1>4, <2>1, <2>2 DEF RolloutInv, inputs
<1>. QED  BY <1>6, <1>7, <1>8 DEF Inv

LEMMA ReturnInv == ASSUME Inv, Return PROVE Inv'
<1>1. TypeOK'
  BY DEF Inv, TypeOK, Return, inputs, rollout
<1>2. RolloutConsistent'
  BY DEF Inv, RolloutConsistent, Returned, Return, inputs, rollout
<1>3. RolloutInv'
  BY DEF Inv, RolloutInv, Return, inputs, rollout, Goal
<1>. QED  BY <1>1, <1>2, <1>3 DEF Inv

LEMMA StutterInv == ASSUME Inv, UNCHANGED vars PROVE Inv'
<1>. QED  BY DEF Inv, TypeOK, RolloutConsistent, RolloutInv, Returned, Goal, vars, inputs, rollout

(* Every step is a call, a pass of the loop, a return or a stutter. *)
LEMMA Steps ==
  ASSUME Inv, [Next]_vars
  PROVE  \/ \E p \in Plans, r \in Robots, s \in Speeds, tol \in CheckerTols : Call(p, r, s, tol)
         \/ \E d \in Asked : Pass(d) /\ (CanMove /\ Magnitude(speed.ang) < AngDelta => d # Still)
         \/ Return
         \/ UNCHANGED vars
<1>1. CASE RotateToGoal \/ RotateToPath \/ Follow
  BY <1>1, PassAsks
<1>. QED  BY <1>1 DEF Next

LEMMA NextInv == ASSUME Inv, [Next]_vars PROVE Inv'
<1>. QED  BY Steps, CallInv, PassInv, ReturnInv, StutterInv

THEOREM InvAlways == Spec => []Inv
<1>1. Inv /\ [Next]_vars => Inv'
  BY NextInv
<1>. QED  BY <1>1, InitInv, PTL DEF Spec

(***************************************************************************)
(* A rollout has at most MaxSteps commands, and none of them is beyond the *)
(* robot's speed limits, whatever speed it reported                        *)
(* (motion_model.hpp:153-190, path_trajectorizer.cpp:325-328).             *)
(***************************************************************************)
THEOREM TypeCorrect == Spec => []TypeOK
<1>1. Inv => TypeOK
  BY DEF Inv
<1>. QED  BY <1>1, InvAlways, PTL

(***************************************************************************)
(* The poses returned in the place of the plan are the ones the commands   *)
(* lead through from the robot's pose on, one more than commands           *)
(* (path_trajectorizer.cpp:389-413).                                       *)
(***************************************************************************)
THEOREM RolloutFollowsCommands == Spec => []RolloutConsistent
<1>1. Inv => RolloutConsistent
  BY DEF Inv
<1>. QED  BY <1>1, InvAlways, PTL

-----------------------------------------------------------------------------
(***************************************************************************)
(* The invariants about all commands of a rollout so far.  Each holds with *)
(* no command, and a pass adds one to a rollout that Inv describes.        *)
(***************************************************************************)
LEMMA CallStarts ==
  ASSUME NEW p \in Plans, NEW r \in Robots, NEW s \in Speeds, NEW tol \in CheckerTols,
         Call(p, r, s, tol)
  PROVE  cmds' = <<>> /\ new_path' = <<r>> /\ ~ Returned'
<1>. QED  BY DEF Call, Returned

LEMMA PassAppends ==
  ASSUME Inv, NEW d \in Asked, Pass(d)
  PROVE  LET n == Len(cmds)
             t == Integrate(previous_cmd, d)
         IN  /\ Len(cmds') = n + 1 /\ cmds'[n + 1] = t /\ t \in Twists
             /\ \A i \in 1 .. n : cmds'[i] = cmds[i]
             /\ n # 0 => previous_cmd = cmds[n] /\ cmds[n] \in Twists
             /\ n = 0 => previous_cmd = speed
             /\ n \in Nat /\ cmds' \in Seq(Twists)
<1>1. cmds \in Seq(Twists) /\ previous_cmd = IF cmds = <<>> THEN speed ELSE cmds[Len(cmds)]
  BY DEF Inv, TypeOK, RolloutInv
<1>2. PICK t \in Twists : t = Integrate(previous_cmd, d) /\ cmds' = Append(cmds, t)
  BY PassEffect
<1>3. cmds' \in Seq(Twists) /\ Len(cmds') = Len(cmds) + 1 /\ cmds'[Len(cmds) + 1] = t
      /\ \A i \in 1 .. Len(cmds) : cmds'[i] = cmds[i]
  BY <1>1, <1>2, Appended
<1>4. Len(cmds) \in Nat /\ (Len(cmds) = 0 <=> cmds = <<>>)
      /\ (Len(cmds) # 0 => cmds[Len(cmds)] \in Twists)
  BY <1>1
<1>. QED  BY <1>1, <1>2, <1>3, <1>4

LEMMA AccelerationsPass ==
  ASSUME Inv, AccelerationsInLimits, NEW d \in Asked, Pass(d)
  PROVE  AccelerationsInLimits'
<1>. DEFINE n == Len(cmds)
            t == Integrate(previous_cmd, d)
            InLimits(c, prev) ==
              prev \in Twists =>
                Within(c.lin, prev.lin, LinDelta) /\ Within(c.ang, prev.ang, AngDelta)
<1>1. n \in Nat /\ Len(cmds') = n + 1 /\ cmds'[n + 1] = t /\ cmds' \in Seq(Twists)
      /\ (n # 0 => previous_cmd = cmds[n]) /\ (n = 0 => previous_cmd = speed)
      /\ \A i \in 1 .. n : cmds'[i] = cmds[i]
  BY PassAppends
<1>2. speed' = speed
  BY PassEffect DEF inputs
<1>3. InLimits(t, previous_cmd)
  BY IntegrateWithin
<1>4. \A i \in 1 .. n : InLimits(cmds[i], IF i = 1 THEN speed ELSE cmds[i - 1])
  <2>1. DOMAIN cmds = 1 .. n
    BY DEF Inv, TypeOK
  <2>. SUFFICES ASSUME NEW i \in 1 .. n
                PROVE  InLimits(cmds[i], IF i = 1 THEN speed ELSE cmds[i - 1])
    OBVIOUS
  <2>2. i \in DOMAIN cmds
    BY <2>1
  <2>. QED  BY <2>2, Zenon DEF AccelerationsInLimits
<1>5. DOMAIN cmds' = 1 .. n + 1
  BY <1>1
<1>. HIDE DEF n, t, InLimits
<1>6. ASSUME NEW i \in 1 .. n + 1
      PROVE  InLimits(cmds'[i], IF i = 1 THEN speed' ELSE cmds'[i - 1])
  <2>1. CASE i = n + 1
    <3>1. i # 1 => n \in 1 .. n /\ i - 1 = n /\ n # 0
      BY <1>1, <2>1
    <3>2. i = 1 => n = 0
      BY <1>1, <2>1
    <3>3. (IF i = 1 THEN speed' ELSE cmds'[i - 1]) = previous_cmd
      BY <1>1, <1>2, <3>1, <3>2
    <3>. QED  BY <1>1, <1>3, <2>1, <3>3
  <2>2. CASE i # n + 1
    <3>1. i \in 1 .. n /\ (i # 1 => i - 1 \in 1 .. n)
      BY <1>1, <2>2
    <3>2. (IF i = 1 THEN speed' ELSE cmds'[i - 1]) = IF i = 1 THEN speed ELSE cmds[i - 1]
      BY <1>1, <1>2, <3>1
    <3>. QED  BY <1>1, <1>4, <3>1, <3>2
  <2>. QED  BY <2>1, <2>2
<1>. QED  BY <1>5, <1>6 DEF AccelerationsInLimits, InLimits

(***************************************************************************)
(* No command asks for more acceleration than the robot has, from a        *)
(* reported speed that it may have on (motion_model.hpp:67-77,             *)
(* path_trajectorizer.cpp:389-394).                                        *)
(***************************************************************************)
THEOREM AccelerationsLimited == Spec => []AccelerationsInLimits
<1>1. Init => AccelerationsInLimits
  BY DEF Init, AccelerationsInLimits
<1>2. Inv /\ AccelerationsInLimits /\ [Next]_vars => AccelerationsInLimits'
  <2>. SUFFICES ASSUME Inv, AccelerationsInLimits, [Next]_vars
                PROVE  AccelerationsInLimits'
    OBVIOUS
  <2>1. CASE \E p \in Plans, r \in Robots, s \in Speeds, tol \in CheckerTols : Call(p, r, s, tol)
    BY <2>1, CallStarts DEF AccelerationsInLimits
  <2>2. CASE Return \/ UNCHANGED vars
    BY <2>2 DEF AccelerationsInLimits, Return, vars, inputs, rollout
  <2>. QED  BY <2>1, <2>2, Steps, AccelerationsPass
<1>. QED  BY <1>1, <1>2, InvAlways, PTL DEF Spec

LEMMA StopsPass ==
  ASSUME Inv, StopsAtGoal, NEW d \in Asked, Pass(d)
  PROVE  StopsAtGoal'
<1>1. PICK q \in Poses :
        /\ new_path' = Append(new_path, q) /\ pc' = pc /\ UNCHANGED inputs
        /\ pc = "rollout" /\ plan # <<>> /\ goal_distance > goal_tolerance
  BY PassEffect
<1>2. new_path \in Seq(Poses) /\ Len(new_path) \in Nat
  BY DEF Inv, TypeOK
<1>3. Len(new_path') = Len(new_path) + 1
      /\ \A i \in 1 .. Len(new_path) : new_path'[i] = new_path[i]
  BY <1>1, <1>2, Appended
<1>4. Goal' = Goal /\ goal_tolerance' = goal_tolerance /\ ~ Returned'
  BY <1>1 DEF Goal, inputs, Returned
<1>5. Dist(new_path[Len(new_path)].at, Goal.at) > goal_tolerance
  BY <1>1 DEF Inv, RolloutInv
<1>6. \A i \in 1 .. Len(new_path) - 1 : Dist(new_path[i].at, Goal.at) > goal_tolerance
  BY <1>1 DEF StopsAtGoal
<1>7. ASSUME NEW i \in 1 .. Len(new_path') - 1
      PROVE  Dist(new_path'[i].at, Goal'.at) > goal_tolerance'
  <2>1. i \in 1 .. Len(new_path) /\ (i # Len(new_path) => i \in 1 .. Len(new_path) - 1)
    BY <1>2, <1>3
  <2>. QED  BY <1>3, <1>4, <1>5, <1>6, <2>1
<1>. QED  BY <1>4, <1>7 DEF StopsAtGoal

LEMMA StopsReturn ==
  ASSUME Inv, StopsAtGoal, Return
  PROVE  StopsAtGoal'
<1>1. pc = "rollout" /\ plan # <<>> /\ UNCHANGED <<inputs, rollout>>
  BY DEF Return, Inv, RolloutInv
<1>2. ~ (goal_distance > goal_tolerance) \/ ~ (Len(cmds) < MaxSteps)
  BY <1>1 DEF Return, Continues
<1>3. cmds \in Seq(Twists) /\ Len(cmds) <= MaxSteps /\ MaxSteps \in Nat
      /\ goal_distance \in Nat /\ goal_tolerance \in Nat
  BY TrajectorizerAssumption DEF Inv, TypeOK
<1>4. Len(cmds) \in Nat
  BY <1>3
<1>5. goal_distance <= goal_tolerance \/ Len(cmds) = MaxSteps
  BY <1>2, <1>3, <1>4
<1>6. goal_distance = Dist(new_path[Len(new_path)].at, Goal.at)
  BY <1>1 DEF Inv, RolloutInv
<1>. QED  BY <1>1, <1>5, <1>6 DEF StopsAtGoal, Goal, inputs, rollout

(***************************************************************************)
(* The rollout goes on until it is within tolerance of the goal, no        *)
(* further, or for MaxSteps commands (path_trajectorizer.cpp:325-328,      *)
(* 403-404).                                                               *)
(***************************************************************************)
THEOREM StopsWhenThere == Spec => []StopsAtGoal
<1>1. Init => StopsAtGoal
  BY DEF Init, StopsAtGoal
<1>2. Inv /\ StopsAtGoal /\ [Next]_vars => StopsAtGoal'
  <2>. SUFFICES ASSUME Inv, StopsAtGoal, [Next]_vars
                PROVE  StopsAtGoal'
    OBVIOUS
  <2>1. ASSUME NEW p \in Plans, NEW r \in Robots, NEW s \in Speeds, NEW tol \in CheckerTols,
               Call(p, r, s, tol)
        PROVE  StopsAtGoal'
    <3>1. new_path' = <<r>> /\ ~ Returned'
      BY <2>1, CallStarts
    <3>2. 1 .. Len(new_path') - 1 = {}
      BY <3>1
    <3>. QED  BY <3>1, <3>2 DEF StopsAtGoal
  <2>2. CASE UNCHANGED vars
    BY <2>2 DEF StopsAtGoal, Returned, Goal, vars, inputs, rollout
  <2>. QED  BY <2>1, <2>2, Steps, StopsPass, StopsReturn
<1>. QED  BY <1>1, <1>2, InvAlways, PTL DEF Spec

LEMMA NeverStuckPass ==
  ASSUME Inv, NeverStuck, NEW d \in Asked, Pass(d),
         CanMove /\ Magnitude(speed.ang) < AngDelta => d # Still
  PROVE  NeverStuck'
<1>. DEFINE n == Len(cmds)
<1>1. n \in Nat /\ Len(cmds') = n + 1 /\ cmds'[n + 1] = Integrate(previous_cmd, d)
      /\ (n # 0 => previous_cmd = cmds[n])
      /\ \A i \in 1 .. n : cmds'[i] = cmds[i]
  BY PassAppends
<1>2. speed' = speed
  BY PassEffect DEF inputs
<1>. HIDE DEF n
<1>3. ASSUME CanMove, Magnitude(speed.ang) < AngDelta, NEW i \in 1 .. Len(cmds') - 1
      PROVE  cmds'[i] # Still \/ cmds'[i + 1] # Still
  <2>1. i \in 1 .. n
    BY <1>1
  <2>2. CASE i = n
    <3>1. n # 0 /\ cmds'[n] = previous_cmd
      BY <1>1, <2>1, <2>2
    <3>2. previous_cmd = Still => cmds'[n + 1] # Still
      BY <1>1, <1>3, IntegrateMoves
    <3>. QED  BY <2>2, <3>1, <3>2
  <2>3. CASE i # n
    <3>1. i \in 1 .. n - 1 /\ i + 1 \in 1 .. n
      BY <1>1, <2>1, <2>3
    <3>. QED  BY <1>1, <1>3, <2>1, <3>1 DEF NeverStuck, n
  <2>. QED  BY <2>2, <2>3
<1>. QED  BY <1>2, <1>3 DEF NeverStuck, CanMove

(***************************************************************************)
(* When the robot turns more slowly than one step can stop, no rollout     *)
(* stands still for two steps in a row: pure pursuit always asks for a     *)
(* motion, and a robot at rest follows it                                  *)
(* (regulated_pure_pursuit.hpp:72-90, 181-196, 278-286,                    *)
(* motion_model.hpp:67-77).                                                *)
(***************************************************************************)
THEOREM RolloutNeverStuck == Spec => []NeverStuck
<1>1. Init => NeverStuck
  <2>1. cmds = <<>> => 1 .. Len(cmds) - 1 = {}
    OBVIOUS
  <2>. QED  BY <2>1 DEF Init, NeverStuck
<1>2. Inv /\ NeverStuck /\ [Next]_vars => NeverStuck'
  <2>. SUFFICES ASSUME Inv, NeverStuck, [Next]_vars
                PROVE  NeverStuck'
    OBVIOUS
  <2>1. CASE \E p \in Plans, r \in Robots, s \in Speeds, tol \in CheckerTols : Call(p, r, s, tol)
    <3>1. cmds' = <<>>
      BY <2>1, CallStarts
    <3>2. 1 .. Len(cmds') - 1 = {}
      BY <3>1
    <3>. QED  BY <3>2 DEF NeverStuck
  <2>2. CASE Return \/ UNCHANGED vars
    BY <2>2 DEF NeverStuck, CanMove, Return, vars, inputs, rollout
  <2>. QED  BY <2>1, <2>2, Steps, NeverStuckPass
<1>. QED  BY <1>1, <1>2, InvAlways, PTL DEF Spec
=============================================================================
