--------------------------- MODULE SocialCritics ---------------------------
(***************************************************************************)
(* The residuals the optimizer minimises, for one step of a prediction:    *)
(* where the robot is, which way it faces, the velocity c of the step and  *)
(* the people as predicted.  Weights are taken as one.  An exponential     *)
(* that decays with the distance is 2 near by and 1 farther away, a        *)
(* softplus is positive and grows with its argument when that is positive, *)
(* and a logarithm or a root is its argument: what is kept is who is paid  *)
(* for, when a residual is zero, and which of two is larger.               *)
(***************************************************************************)
EXTENDS AgentForces

Undefined == -1   \* a residual that is not a number; the others are not negative

SquareDist(p, q) == Dot(Minus(p, q), Minus(p, q))

Decay(d2) == IF d2 <= Reach THEN 2 ELSE 1

Softplus(x) == IF x > 0 THEN x + 1 ELSE 1

(* The difference of two yaws in quarter turns, brought into (-pi, pi].    *)
Wrapped(yaw) == IF yaw % 4 = 3 THEN -1 ELSE yaw % 4

Places(agents) == {s \in 1 .. 3 : Valid(agents[s])}

-----------------------------------------------------------------------------
(* Distance: to the last pose of the path (path follow) or to the step's   *)
(* own (path align).                                                       *)
DistanceCost(robot, point) == SquareDist(robot.at, point)

GoalAlignCost(robot, yaw) == Wrapped(yaw - robot.yaw) * Wrapped(yaw - robot.yaw)

(* Logarithmic in the distance to the global goal, everywhere. *)
GoalProximityCost(robot, goal) == SquareDist(robot.at, goal)

VelocityCost(desired, c, in_horizon) ==
  IF in_horizon THEN (desired - c.v) * (desired - c.v) ELSE 0

VelocityFeasibilityCost(c, before) ==
  (c.v - before.v) * (c.v - before.v) + (c.w - before.w) * (c.w - before.w)

-----------------------------------------------------------------------------
(* Without the rollout's safeguard: driving at half a metre per second     *)
(* straight at somebody who stands gives an interaction of length zero.    *)
SocialForce(me, other) == PairForce(Interaction(me, other), Apart(me, other))

Size(f) == Dot(f, f)

(* On the robot by all people, and on each of them by the robot.           *)
SocialWorkCost(robot, c, agents) ==
  LET me     == AsAgent(robot, c)
      On(s)  == SocialForce(me, agents[s])
      By(s)  == SocialForce(agents[s], me)
      OnX(s) == On(s)[1]   OnY(s) == On(s)[2]   Work(s) == Size(By(s))
  IN  IF \E s \in Places(agents) : On(s) = NaN \/ By(s) = NaN THEN Undefined
      ELSE Size(<<MapThenSumSet(OnX, Places(agents)), MapThenSumSet(OnY, Places(agents))>>)
             + MapThenSumSet(Work, Places(agents))

(* Exponential in the distance to everybody. *)
ProxemicsCost(robot, agents) ==
  LET Nearness(s) == Decay(SquareDist(robot.at, agents[s].at))
  IN  MapThenSumSet(Nearness, Places(agents))

-----------------------------------------------------------------------------
Moving(a) == a.v # <<0, 0>>   \* lv > 0.05

Nobody == [who |-> 0, d2 |-> 99990000]   \* closest_index -1, 9999 square metres

\* Mutant: the distance is taken over from people who stand as well.
LookStanding(robot, agents, best, s) ==
  LET d2 == SquareDist(agents[s].at, robot.at)
  IN  IF Valid(agents[s]) /\ d2 < best.d2
      THEN [who |-> IF Moving(agents[s]) THEN s ELSE best.who, d2 |-> d2] ELSE best

(* One pass of the loop that looks for the closest moving person. *)
Look(robot, agents, best, s) ==
  LET d2 == SquareDist(agents[s].at, robot.at)
  IN  IF Valid(agents[s]) /\ d2 < best.d2 /\ Moving(agents[s])
      THEN [who |-> s, d2 |-> d2] ELSE best

Closest(robot, agents) ==
  Look(robot, agents, Look(robot, agents, Look(robot, agents, Nobody, 1), 2), 3)

(* Facing the person, and facing where the person goes. *)
AnglePenalty(robot, a) ==
  Decay(SquareDist(a.at, robot.at)) *
    (Softplus(Dot(Minus(a.at, robot.at), Ahead[robot.yaw])) +
     Softplus(Dot(Direction(a.v), Ahead[robot.yaw])))

(* Zero unless the closest moving person is within two metres. *)
AgentAngleCost(robot, agents) ==
  LET closest == Closest(robot, agents)
  IN  IF closest.who = 0 \/ closest.d2 > 40000 THEN 0
      ELSE AnglePenalty(robot, agents[closest.who])

(* Driving across the person's way, and turning in front of the person.    *)
CrossingPenalty(robot, c, a) ==
  LET across == Cross(Ahead[robot.yaw], Direction(a.v))
      side   == Cross(Minus(a.at, robot.at), Direction(a.v))
  IN  Decay(SquareDist(a.at, robot.at)) *
        (c.v * across * across + Softplus(side * c.w) * across * across)

(* Zero unless the closest moving person is within four metres. *)
CrossingCost(robot, c, agents) ==
  LET closest == Closest(robot, agents)
  IN  IF closest.who = 0 \/ closest.d2 > 160000 THEN 0
      ELSE CrossingPenalty(robot, c, agents[closest.who])
=============================================================================
