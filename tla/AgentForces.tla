---------------------------- MODULE AgentForces ----------------------------
(***************************************************************************)
(* The social force between the robot and a person, and the step by which  *)
(* the optimizer predicts both (update_state.hpp).                         *)
(*                                                                         *)
(* Lengths are centimetres, speeds tenths of m/s and a step is 0.1 s, so a *)
(* speed moves as many centimetres in a step.  A direction is one of the   *)
(* eight of the grid, a yaw a number of quarter turns.  The decaying       *)
(* exponentials of a force are Push within Reach, for interactions in the  *)
(* half plane they do not extinguish, and nothing beyond.  A vector that   *)
(* came from a division by zero is NaN, and so is what it is added to.     *)
(***************************************************************************)
EXTENDS Integers, FiniteSetsExt

CONSTANTS
  Reach,   \* square of the distance within which forces are felt
  Push     \* change of speed a force makes in one step

ASSUME ForceAssumption == Reach \in Nat /\ Push \in Nat

NaN == <<>>

Plus(a, b) ==
  IF a = NaN \/ b = NaN THEN NaN ELSE <<a[1] + b[1], a[2] + b[2]>>
Times(k, a) == IF a = NaN THEN NaN ELSE <<k * a[1], k * a[2]>>
Minus(a, b) == Plus(a, Times(-1, b))

\* Only defined vectors are ever measured; 0 stands for the measure of others.
Dot(a, b)   == IF NaN \in {a, b} THEN 0 ELSE a[1] * b[1] + a[2] * b[2]
Cross(a, b) == IF NaN \in {a, b} THEN 0 ELSE a[1] * b[2] - a[2] * b[1]

Signum(n) == IF n > 0 THEN 1 ELSE IF n < 0 THEN -1 ELSE 0

Direction(a) ==
  IF a \in {NaN, <<0, 0>>} THEN NaN ELSE <<Signum(a[1]), Signum(a[2])>>
Left(a)      == IF a = NaN THEN NaN ELSE <<-a[2], a[1]>>

-----------------------------------------------------------------------------
(* A place for a person: where, how fast, and t = -1 for nobody.           *)
Padding == [at |-> <<0, 0>>, v |-> <<0, 0>>, t |-> -1]

Valid(a) == a.t # -1

(* Two in the same place are taken to lie in a fixed direction. *)
Apart(me, other) ==
  IF me.at = other.at THEN <<1, 0>> ELSE Minus(me.at, other.at)

(* Twice the difference of the velocities plus the direction, in tenths.   *)
Interaction(me, other) ==
  Plus(Times(2, Minus(me.v, other.v)), Times(10, Direction(Apart(me, other))))

\* Mutant: nothing is added to an interaction of length zero.
SafeInteractionBare(me, other) == Interaction(me, other)

(* In the prediction 1e-6 of the direction keeps the length from zero. *)
SafeInteraction(me, other) ==
  IF Interaction(me, other) = <<0, 0>> THEN Direction(Apart(me, other))
  ELSE Interaction(me, other)

(* The sign of the angle from the interaction to the direction of the two; *)
(* no angle counts as negative.                                            *)
Turn(w, d) == IF Cross(w, d) > 0 \/ (Cross(w, d) = 0 /\ Dot(w, d) < 0) THEN 1 ELSE -1

(* The decelerating part dies out with the angle sooner than the sideward. *)
VelocityAmount(w, d) ==
  IF Dot(d, d) <= Reach /\ Cross(w, d) \in -Dot(w, d) .. Dot(w, d) THEN -Push ELSE 0

AngleAmount(w, d) ==
  IF Dot(d, d) <= Reach /\ Dot(w, d) >= 0 THEN -Turn(w, d) * Push ELSE 0

PairForce(w, d) ==
  IF w \in {NaN, <<0, 0>>} THEN NaN
  ELSE Plus(Times(VelocityAmount(w, d), Direction(w)),
            Times(AngleAmount(w, d), Left(Direction(w))))

-----------------------------------------------------------------------------
Ahead == [yaw \in 0 .. 3 |->
            CASE yaw = 0 -> <<1, 0>> [] yaw = 1 -> <<0, 1>>
              [] yaw = 2 -> <<-1, 0>> [] yaw = 3 -> <<0, -1>>]

(* The unicycle: the position follows the old yaw, then the robot turns.   *)
Drive(robot, c) ==
  [at |-> Plus(robot.at, Times(c.v, Ahead[robot.yaw])), yaw |-> (robot.yaw + c.w) % 4]

(* The robot among people: c is the velocity it has there.                 *)
AsAgent(robot, c) == [at |-> robot.at, v |-> Times(c.v, Ahead[robot.yaw]), t |-> 0]

(* A person's wish is to stand: a fifth of the speed is lost in a step.    *)
Brake(v) == <<-Signum(v[1]) * ((Signum(v[1]) * v[1]) \div 5),
              -Signum(v[2]) * ((Signum(v[2]) * v[2]) \div 5)>>

NextVelocity(a, robot) ==
  Plus(a.v, Plus(PairForce(SafeInteraction(a, robot), Apart(a, robot)), Brake(a.v)))

\* Mutant: places without a person are predicted like the others.
PredictAll(a, robot) ==
  LET v == NextVelocity(a, robot) IN [at |-> Plus(a.at, v), v |-> v, t |-> 0]

(* One step of one person, with the robot where it is after its own. *)
Predict(a, robot) ==
  IF ~ Valid(a) THEN a
  ELSE LET v == NextVelocity(a, robot) IN [at |-> Plus(a.at, v), v |-> v, t |-> 0]

\* Mutant: the places nobody fills are people at the origin.
PeopleToStatusValid(people) ==
  [s \in 1 .. 3 |-> IF s \in DOMAIN people
                    THEN [at |-> people[s].at, v |-> people[s].v, t |-> 0]
                    ELSE [Padding EXCEPT !.t = 0]]

(* people_to_status: three places, the first three people of the message.  *)
PeopleToStatus(people) ==
  [s \in 1 .. 3 |-> IF s \in DOMAIN people
                    THEN [at |-> people[s].at, v |-> people[s].v, t |-> 0]
                    ELSE Padding]
=============================================================================
