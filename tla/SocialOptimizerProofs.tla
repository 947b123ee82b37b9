----------------------- MODULE SocialOptimizerProofs -----------------------
(***************************************************************************)
(* The optimizer's properties with its parameters, predictions and         *)
(* critics, for all files, trajectories, people and commands.              *)
(***************************************************************************)
EXTENDS SocialOptimizer, NumberLemmas, SequenceTheorems, FiniteSetTheorems, TLAPS

(***************************************************************************)
(* Vectors: what is defined stays defined.                                 *)
(***************************************************************************)
Plane == Int \X Int

LEMMA PlaneFacts ==
  ASSUME NEW a \in Plane
  PROVE  a # NaN /\ a[1] \in Int /\ a[2] \in Int /\ a = <<a[1], a[2]>>
BY DEF Plane, NaN

LEMMA SignumType ==
  ASSUME NEW n \in Int
  PROVE  Signum(n) \in {-1, 0, 1} /\ (Signum(n) = 0 <=> n = 0)
BY DEF Signum

LEMMA SumType ==
  ASSUME NEW a \in Plane, NEW b \in Plane, NEW k \in Int
  PROVE  /\ Plus(a, b) = <<a[1] + b[1], a[2] + b[2]>> /\ Plus(a, b) \in Plane
         /\ Times(k, a) = <<k * a[1], k * a[2]>> /\ Times(k, a) \in Plane
         /\ Minus(a, b) = <<a[1] - b[1], a[2] - b[2]>> /\ Minus(a, b) \in Plane
<1>1. Plus(a, b) = <<a[1] + b[1], a[2] + b[2]>> /\ Plus(a, b) \in Plane
  BY PlaneFacts DEF Plus, Plane
<1>2. Times(k, a) = <<k * a[1], k * a[2]>> /\ Times(k, a) \in Plane
  <2>1. k * a[1] \in Int /\ k * a[2] \in Int
    BY PlaneFacts, SMT
  <2>. QED  BY <2>1, PlaneFacts DEF Times, Plane
<1>3. Times(-1, b) = <<-b[1], -b[2]>> /\ <<-b[1], -b[2]>> \in Plane
  <2>1. Times(-1, b) = <<-1 * b[1], -1 * b[2]>>
    BY PlaneFacts DEF Times
  <2>. QED  BY <2>1, PlaneFacts DEF Plane
<1>4. Minus(a, b) = <<a[1] + -b[1], a[2] + -b[2]>>
  BY <1>3, PlaneFacts DEF Minus, Plus
<1>. QED  BY <1>1, <1>2, <1>4, PlaneFacts DEF Plane

LEMMA DifferenceType ==
  ASSUME NEW a \in Plane, NEW b \in Plane
  PROVE  Minus(a, b) = <<a[1] - b[1], a[2] - b[2]>> /\ Minus(a, b) \in Plane
<1>1. 0 \in Int
  OBVIOUS
<1>. QED  BY <1>1, SumType

LEMMA DotType ==
  ASSUME NEW a \in Plane, NEW b \in Plane
  PROVE  Dot(a, b) \in Int /\ Cross(a, b) \in Int
<1>1. a[1] * b[1] \in Int /\ a[2] * b[2] \in Int /\ a[1] * b[2] \in Int /\ a[2] * b[1] \in Int
  BY PlaneFacts, SMT
<1>. QED  BY <1>1, PlaneFacts DEF Dot, Cross

LEMMA DirectionType ==
  ASSUME NEW a \in Plane, a # <<0, 0>>
  PROVE  /\ Direction(a) \in Plane /\ Direction(a) # <<0, 0>>
         /\ Left(Direction(a)) \in Plane
<1>1. Direction(a) = <<Signum(a[1]), Signum(a[2])>>
  BY PlaneFacts DEF Direction
<1>2. Signum(a[1]) \in Int /\ Signum(a[2]) \in Int /\ (a[1] # 0 \/ a[2] # 0)
  <2>1. a[1] # 0 \/ a[2] # 0
    BY PlaneFacts
  <2>. QED  BY <2>1, PlaneFacts, SignumType
<1>3. Signum(a[1]) # 0 \/ Signum(a[2]) # 0
  BY <1>2, PlaneFacts, SignumType
<1>4. Direction(a) \in Plane /\ Direction(a) # <<0, 0>>
  BY <1>1, <1>2, <1>3 DEF Plane
<1>5. Left(Direction(a)) \in Plane
  BY <1>4, PlaneFacts DEF Left, Plane
<1>. QED  BY <1>4, <1>5

LEMMA PairForceType ==
  ASSUME NEW w \in Plane, w # <<0, 0>>, NEW d \in Plane
  PROVE  PairForce(w, d) \in Plane
<1>1. /\ Push \in Nat /\ VelocityAmount(w, d) \in Int
  BY ForceAssumption DEF VelocityAmount
<1>2. AngleAmount(w, d) \in Int
  <2>1. Turn(w, d) \in {-1, 1}
    BY DEF Turn
  <2>2. -Turn(w, d) * Push \in Int
    BY <1>1, <2>1
  <2>. QED  BY <2>2 DEF AngleAmount
<1>3. Direction(w) \in Plane /\ Left(Direction(w)) \in Plane
  BY DirectionType
<1>4. /\ Times(VelocityAmount(w, d), Direction(w)) \in Plane
      /\ Times(AngleAmount(w, d), Left(Direction(w))) \in Plane
  BY <1>1, <1>2, <1>3, SumType
<1>5. Plus(Times(VelocityAmount(w, d), Direction(w)),
           Times(AngleAmount(w, d), Left(Direction(w)))) \in Plane
  BY <1>4, SumType
<1>. QED  BY <1>5, PlaneFacts DEF PairForce

-----------------------------------------------------------------------------
(***************************************************************************)
(* People and the robot.                                                   *)
(***************************************************************************)
Somebody == [at : Plane, v : Plane, t : {-1, 0}]

LEMMA ApartType ==
  ASSUME NEW a \in Somebody, NEW b \in Somebody
  PROVE  Apart(a, b) \in Plane /\ Apart(a, b) # <<0, 0>>
<1>1. a.at \in Plane /\ b.at \in Plane
  BY DEF Somebody
<1>2. CASE a.at = b.at
  BY <1>2 DEF Apart, Plane
<1>3. CASE a.at # b.at
  <2>1. Apart(a, b) = <<a.at[1] - b.at[1], a.at[2] - b.at[2]>>
    BY <1>1, <1>3, DifferenceType DEF Apart
  <2>2. a.at[1] # b.at[1] \/ a.at[2] # b.at[2]
    BY <1>1, <1>3, PlaneFacts
  <2>3. a.at[1] - b.at[1] # 0 \/ a.at[2] - b.at[2] # 0
    BY <1>1, <2>2, PlaneFacts
  <2>. QED  BY <1>1, <2>1, <2>3, PlaneFacts DEF Plane
<1>. QED  BY <1>2, <1>3

(* The safeguard of the prediction: an interaction is never of length zero. *)
LEMMA SafeInteractionType ==
  ASSUME NEW a \in Somebody, NEW b \in Somebody
  PROVE  SafeInteraction(a, b) \in Plane /\ SafeInteraction(a, b) # <<0, 0>>
<1>1. Direction(Apart(a, b)) \in Plane /\ Direction(Apart(a, b)) # <<0, 0>>
  BY ApartType, DirectionType
<1>2. Interaction(a, b) \in Plane
  <2>1. a.v \in Plane /\ b.v \in Plane
    BY DEF Somebody
  <2>2. Minus(a.v, b.v) \in Plane
    BY <2>1, DifferenceType
  <2>3. Times(2, Minus(a.v, b.v)) \in Plane /\ Times(10, Direction(Apart(a, b))) \in Plane
    BY <1>1, <2>2, SumType
  <2>. QED  BY <2>3, SumType DEF Interaction
<1>. QED  BY <1>1, <1>2 DEF SafeInteraction

LEMMA BrakeType ==
  ASSUME NEW v \in Plane
  PROVE  Brake(v) \in Plane
<1>1. ASSUME NEW n \in Int
      PROVE  -Signum(n) * ((Signum(n) * n) \div 5) \in Int
  <2>1. Signum(n) * n \in Int
    BY SignumType
  <2>2. (Signum(n) * n) \div 5 \in Int
    BY <2>1, SMT
  <2>. QED  BY <2>2, SignumType
<1>. QED  BY <1>1, PlaneFacts DEF Brake, Plane

LEMMA PredictType ==
  ASSUME NEW a \in Somebody, NEW r \in Somebody
  PROVE  /\ Predict(a, r) \in Somebody
         /\ Valid(a) => Valid(Predict(a, r))
         /\ ~ Valid(a) => Predict(a, r) = a
<1>1. a.v \in Plane /\ a.at \in Plane
  BY DEF Somebody
<1>2. PairForce(SafeInteraction(a, r), Apart(a, r)) \in Plane
  BY SafeInteractionType, ApartType, PairForceType
<1>3. Plus(PairForce(SafeInteraction(a, r), Apart(a, r)), Brake(a.v)) \in Plane
  BY <1>1, <1>2, BrakeType, SumType
<1>4. NextVelocity(a, r) \in Plane
  BY <1>1, <1>3, SumType DEF NextVelocity
<1>5. Plus(a.at, NextVelocity(a, r)) \in Plane
  BY <1>1, <1>4, SumType
<1>. QED  BY <1>4, <1>5 DEF Predict, Valid, Somebody

-----------------------------------------------------------------------------
(***************************************************************************)
(* Speeds: two pushes at most, against a fifth of the speed.               *)
(***************************************************************************)
LEMMA AmountBound ==
  ASSUME NEW w \in Plane, NEW d \in Plane
  PROVE  /\ VelocityAmount(w, d) \in {0, -Push}
         /\ AngleAmount(w, d) \in {0, Push, -Push}
<1>1. Push \in Nat
  BY ForceAssumption
<1>2. VelocityAmount(w, d) \in {0, -Push}
  BY DEF VelocityAmount
<1>3. Turn(w, d) = 1 \/ Turn(w, d) = -1
  BY DEF Turn
<1>4. -Turn(w, d) * Push \in {Push, -Push}
  BY <1>1, <1>3
<1>. QED  BY <1>2, <1>4 DEF AngleAmount

LEMMA PushBound ==
  ASSUME NEW p \in Nat, NEW a \in {0, p, -p}, NEW b \in {0, p, -p},
         NEW x \in {-1, 0, 1}, NEW y \in {-1, 0, 1}
  PROVE  a * x + b * y \in -(2 * p) .. 2 * p
<1>1. a * x \in {0, p, -p}
  OBVIOUS
<1>2. b * y \in {0, p, -p}
  OBVIOUS
<1>. DEFINE s == a * x   t == b * y
<1>3. s \in {0, p, -p} /\ t \in {0, p, -p}
  BY <1>1, <1>2
<1>. HIDE DEF s, t
<1>4. s + t \in -(2 * p) .. 2 * p
  BY <1>3
<1>. QED  BY <1>4 DEF s, t

LEMMA PairForceBound ==
  ASSUME NEW w \in Plane, w # <<0, 0>>, NEW d \in Plane, NEW i \in 1 .. 2
  PROVE  PairForce(w, d)[i] \in -(2 * Push) .. 2 * Push
<1>. DEFINE va == VelocityAmount(w, d)   aa == AngleAmount(w, d)
            x == Signum(w[1])   y == Signum(w[2])
<1>1. Push \in Nat /\ va \in {0, Push, -Push} /\ aa \in {0, Push, -Push}
  BY AmountBound, ForceAssumption
<1>2. x \in {-1, 0, 1} /\ y \in {-1, 0, 1} /\ -y \in {-1, 0, 1}
  <2>1. x \in {-1, 0, 1} /\ y \in {-1, 0, 1}
    BY PlaneFacts, SignumType
  <2>. QED  BY <2>1
<1>3. Direction(w) = <<x, y>> /\ Direction(w) \in Plane
  BY <1>2, PlaneFacts DEF Direction, Plane
<1>4. Left(Direction(w)) = <<-y, x>> /\ Left(Direction(w)) \in Plane
  BY <1>2, <1>3, PlaneFacts DEF Left, Plane
<1>5. va \in Int /\ aa \in Int
  BY <1>1
<1>. HIDE DEF va, aa, x, y
<1>6. /\ Times(va, Direction(w)) = <<va * x, va * y>>
      /\ Times(aa, Left(Direction(w))) = <<aa * (-y), aa * x>>
      /\ Times(va, Direction(w)) \in Plane /\ Times(aa, Left(Direction(w))) \in Plane
  <2>. DEFINE u == Direction(w)   l == Left(Direction(w))
  <2>1. u[1] = x /\ u[2] = y /\ l[1] = -y /\ l[2] = x /\ u \in Plane /\ l \in Plane
    BY <1>3, <1>4
  <2>. HIDE DEF u, l
  <2>2. /\ Times(va, u) = <<va * u[1], va * u[2]>> /\ Times(va, u) \in Plane
        /\ Times(aa, l) = <<aa * l[1], aa * l[2]>> /\ Times(aa, l) \in Plane
    BY <1>5, <2>1, SumType, Zenon
  <2>. QED  BY <2>1, <2>2 DEF u, l
<1>7. PairForce(w, d) = <<va * x + aa * (-y), va * y + aa * x>>
  <2>1. w # NaN
    BY PlaneFacts
  <2>2. PairForce(w, d) = Plus(Times(va, Direction(w)), Times(aa, Left(Direction(w))))
    BY <2>1 DEF PairForce, va, aa
  <2>3. PairForce(w, d) = Plus(<<va * x, va * y>>, <<aa * (-y), aa * x>>)
    BY <1>6, <2>2
  <2>4. <<va * x, va * y>> # NaN /\ <<aa * (-y), aa * x>> # NaN
    BY DEF NaN
  <2>. QED  BY <2>3, <2>4 DEF Plus
<1>8. /\ va * x + aa * (-y) \in -(2 * Push) .. 2 * Push
      /\ va * y + aa * x \in -(2 * Push) .. 2 * Push
  <2>1. va * x + aa * (-y) \in -(2 * Push) .. 2 * Push
    BY <1>1, <1>2, PushBound
  <2>2. va * y + aa * x \in -(2 * Push) .. 2 * Push
    BY <1>1, <1>2, PushBound
  <2>. QED  BY <2>1, <2>2
<1>9. i = 1 \/ i = 2
  OBVIOUS
<1>. QED  BY <1>7, <1>8, <1>9

(* Above the balance a fifth of the speed outweighs two pushes.            *)
LEMMA BrakedBelow ==
  ASSUME NEW p \in Nat, NEW top \in Nat, top >= 10 * p + 4,
         NEW n \in -top .. top, NEW f \in -(2 * p) .. 2 * p
  PROVE  n + (f + (-Signum(n) * ((Signum(n) * n) \div 5))) \in -top .. top
<1>. DEFINE m == IF n < 0 THEN -n ELSE n   q == m \div 5
<1>1. m \in Nat /\ m <= top
  OBVIOUS
<1>2. q \in Nat /\ 5 * q <= m /\ m <= 5 * q + 4
  BY <1>1
<1>3. CASE n > 0
  <2>1. Signum(n) = 1 /\ Signum(n) * n = m
    BY <1>3 DEF Signum
  <2>2. -Signum(n) * ((Signum(n) * n) \div 5) = -1 * q
    BY <2>1
  <2>. HIDE DEF q
  <2>3. m = n
    BY <1>3
  <2>. QED  BY <1>1, <1>2, <2>2, <2>3
<1>4. CASE n < 0
  <2>1. Signum(n) = -1 /\ Signum(n) * n = m
    BY <1>4 DEF Signum
  <2>2. -Signum(n) * ((Signum(n) * n) \div 5) = 1 * q
    BY <2>1
  <2>. HIDE DEF q
  <2>3. m = -n
    BY <1>4
  <2>. QED  BY <1>1, <1>2, <2>2, <2>3
<1>5. CASE n = 0
  <2>1. Signum(n) = 0
    BY <1>5 DEF Signum
  <2>2. -Signum(n) * ((Signum(n) * n) \div 5) = 0
    BY <1>5, <2>1
  <2>. QED  BY <1>5, <2>2
<1>. QED  BY <1>3, <1>4, <1>5

LEMMA PredictNoFaster ==
  ASSUME NEW a \in Somebody, NEW r \in Somebody, NEW i \in 1 .. 2,
         NEW top \in Nat, top >= Balance, a.v[i] \in -top .. top
  PROVE  Predict(a, r).v[i] \in -top .. top
<1>1. CASE ~ Valid(a)
  BY <1>1 DEF Predict
<1>2. CASE Valid(a)
  <2>. DEFINE f == PairForce(SafeInteraction(a, r), Apart(a, r))   b == Brake(a.v)
  <2>1. a.v \in Plane /\ f \in Plane /\ b \in Plane
    BY SafeInteractionType, ApartType, PairForceType, BrakeType DEF Somebody
  <2>2. f[i] \in -(2 * Push) .. 2 * Push
    BY SafeInteractionType, ApartType, PairForceBound
  <2>3. Predict(a, r).v = Plus(a.v, Plus(f, b))
    BY <1>2 DEF Predict, NextVelocity
  <2>. HIDE DEF f
  <2>4. b[i] = -Signum(a.v[i]) * ((Signum(a.v[i]) * a.v[i]) \div 5)
    <3>1. i = 1 \/ i = 2
      OBVIOUS
    <3>. QED  BY <3>1 DEF Brake
  <2>. HIDE DEF b
  <2>5. Plus(a.v, Plus(f, b))[i] = a.v[i] + (f[i] + b[i])
    <3>. DEFINE v == a.v   g == Plus(f, b)
    <3>1. g \in Plane /\ g = <<f[1] + b[1], f[2] + b[2]>> /\ v \in Plane
      BY <2>1, SumType
    <3>. HIDE DEF v, g
    <3>0. 0 \in Int
      OBVIOUS
    <3>2. Plus(v, g) = <<v[1] + g[1], v[2] + g[2]>>
      BY <3>0, <3>1, SumType, Zenon
    <3>3. i = 1 \/ i = 2
      OBVIOUS
    <3>. QED  BY <3>1, <3>2, <3>3 DEF v, g
  <2>. DEFINE n == a.v[i]
  <2>6. n \in -top .. top /\ Push \in Nat /\ top >= 10 * Push + 4
    BY ForceAssumption DEF Balance
  <2>. HIDE DEF n
  <2>7. n + (f[i] + (-Signum(n) * ((Signum(n) * n) \div 5))) \in -top .. top
    BY <2>2, <2>6, BrakedBelow
  <2>. QED  BY <2>3, <2>4, <2>5, <2>7 DEF n
<1>. QED  BY <1>1, <1>2

LEMMA DriveType ==
  ASSUME NEW r \in Poses, NEW c \in [v : Int, w : Int]
  PROVE  Drive(r, c) \in Poses /\ AsAgent(r, c) \in Somebody
<1>1. r.at \in Plane /\ r.yaw \in 0 .. 3 /\ c.v \in Int /\ c.w \in Int
  BY DEF Poses, Plane
<1>2. Ahead[r.yaw] \in Plane
  <2>1. Ahead[r.yaw] = CASE r.yaw = 0 -> <<1, 0>> [] r.yaw = 1 -> <<0, 1>>
                         [] r.yaw = 2 -> <<-1, 0>> [] r.yaw = 3 -> <<0, -1>>
    BY <1>1 DEF Ahead
  <2>2. r.yaw = 0 \/ r.yaw = 1 \/ r.yaw = 2 \/ r.yaw = 3
    BY <1>1
  <2>. QED  BY <2>1, <2>2 DEF Plane
<1>3. Times(c.v, Ahead[r.yaw]) \in Plane
  BY <1>1, <1>2, SumType
<1>4. Plus(r.at, Times(c.v, Ahead[r.yaw])) \in Plane
  BY <1>1, <1>3, SumType
<1>5. (r.yaw + c.w) % 4 \in 0 .. 3
  BY <1>1
<1>6. Drive(r, c) \in Poses
  BY <1>4, <1>5 DEF Drive, Poses, Plane
<1>7. AsAgent(r, c) \in Somebody
  BY <1>1, <1>3 DEF AsAgent, Somebody
<1>. QED  BY <1>6, <1>7

-----------------------------------------------------------------------------
(***************************************************************************)
(* Parameters.                                                             *)
(***************************************************************************)

\* What the components hold of the node's parameters while configure runs.
Copied ==
  /\ setup \in {"controller", "trajectorizer", "read"} =>
       /\ DOMAIN ControllerDefaults \subseteq DOMAIN store
       /\ \A n \in DOMAIN ControllerDefaults : controller[n] = store[n]
  /\ setup \in {"trajectorizer", "read"} =>
       /\ DOMAIN TrajectorizerDefaults \subseteq DOMAIN store
       /\ \A n \in DOMAIN TrajectorizerDefaults \ {"max_linear_accel"} : trajectorizer[n] = store[n]
  /\ setup = "read" =>
       /\ OptimizerReads \subseteq DOMAIN store
       /\ \A n \in OptimizerReads : optimizer[n] = store[n]

ParametersInv == ParametersTypeOK /\ CountsUnsigned /\ ComponentsAgree /\ Copied

LEMMA Defaults ==
  /\ \A n \in DOMAIN ControllerDefaults : ControllerDefaults[n] \in Int
  /\ \A n \in DOMAIN TrajectorizerDefaults : TrajectorizerDefaults[n] \in Int
  /\ \A n \in DOMAIN OptimizerDefaults : OptimizerDefaults[n] \in Int
  /\ DOMAIN ControllerDefaults \subseteq
       OptimizerReads \ {"control_horizon", "parameter_block_length"}
  /\ DOMAIN TrajectorizerDefaults \intersect {"control_horizon", "parameter_block_length"} = {}
  /\ "max_time" \in DOMAIN TrajectorizerDefaults
  /\ {"control_horizon", "parameter_block_length", "max_time", "linear_solver_type"}
       \subseteq OptimizerReads
  /\ "linear_solver_type" \in DOMAIN OptimizerDefaults
  /\ "max_linear_accel" \notin OptimizerReads
BY DEF ControllerDefaults, TrajectorizerDefaults, OptimizerDefaults, OptimizerReads

LEMMA DeclareKeeps ==
  ASSUME ParametersTypeOK, NEW defaults, \A n \in DOMAIN defaults : defaults[n] \in Int
  PROVE  /\ DOMAIN Declare(defaults) = DOMAIN store \union DOMAIN defaults
         /\ \A n \in DOMAIN store : Declare(defaults)[n] = store[n]
         /\ \A n \in DOMAIN Declare(defaults) : Declare(defaults)[n] \in Int
<1>1. \A n \in DOMAIN file : file[n] \in Int
  BY ParametersAssumption DEF ParametersTypeOK
<1>2. \A n \in DOMAIN store : store[n] \in Int
  BY DEF ParametersTypeOK
<1>. QED  BY <1>1, <1>2 DEF Declare

LEMMA ConfigureKeeps ==
  ASSUME ParametersInv, Configure
  PROVE  ParametersInv'
<1>. USE DEF ParametersInv
<1>1. /\ controller \in [DOMAIN ControllerDefaults -> Int \union {Unset}]
      /\ trajectorizer \in [DOMAIN TrajectorizerDefaults -> Int \union {Unset}]
      /\ optimizer \in [OptimizerReads -> Int \union {Unset}]
      /\ file \in Files
      /\ \A n \in DOMAIN store : store[n] \in Int
      /\ Unset \notin Int /\ Modulus \in Nat \ {0}
  BY ParametersAssumption DEF ParametersTypeOK
<1>2. CASE ControllerParameters
  <2>1. /\ store' = Declare(ControllerDefaults) /\ controller' = Get(store', controller)
        /\ setup' = "controller" /\ UNCHANGED <<file, trajectorizer, optimizer>>
    BY <1>2 DEF ControllerParameters
  <2>2. /\ DOMAIN store' = DOMAIN store \union DOMAIN ControllerDefaults
        /\ \A n \in DOMAIN store' : store'[n] \in Int
    BY <2>1, Defaults, DeclareKeeps
  <2>3. /\ DOMAIN controller' = DOMAIN ControllerDefaults
        /\ \A n \in DOMAIN ControllerDefaults : controller'[n] = store'[n]
        /\ controller' = [n \in DOMAIN ControllerDefaults |-> controller'[n]]
    BY <1>1, <2>1, <2>2 DEF Get
  <2>4. ParametersTypeOK'
    BY <1>1, <2>1, <2>2, <2>3 DEF ParametersTypeOK
  <2>5. CountsUnsigned' /\ ComponentsAgree'
    BY <2>1 DEF CountsUnsigned, ComponentsAgree
  <2>6. Copied'
    BY <2>1, <2>2, <2>3 DEF Copied
  <2>. QED  BY <2>4, <2>5, <2>6
<1>3. CASE TrajectorizerConfigure
  <2>1. /\ setup = "controller"
        /\ store' = Declare(TrajectorizerDefaults)
        /\ trajectorizer' = [n \in DOMAIN TrajectorizerDefaults |->
                               IF n = "max_linear_accel" THEN NotNegative(store'[n]) ELSE store'[n]]
        /\ setup' = "trajectorizer" /\ UNCHANGED <<file, controller, optimizer>>
    BY <1>3 DEF TrajectorizerConfigure
  <2>2. /\ DOMAIN store' = DOMAIN store \union DOMAIN TrajectorizerDefaults
        /\ \A n \in DOMAIN store : store'[n] = store[n]
        /\ \A n \in DOMAIN store' : store'[n] \in Int
    BY <2>1, Defaults, DeclareKeeps
  <2>3. /\ trajectorizer' \in [DOMAIN TrajectorizerDefaults -> Int]
        /\ \A n \in DOMAIN TrajectorizerDefaults \ {"max_linear_accel"} : trajectorizer'[n] = store'[n]
    BY <2>1, <2>2 DEF NotNegative
  <2>4. ParametersTypeOK'
    BY <1>1, <2>1, <2>2, <2>3 DEF ParametersTypeOK
  <2>5. CountsUnsigned' /\ ComponentsAgree'
    BY <2>1 DEF CountsUnsigned, ComponentsAgree
  <2>6. Copied'
    BY <2>1, <2>2, <2>3 DEF Copied
  <2>. QED  BY <2>4, <2>5, <2>6
<1>4. CASE OptimizerGet
  <2>1. /\ setup = "trajectorizer"
        /\ store' = Declare(OptimizerDefaults) /\ optimizer' = Get(store', optimizer)
        /\ setup' = "read" /\ UNCHANGED <<file, controller, trajectorizer>>
    BY <1>4 DEF OptimizerGet
  <2>2. /\ DOMAIN store' = DOMAIN store \union DOMAIN OptimizerDefaults
        /\ \A n \in DOMAIN store : store'[n] = store[n]
        /\ \A n \in DOMAIN store' : store'[n] \in Int
    BY <2>1, Defaults, DeclareKeeps
  <2>3. OptimizerReads \subseteq DOMAIN store'
    BY <2>1, <2>2, Defaults DEF Copied, OptimizerReads
  <2>4. /\ optimizer' = [n \in OptimizerReads |-> store'[n]]
        /\ \A n \in OptimizerReads : optimizer'[n] = store'[n]
    BY <1>1, <2>1, <2>3 DEF Get
  <2>5. ParametersTypeOK'
    BY <1>1, <2>1, <2>2, <2>3, <2>4 DEF ParametersTypeOK
  <2>6. CountsUnsigned' /\ ComponentsAgree'
    BY <2>1 DEF CountsUnsigned, ComponentsAgree
  <2>7. Copied'
    BY <2>1, <2>2, <2>3, <2>4 DEF Copied
  <2>. QED  BY <2>5, <2>6, <2>7
<1>5. CASE OptimizerGetThrows
  <2>. DEFINE solver == [linear_solver_type |-> OptimizerDefaults.linear_solver_type]
  <2>1. /\ store' = Declare(solver)
        /\ optimizer' = [optimizer EXCEPT !["linear_solver_type"] = store'["linear_solver_type"]]
        /\ setup' = "failed" /\ UNCHANGED <<file, controller, trajectorizer>>
    BY <1>5 DEF OptimizerGetThrows
  <2>2. DOMAIN solver = {"linear_solver_type"} /\ \A n \in DOMAIN solver : solver[n] \in Int
    BY Defaults
  <2>. HIDE DEF solver
  <2>3. \A n \in DOMAIN store' : store'[n] \in Int
    BY <2>1, <2>2, DeclareKeeps
  <2>4. store'["linear_solver_type"] \in Int
    BY <2>1, <2>2, <2>3, DeclareKeeps
  <2>5. optimizer' \in [OptimizerReads -> Int \union {Unset}]
    BY <1>1, <2>1, <2>4
  <2>6. ParametersTypeOK'
    BY <1>1, <2>1, <2>3, <2>5 DEF ParametersTypeOK
  <2>7. CountsUnsigned' /\ ComponentsAgree' /\ Copied'
    BY <2>1 DEF CountsUnsigned, ComponentsAgree, Copied
  <2>. QED  BY <2>6, <2>7
<1>6. CASE OptimizerInitialize
  <2>. DEFINE counts == {"control_horizon", "parameter_block_length"}
  <2>1. /\ setup = "read" /\ setup' = "ready"
        /\ optimizer' = [optimizer EXCEPT !["control_horizon"] = Unsigned(@),
                                          !["parameter_block_length"] = Unsigned(@)]
        /\ UNCHANGED <<file, store, controller, trajectorizer>>
    BY <1>6 DEF OptimizerInitialize
  <2>2. /\ \A n \in OptimizerReads : optimizer[n] = store[n] /\ store[n] \in Int
        /\ counts \subseteq OptimizerReads
    BY <1>1, <2>1, Defaults DEF Copied
  <2>3. /\ DOMAIN optimizer' = OptimizerReads
        /\ \A n \in OptimizerReads \ counts : optimizer'[n] = store[n]
        /\ \A n \in counts : optimizer'[n] = Unsigned(store[n])
    BY <1>1, <2>1, <2>2
  <2>4. \A n \in counts : optimizer'[n] \in 0 .. Modulus - 1
    <3>1. \A n \in counts : store[n] \in Int
      BY <2>2
    <3>. QED  BY <1>1, <2>3, <3>1 DEF Unsigned
  <2>5. \A n \in OptimizerReads : optimizer'[n] \in Int
    BY <1>1, <2>2, <2>3, <2>4
  <2>6. optimizer' \in [OptimizerReads -> Int \union {Unset}]
    <3>1. optimizer' = [n \in OptimizerReads |-> optimizer'[n]]
      BY <1>1, <2>1, <2>3
    <3>. QED  BY <2>5, <3>1
  <2>7. ParametersTypeOK'
    BY <1>1, <2>1, <2>6 DEF ParametersTypeOK
  <2>8. CountsUnsigned'
    BY <2>4 DEF CountsUnsigned
  <2>9. ComponentsAgree'
    <3>1. \A n \in DOMAIN controller' : controller'[n] = optimizer'[n]
      BY <1>1, <2>1, <2>3, Defaults DEF Copied
    <3>2. \A n \in DOMAIN trajectorizer' \intersect DOMAIN optimizer' :
            trajectorizer'[n] = optimizer'[n]
      BY <1>1, <2>1, <2>3, Defaults DEF Copied
    <3>3. \A n \in DOMAIN optimizer' : optimizer'[n] # Unset
      BY <1>1, <2>3, <2>5
    <3>. QED  BY <3>1, <3>2, <3>3 DEF ComponentsAgree
  <2>10. Copied'
    BY <2>1 DEF Copied
  <2>. QED  BY <2>7, <2>8, <2>9, <2>10
<1>7. CASE SetParameter
  <2>1. PICK c \in Changes : c.name \in DOMAIN store /\ store' = [store EXCEPT ![c.name] = c.value]
    BY <1>7 DEF SetParameter
  <2>2. setup \in {"ready", "failed"} /\ UNCHANGED <<file, controller, trajectorizer, optimizer, setup>>
    BY <1>7 DEF SetParameter
  <2>3. \A n \in DOMAIN store' : store'[n] \in Int
    BY <1>1, <2>1, ParametersAssumption
  <2>4. ParametersTypeOK'
    BY <1>1, <2>2, <2>3 DEF ParametersTypeOK
  <2>. QED  BY <2>2, <2>4 DEF CountsUnsigned, ComponentsAgree, Copied
<1>. QED  BY <1>2, <1>3, <1>4, <1>5, <1>6, <1>7 DEF Configure

LEMMA StartParameters == Start => ParametersInv
<1>. SUFFICES ASSUME Start PROVE ParametersInv
  OBVIOUS
<1>. USE DEF Start
<1>1. store = [n \in {} |-> 0] /\ \A n \in DOMAIN store : store[n] \in Int
  OBVIOUS
<1>2. /\ controller \in [DOMAIN ControllerDefaults -> Int \union {Unset}]
      /\ trajectorizer \in [DOMAIN TrajectorizerDefaults -> Int \union {Unset}]
      /\ optimizer \in [OptimizerReads -> Int \union {Unset}]
  OBVIOUS
<1>3. ParametersTypeOK
  BY <1>1, <1>2 DEF ParametersTypeOK
<1>. QED  BY <1>3 DEF ParametersInv, CountsUnsigned, ComponentsAgree, Copied

LEMMA RestartParameters == Restart => ParametersInv'
<1>. SUFFICES ASSUME Restart PROVE ParametersInv'
  OBVIOUS
<1>. USE DEF Restart
<1>1. store' = [n \in {} |-> 0] /\ \A n \in DOMAIN store' : store'[n] \in Int
  OBVIOUS
<1>2. /\ controller' \in [DOMAIN ControllerDefaults -> Int \union {Unset}]
      /\ trajectorizer' \in [DOMAIN TrajectorizerDefaults -> Int \union {Unset}]
      /\ optimizer' \in [OptimizerReads -> Int \union {Unset}]
  OBVIOUS
<1>3. ParametersTypeOK'
  BY <1>1, <1>2 DEF ParametersTypeOK
<1>. QED  BY <1>3 DEF ParametersInv, CountsUnsigned, ComponentsAgree, Copied

-----------------------------------------------------------------------------
(***************************************************************************)
(* The invariant of a call and of its rollouts.                            *)
(***************************************************************************)
Busy == phase \in {"solving", "rolling", "predicting"}

CallInv ==
  /\ phase \in {"idle", "solving", "rolling", "predicting", "answered", "crashed"}
  /\ phase # "idle" => setup = "ready"
  /\ given \in Trajectories /\ people \in People \union {<<>>} /\ path \in Seq(Poses)
  /\ slots = PeopleToStatus(people)
  /\ Busy => /\ NumVelocities >= 1 /\ Horizon \in 1 .. NumVelocities /\ Length \in 1 .. Horizon
             /\ Len(path) <= Len(given.poses)
             /\ \A k \in DOMAIN path : path[k] = given.poses[k]
  /\ ConfiguredCallsDefined

RolloutInv ==
  /\ robot \in Poses /\ agents \in [1 .. 3 -> Somebody]
  /\ DOMAIN residuals = DOMAIN NoResiduals /\ finite \in BOOLEAN /\ step \in Int
  /\ phase \in {"rolling", "predicting"} =>
       /\ InUse(agents) /\ step \in -1 .. NumVelocities
       /\ velocities \in [0 .. BlockOf(NumVelocities - 1, Horizon, Length) -> Commands]
  /\ phase = "rolling" =>
       /\ step \in -1 .. NumVelocities - 1
       /\ step >= 0 => residuals = Residuals(step, robot, agents)
       /\ Tracks => robot = path[step + 2]

ProjectionInv ==
  /\ people_proj \in Seq([1 .. 3 -> Somebody])
  /\ \A k \in DOMAIN people_proj : InUse(people_proj[k])
  /\ phase = "predicting" => Len(people_proj) = IF people = <<>> THEN 0 ELSE step + 1
  /\ phase = "answered" /\ people_proj # <<>> => Len(people_proj) = Len(path)
  /\ phase \notin {"predicting", "answered"} => people_proj = <<>>

IInv == ParametersInv /\ CallInv /\ RolloutInv /\ ProjectionInv

LEMMA SlotsType ==
  ASSUME NEW p \in People \union {<<>>}
  PROVE  /\ PeopleToStatus(p) \in [1 .. 3 -> Somebody]
         /\ \A s \in 1 .. 3 : IF s \in DOMAIN p THEN Valid(PeopleToStatus(p)[s])
                              ELSE PeopleToStatus(p)[s] = Padding
<1>. DEFINE One == [at : Plane, v : Plane]
<1>1. p \in Seq(One)
  <2>1. CASE p \in People
    BY <2>1, OptimizerAssumption DEF Plane
  <2>2. CASE p = <<>>
    <3>. HIDE DEF One
    <3>. QED  BY <2>2
  <2>. QED  BY <2>1, <2>2
<1>2. Padding \in Somebody
  BY DEF Padding, Somebody, Plane
<1>3. ASSUME NEW s \in 1 .. 3
      PROVE  /\ PeopleToStatus(p)[s] \in Somebody
             /\ IF s \in DOMAIN p THEN Valid(PeopleToStatus(p)[s])
                ELSE PeopleToStatus(p)[s] = Padding
  <2>1. CASE s \in DOMAIN p
    <3>1. p[s] \in One
      <4>. HIDE DEF One
      <4>. QED  BY <1>1, <2>1, ElementOfSeq, LenProperties
    <3>2. PeopleToStatus(p)[s] = [at |-> p[s].at, v |-> p[s].v, t |-> 0]
      BY <2>1 DEF PeopleToStatus
    <3>3. p[s].at \in Plane /\ p[s].v \in Plane
      BY <3>1
    <3>4. PeopleToStatus(p)[s] \in Somebody
      BY <3>2, <3>3 DEF Somebody
    <3>5. PeopleToStatus(p)[s].t = 0
      BY <3>2
    <3>. QED  BY <2>1, <3>4, <3>5 DEF Valid
  <2>2. CASE s \notin DOMAIN p
    BY <1>2, <2>2 DEF PeopleToStatus
  <2>. QED  BY <2>1, <2>2
<1>4. PeopleToStatus(p) = [s \in 1 .. 3 |-> PeopleToStatus(p)[s]]
  BY DEF PeopleToStatus
<1>. QED  BY <1>3, <1>4

LEMMA SlotsInUse ==
  ASSUME CallInv
  PROVE  slots \in [1 .. 3 -> Somebody] /\ InUse(slots)
BY SlotsType DEF CallInv, InUse

\* Every step has a block, and the rollouts read no other velocities.
LEMMA BlockRange ==
  ASSUME NEW n \in Nat \ {0}, NEW h \in 1 .. n, NEW b \in 1 .. h, NEW t \in Nat
  PROVE  BlockOf(t, h, b) \in 0 .. BlockOf(n - 1, h, b)
<1>1. b \in Nat \ {0} /\ h - 1 \in Nat
  OBVIOUS
<1>2. BlockOf(n - 1, h, b) = (h - 1) \div b
  <2>1. n - 1 < h => n - 1 = h - 1
    OBVIOUS
  <2>. QED  BY <2>1 DEF BlockOf
<1>3. (h - 1) \div b \in Nat
  BY <1>1, DivType
<1>4. CASE t < h
  <2>1. t <= h - 1 /\ t \in Nat
    BY <1>4
  <2>2. t \div b \in Nat /\ t \div b <= (h - 1) \div b
    BY <1>1, <2>1, DivType, DivMonotone, Zenon
  <2>3. BlockOf(t, h, b) = t \div b
    BY <1>4, Zenon DEF BlockOf
  <2>. DEFINE x == t \div b   y == (h - 1) \div b
  <2>4. x \in Nat /\ x <= y /\ y \in Nat /\ BlockOf(t, h, b) = x /\ BlockOf(n - 1, h, b) = y
    BY <1>2, <1>3, <2>2, <2>3, Zenon
  <2>. HIDE DEF x, y
  <2>. QED  BY <2>4
<1>5. CASE ~ (t < h)
  BY <1>2, <1>3, <1>5 DEF BlockOf
<1>. QED  BY <1>4, <1>5

LEMMA PathFacts ==
  ASSUME CallInv
  PROVE  /\ Len(path) \in Nat /\ NumVelocities \in Int /\ NumVelocities + 1 = Len(path)
         /\ DOMAIN path = 1 .. Len(path)
         /\ \A k \in 1 .. Len(path) : path[k] \in Poses
BY LenProperties, ElementOfSeq DEF CallInv, NumVelocities

LEMMA VelocityType ==
  ASSUME CallInv, RolloutInv, phase \in {"rolling", "predicting"}, NEW t \in Nat
  PROVE  Velocity(t) \in Commands /\ Velocity(t) \in [v : Int, w : Int]
<1>1. /\ NumVelocities \in Nat \ {0} /\ Horizon \in 1 .. NumVelocities /\ Length \in 1 .. Horizon
  BY PathFacts DEF CallInv, Busy
<1>2. BlockOf(t, Horizon, Length) \in 0 .. BlockOf(NumVelocities - 1, Horizon, Length)
  BY <1>1, BlockRange, Zenon
<1>3. velocities \in [0 .. BlockOf(NumVelocities - 1, Horizon, Length) -> Commands]
  BY DEF RolloutInv
<1>. QED  BY <1>2, <1>3, OptimizerAssumption DEF Velocity

(* One step of the rollout: people stay people, and nobody stays nobody.   *)
LEMMA RollKeeps ==
  ASSUME NEW r \in Poses, NEW c \in [v : Int, w : Int], NEW a \in [1 .. 3 -> Somebody],
         NEW b, b = [s \in 1 .. 3 |-> Predict(a[s], AsAgent(Drive(r, c), c))]
  PROVE  /\ Drive(r, c) \in Poses /\ b \in [1 .. 3 -> Somebody]
         /\ InUse(a) => InUse(b)
<1>1. Drive(r, c) \in Poses
  BY DriveType
<1>2. AsAgent(Drive(r, c), c) \in Somebody
  BY <1>1, DriveType
<1>3. ASSUME NEW s \in 1 .. 3
      PROVE  /\ b[s] \in Somebody
             /\ Valid(a[s]) => Valid(b[s])
             /\ ~ Valid(a[s]) => b[s] = a[s]
  BY <1>2, PredictType
<1>4. ~ Valid(Padding)
  BY DEF Valid, Padding
<1>. QED  BY <1>1, <1>3, <1>4 DEF InUse

LEMMA SomebodyDefined ==
  ASSUME NEW a \in [1 .. 3 -> Somebody]
  PROVE  Defined(a) /\ a \in [1 .. 3 -> Persons]
BY PlaneFacts DEF Defined, Somebody, Persons, Vectors, Plane

-----------------------------------------------------------------------------
(***************************************************************************)
(* The steps of a call that has begun.                                     *)
(***************************************************************************)
LEMMA SameProblem ==
  ASSUME UNCHANGED <<parameters, problem>>
  PROVE  /\ NumVelocities' = NumVelocities /\ Horizon' = Horizon /\ Length' = Length
         /\ UNCHANGED <<setup, optimizer, given, people, path, slots>>
BY DEF parameters, problem, NumVelocities, Horizon, Length

LEMMA SameParameters ==
  ASSUME ParametersInv, UNCHANGED parameters
  PROVE  ParametersInv'
BY DEF parameters, ParametersInv, ParametersTypeOK, CountsUnsigned, ComponentsAgree, Copied

LEMMA SameCall ==
  ASSUME CallInv, UNCHANGED <<parameters, problem>>, phase # "idle",
         phase' \in {"rolling", "predicting", "answered"},
         phase' \in {"rolling", "predicting"} => Busy
  PROVE  CallInv'
BY SameProblem DEF CallInv, Busy, ConfiguredCallsDefined

LEMMA EvaluateKeeps ==
  ASSUME CallInv, RolloutInv, ProjectionInv, Evaluate
  PROVE  CallInv' /\ RolloutInv' /\ ProjectionInv'
<1>1. /\ phase \in {"solving", "rolling"} /\ phase' = "rolling"
      /\ UNCHANGED <<parameters, problem>> /\ people_proj' = people_proj
      /\ velocities' \in [0 .. BlockOf(NumVelocities - 1, Horizon, Length) -> Commands]
      /\ step' = -1 /\ robot' = path[1] /\ agents' = slots
      /\ residuals' = NoResiduals /\ finite' = TRUE
  BY DEF Evaluate, RollFrom
<1>2. CallInv'
  BY <1>1, SameCall DEF Busy
<1>3. path[1] \in Poses /\ NumVelocities \in Nat \ {0}
  BY <1>1, PathFacts DEF CallInv, Busy
<1>4. slots \in [1 .. 3 -> Somebody] /\ InUse(slots)
  BY SlotsInUse
<1>5. InUse(agents)' /\ RolloutInv'
  <2>1. InUse(agents)'
    BY <1>1, <1>4, SameProblem DEF InUse
  <2>2. velocities' \in [0 .. BlockOf(NumVelocities' - 1, Horizon', Length') -> Commands]
    BY <1>1, SameProblem
  <2>3. step' \in -1 .. NumVelocities' - 1 /\ step' \in -1 .. NumVelocities' /\ ~ (step' >= 0)
    BY <1>1, <1>3, SameProblem
  <2>4. robot' = path'[step' + 2]
    BY <1>1, SameProblem
  <2>. QED  BY <1>1, <1>3, <1>4, <2>1, <2>2, <2>3, <2>4 DEF RolloutInv
<1>6. ProjectionInv'
  BY <1>1, SameProblem DEF ProjectionInv, InUse
<1>. QED  BY <1>2, <1>5, <1>6

LEMMA ResidualsDomain ==
  ASSUME NEW t, NEW r, NEW a
  PROVE  DOMAIN Residuals(t, r, a) = DOMAIN NoResiduals
BY DEF Residuals, NoResiduals

LEMMA SameResiduals ==
  ASSUME UNCHANGED <<parameters, problem>>, velocities' = velocities
  PROVE  Residuals(step, robot, agents)' = Residuals(step', robot', agents')
BY DEF parameters, problem, Residuals, Enabled, Social, PointOf, BlockStarts, Velocity,
       NumVelocities, Horizon, Length

LEMMA RollTypes ==
  ASSUME CallInv, RolloutInv, phase \in {"rolling", "predicting"}, Roll
  PROVE  /\ step' = step + 1 /\ step' \in Nat
         /\ robot' = Drive(robot, Velocity(step'))
         /\ robot' \in Poses /\ agents' \in [1 .. 3 -> Somebody] /\ InUse(agents')
<1>1. /\ step' = step + 1 /\ robot' = Drive(robot, Velocity(step'))
      /\ agents' = [s \in 1 .. 3 |-> Predict(agents[s], AsAgent(robot', Velocity(step')))]
  BY DEF Roll
<1>2. step \in -1 .. NumVelocities /\ robot \in Poses /\ agents \in [1 .. 3 -> Somebody]
      /\ InUse(agents)
  BY DEF RolloutInv
<1>3. step' \in Nat
  BY <1>1, <1>2, PathFacts
<1>4. Velocity(step') \in [v : Int, w : Int]
  BY <1>3, VelocityType
<1>5. /\ Drive(robot, Velocity(step')) \in Poses /\ agents' \in [1 .. 3 -> Somebody]
      /\ InUse(agents) => InUse(agents')
  BY <1>1, <1>2, <1>4, RollKeeps
<1>. QED  BY <1>1, <1>2, <1>3, <1>5

LEMMA AdvanceKeeps ==
  ASSUME CallInv, RolloutInv, ProjectionInv, Advance
  PROVE  CallInv' /\ RolloutInv' /\ ProjectionInv'
<1>1. /\ phase = "rolling" /\ phase' = "rolling" /\ step < NumVelocities - 1
      /\ Roll /\ residuals' = Residuals(step', robot', agents')
      /\ finite' = (finite /\ residuals'.work # Undefined)
      /\ UNCHANGED <<parameters, problem>> /\ velocities' = velocities
      /\ people_proj' = people_proj
  BY DEF Advance
<1>2. CallInv'
  BY <1>1, SameCall DEF Busy
<1>3. /\ step' = step + 1 /\ step' \in Nat /\ robot' = Drive(robot, Velocity(step'))
      /\ robot' \in Poses /\ agents' \in [1 .. 3 -> Somebody] /\ InUse(agents')
  BY <1>1, RollTypes
<1>4. InUse(agents)'
  BY <1>1, <1>3, SameProblem DEF InUse
<1>5. step' \in -1 .. NumVelocities' - 1 /\ step' \in -1 .. NumVelocities'
  BY <1>1, <1>3, SameProblem, PathFacts DEF RolloutInv
<1>6. velocities' \in [0 .. BlockOf(NumVelocities' - 1, Horizon', Length') -> Commands]
  BY <1>1, SameProblem DEF RolloutInv
<1>7. residuals' = Residuals(step, robot, agents)'
  BY <1>1, SameResiduals
<1>8. ASSUME Tracks'
      PROVE  robot' = path'[step' + 2]
  <2>1. \A t \in 0 .. step' : Velocity(t)' = given'.cmds[t + 1]
    BY <1>8 DEF Tracks
  <2>2. \A t : Velocity(t)' = Velocity(t)
    BY <1>1, SameProblem DEF Velocity
  <2>3. \A t \in 0 .. step' : Velocity(t) = given.cmds[t + 1]
    BY <1>1, <2>1, <2>2, SameProblem
  <2>4. Tracks
    BY <1>3, <2>3 DEF Tracks, RolloutInv
  <2>5. robot = path[step + 2] /\ Velocity(step') = given.cmds[step' + 1]
    BY <1>1, <1>3, <2>3, <2>4 DEF RolloutInv
  <2>. DEFINE k == step' + 1
  <2>6. /\ k \in 1 .. Len(path) /\ k + 1 \in 1 .. Len(path) /\ k = step + 2 /\ k + 1 = step' + 2
    BY <1>1, <1>3, PathFacts DEF RolloutInv
  <2>7. /\ given \in Trajectories /\ Len(path) <= Len(given.poses)
        /\ path[k] = given.poses[k] /\ path[k + 1] = given.poses[k + 1]
    BY <1>1, <2>6, PathFacts DEF CallInv, Busy
  <2>8. k \in DOMAIN given.cmds
    <3>1. /\ given.cmds \in Seq([v : Int, w : Int])
          /\ Len(given.poses) = Len(given.cmds) + 1
      BY <2>7, OptimizerAssumption
    <3>2. Len(given.cmds) \in Nat /\ DOMAIN given.cmds = 1 .. Len(given.cmds)
      BY <3>1, LenProperties
    <3>. QED  BY <2>6, <2>7, <3>1, <3>2, PathFacts
  <2>9. given.poses[k + 1] = Drive(given.poses[k], given.cmds[k])
    BY <2>7, <2>8, OptimizerAssumption
  <2>. HIDE DEF k
  <2>10. robot' = path[k + 1]
    BY <1>3, <2>5, <2>6, <2>7, <2>9 DEF k
  <2>. QED  BY <1>1, <2>6, <2>10, SameProblem
<1>9. finite' \in BOOLEAN /\ DOMAIN residuals' = DOMAIN NoResiduals
  BY <1>1, ResidualsDomain
<1>10. RolloutInv'
  BY <1>1, <1>3, <1>4, <1>5, <1>6, <1>7, <1>8, <1>9 DEF RolloutInv
<1>11. ProjectionInv'
  BY <1>1, SameProblem DEF ProjectionInv, InUse
<1>. QED  BY <1>2, <1>10, <1>11

LEMMA SolveKeeps ==
  ASSUME CallInv, RolloutInv, ProjectionInv, SolveUsable \/ SolveUnusable
  PROVE  CallInv' /\ RolloutInv' /\ ProjectionInv'
<1>1. CASE SolveUsable
  <2>1. /\ phase = "rolling" /\ phase' = "predicting"
        /\ UNCHANGED <<parameters, problem>> /\ people_proj' = people_proj
        /\ velocities' = velocities
        /\ step' = -1 /\ robot' = path[1] /\ agents' = slots
        /\ residuals' = NoResiduals /\ finite' = TRUE
    BY <1>1 DEF SolveUsable, RollFrom
  <2>2. CallInv'
    BY <2>1, SameCall DEF Busy
  <2>3. path[1] \in Poses /\ NumVelocities \in Nat \ {0}
    BY <2>1, PathFacts DEF CallInv, Busy
  <2>4. slots \in [1 .. 3 -> Somebody] /\ InUse(slots)
    BY SlotsInUse
  <2>5. InUse(agents)'
    BY <2>1, <2>4, SameProblem DEF InUse
  <2>6. velocities' \in [0 .. BlockOf(NumVelocities' - 1, Horizon', Length') -> Commands]
    BY <2>1, SameProblem DEF RolloutInv
  <2>7. step' \in -1 .. NumVelocities'
    BY <2>1, <2>3, SameProblem
  <2>8. RolloutInv'
    BY <2>1, <2>3, <2>4, <2>5, <2>6, <2>7 DEF RolloutInv
  <2>9. people_proj' = <<>> /\ Len(people_proj') = 0
    BY <2>1 DEF ProjectionInv
  <2>10. ProjectionInv'
    BY <2>1, <2>9, SameProblem DEF ProjectionInv, InUse
  <2>. QED  BY <2>2, <2>8, <2>10
<1>2. CASE SolveUnusable
  <2>1. /\ phase = "rolling" /\ phase' = "answered"
        /\ UNCHANGED <<parameters, problem, rollout, people_proj>>
    BY <1>2 DEF SolveUnusable
  <2>2. CallInv'
    BY <2>1, SameCall DEF Busy
  <2>3. RolloutInv'
    BY <2>1 DEF RolloutInv, rollout
  <2>4. ProjectionInv'
    BY <2>1, SameProblem DEF ProjectionInv, InUse
  <2>. QED  BY <2>2, <2>3, <2>4
<1>. QED  BY <1>1, <1>2

LEMMA ProjectKeeps ==
  ASSUME CallInv, RolloutInv, ProjectionInv, Project \/ Succeed
  PROVE  CallInv' /\ RolloutInv' /\ ProjectionInv'
<1>1. CASE Project
  <2>1. /\ phase = "predicting" /\ phase' = "predicting" /\ people # <<>> /\ step < NumVelocities
        /\ Roll /\ people_proj' = Append(people_proj, agents')
        /\ UNCHANGED <<parameters, problem>>
        /\ velocities' = velocities /\ residuals' = residuals /\ finite' = finite
    BY <1>1 DEF Project
  <2>2. CallInv'
    BY <2>1, SameCall DEF Busy
  <2>3. /\ step' = step + 1 /\ step' \in Nat
        /\ robot' \in Poses /\ agents' \in [1 .. 3 -> Somebody] /\ InUse(agents')
    BY <2>1, RollTypes
  <2>4. InUse(agents)'
    BY <2>1, <2>3, SameProblem DEF InUse
  <2>5. step' \in -1 .. NumVelocities'
    BY <2>1, <2>3, SameProblem, PathFacts DEF RolloutInv
  <2>6. velocities' \in [0 .. BlockOf(NumVelocities' - 1, Horizon', Length') -> Commands]
    BY <2>1, SameProblem DEF RolloutInv
  <2>7. RolloutInv'
    BY <2>1, <2>3, <2>4, <2>5, <2>6 DEF RolloutInv
  <2>. DEFINE Three == [1 .. 3 -> Somebody]
  <2>8. people_proj \in Seq(Three) /\ agents' \in Three
    BY <2>3 DEF ProjectionInv
  <2>. HIDE DEF Three
  <2>9. /\ people_proj' \in Seq(Three) /\ Len(people_proj') = Len(people_proj) + 1
        /\ DOMAIN people_proj' = 1 .. Len(people_proj) + 1
        /\ DOMAIN people_proj = 1 .. Len(people_proj) /\ Len(people_proj) \in Nat
        /\ \A k \in 1 .. Len(people_proj) : people_proj'[k] = people_proj[k]
        /\ people_proj'[Len(people_proj) + 1] = agents'
    BY <2>1, <2>8, AppendProperties, LenProperties
  <2>10. \A k \in DOMAIN people_proj' : InUse(people_proj'[k])
    <3>1. \A k \in DOMAIN people_proj : InUse(people_proj[k])
      BY DEF ProjectionInv
    <3>2. \A k \in 1 .. Len(people_proj) + 1 :
            k \in 1 .. Len(people_proj) \/ k = Len(people_proj) + 1
      BY <2>9
    <3>. QED  BY <2>3, <2>9, <3>1, <3>2
  <2>11. \A k \in DOMAIN people_proj' : InUse(people_proj[k])'
    BY <2>1, <2>10, SameProblem DEF InUse
  <2>12. Len(people_proj') = step' + 1 /\ people' # <<>>
    BY <2>1, <2>3, <2>9, SameProblem DEF ProjectionInv, RolloutInv
  <2>13. ProjectionInv'
    BY <2>1, <2>9, <2>11, <2>12 DEF ProjectionInv, Three
  <2>. QED  BY <2>2, <2>7, <2>13
<1>2. CASE Succeed
  <2>1. /\ phase = "predicting" /\ phase' = "answered" /\ (people = <<>> \/ step = NumVelocities)
        /\ UNCHANGED <<parameters, problem, rollout, people_proj>>
    BY <1>2 DEF Succeed
  <2>2. CallInv'
    BY <2>1, SameCall DEF Busy
  <2>3. RolloutInv'
    BY <2>1 DEF RolloutInv, rollout
  <2>4. people_proj' # <<>> => Len(people_proj') = Len(path')
    <3>1. people = <<>> => people_proj = <<>>
      BY <2>1, EmptySeq DEF ProjectionInv
    <3>2. people # <<>> => Len(people_proj) = Len(path)
      BY <2>1, PathFacts DEF ProjectionInv, RolloutInv
    <3>. QED  BY <2>1, <3>1, <3>2, SameProblem
  <2>5. ProjectionInv'
    BY <2>1, <2>4, SameProblem DEF ProjectionInv, InUse
  <2>. QED  BY <2>2, <2>3, <2>5
<1>. QED  BY <1>1, <1>2

-----------------------------------------------------------------------------
(***************************************************************************)
(* How a call begins and ends.                                             *)
(***************************************************************************)
LEMMA CutFacts ==
  ASSUME ParametersInv, setup = "ready", NEW poses \in Seq(Poses)
  PROVE  /\ Cut(poses) \in Seq(Poses) /\ Len(Cut(poses)) <= Len(poses)
         /\ \A k \in DOMAIN Cut(poses) : Cut(poses)[k] = poses[k]
         /\ Len(poses) >= 2 /\ Len(Cut(poses)) < 2 => optimizer["max_time"] < 3
<1>1. MaxSteps \in Int /\ MaxSteps = optimizer["max_time"]
  BY Defaults DEF MaxSteps, ParametersInv, ParametersTypeOK, ComponentsAgree
<1>2. /\ Len(poses) \in Nat /\ DOMAIN poses = 1 .. Len(poses)
      /\ \A k \in 1 .. Len(poses) : poses[k] \in Poses
  BY LenProperties, ElementOfSeq
<1>3. CASE Len(poses) > MaxSteps
  <2>. DEFINE n == MaxSteps - 1   cut == SubSeq(poses, 1, n)
  <2>1. Cut(poses) = cut
    BY <1>3 DEF Cut
  <2>2. n \in Int /\ n < Len(poses) /\ 1 \in Int
    BY <1>1, <1>2, <1>3
  <2>3. \A k \in 1 .. n : poses[k] \in Poses
    BY <1>2, <2>2
  <2>. HIDE DEF n
  <2>4. /\ cut \in Seq(Poses)
        /\ Len(cut) = IF 1 <= n THEN n - 1 + 1 ELSE 0
        /\ \A k \in 1 .. n - 1 + 1 : cut[k] = poses[1 + k - 1]
    BY <2>2, <2>3, SubSeqProperties
  <2>. HIDE DEF cut
  <2>5. DOMAIN cut = 1 .. Len(cut)
    BY <2>4, LenProperties
  <2>6. Len(cut) = (IF 1 <= n THEN n ELSE 0) /\ \A k \in 1 .. n : cut[k] = poses[k]
    BY <2>2, <2>4
  <2>7. \A k \in DOMAIN cut : cut[k] = poses[k]
    BY <2>2, <2>5, <2>6
  <2>8. Len(cut) <= Len(poses) /\ (Len(cut) < 2 => MaxSteps < 3)
    BY <1>1, <1>2, <2>2, <2>6 DEF n
  <2>. QED  BY <1>1, <2>1, <2>4, <2>7, <2>8
<1>4. CASE ~ (Len(poses) > MaxSteps)
  BY <1>2, <1>4 DEF Cut
<1>. QED  BY <1>3, <1>4

LEMMA CallKeeps ==
  ASSUME IInv, NEW t \in Trajectories, NEW p \in People, Reject(t, p) \/ Call(t, p)
  PROVE  IInv'
<1>1. /\ setup = "ready" /\ phase = "idle"
      /\ given' = t /\ people' = p /\ slots' = PeopleToStatus(p)
      /\ UNCHANGED <<parameters, rollout, people_proj>>
  BY DEF Reject, Call, CallBegins
<1>2. ParametersInv'
  BY <1>1, SameParameters DEF IInv
<1>3. setup' = "ready" /\ optimizer' = optimizer
  BY <1>1 DEF parameters
<1>4. t.poses \in Seq(Poses)
  BY OptimizerAssumption DEF Poses
<1>5. phase' \in {"solving", "crashed", "answered"}
  BY DEF Reject, Call
<1>6. RolloutInv'
  BY <1>1, <1>5 DEF IInv, RolloutInv, rollout
<1>7. people_proj' = <<>> /\ DOMAIN people_proj' = {} /\ ProjectionInv'
  <2>1. people_proj' = <<>>
    BY <1>1 DEF IInv, ProjectionInv
  <2>. QED  BY <2>1, <1>5 DEF IInv, ProjectionInv
<1>8. CASE Reject(t, p)
  <2>1. path' = t.poses /\ phase' = "answered"
    BY <1>8 DEF Reject
  <2>2. CallInv'
    BY <1>1, <1>3, <1>4, <2>1 DEF CallInv, Busy, ConfiguredCallsDefined
  <2>. QED  BY <1>2, <1>6, <1>7, <2>2 DEF IInv
<1>9. CASE Call(t, p)
  <2>1. /\ Len(t.poses) >= 2 /\ path' = Cut(t.poses)
        /\ phase' = IF NoOutcome THEN "crashed" ELSE "solving"
    BY <1>9 DEF Call
  <2>2. /\ path' \in Seq(Poses) /\ Len(path') <= Len(t.poses)
        /\ \A k \in DOMAIN path' : path'[k] = t.poses[k]
        /\ Len(path') < 2 => optimizer["max_time"] < 3
    BY <1>1, <1>4, <2>1, CutFacts DEF IInv
  <2>. DEFINE count == optimizer["control_horizon"]   size == optimizer["parameter_block_length"]
              n == NumVelocities'
  <2>3. count \in Nat /\ size \in Nat
    BY <1>1, ParametersAssumption DEF IInv, ParametersInv, CountsUnsigned
  <2>4. Len(path') \in Nat /\ n = Len(path') - 1
    BY <2>2, LenProperties DEF NumVelocities
  <2>5. Horizon' = AtMost(count, n) /\ Length' = AtMost(size, Horizon')
    BY <1>3 DEF Horizon, Length
  <2>. HIDE DEF count, size, n
  <2>6. /\ n >= 1 /\ count # 0 => Horizon' \in 1 .. n
        /\ Horizon' = 0 /\ n >= 1 => count = 0
    BY <2>3, <2>4, <2>5 DEF AtMost
  <2>7. /\ Horizon' \in 1 .. n /\ size # 0 => Length' \in 1 .. Horizon'
        /\ Horizon' \in 1 .. n /\ Length' = 0 => size = 0
    BY <2>3, <2>4, <2>5 DEF AtMost
  <2>8. CASE NoOutcome
    <3>1. Len(path') < 2 \/ Horizon' = 0 \/ Length' = 0
      BY <2>8 DEF NoOutcome
    <3>2. optimizer["max_time"] < 3 \/ count = 0 \/ size = 0
      BY <2>2, <2>3, <2>4, <2>6, <2>7, <3>1
    <3>3. ConfiguredCallsDefined'
      BY <1>3, <3>2 DEF ConfiguredCallsDefined, count, size
    <3>4. CallInv'
      BY <1>1, <1>3, <2>1, <2>2, <2>8, <3>3 DEF CallInv, Busy
    <3>. QED  BY <1>2, <1>6, <1>7, <3>4 DEF IInv
  <2>9. CASE ~ NoOutcome
    <3>1. Len(path') >= 2 /\ Horizon' # 0 /\ Length' # 0
      BY <2>4, <2>9 DEF NoOutcome
    <3>2. n >= 1 /\ count # 0 /\ size # 0
      BY <2>3, <2>4, <2>5, <3>1 DEF AtMost
    <3>3. NumVelocities' >= 1 /\ Horizon' \in 1 .. NumVelocities' /\ Length' \in 1 .. Horizon'
      BY <2>6, <2>7, <3>2 DEF n
    <3>4. CallInv'
      BY <1>1, <1>3, <2>1, <2>2, <2>9, <3>3 DEF CallInv, Busy, ConfiguredCallsDefined
    <3>. QED  BY <1>2, <1>6, <1>7, <3>4 DEF IInv
  <2>. QED  BY <2>8, <2>9
<1>. QED  BY <1>8, <1>9

LEMMA RestOfNoCall ==
  ASSUME NoCall, phase' = "idle", given' = given, given \in Trajectories
  PROVE  CallInv' /\ RolloutInv' /\ ProjectionInv'
<1>1. /\ people' = <<>> /\ path' = <<>> /\ slots' = PeopleToStatus(<<>>) /\ velocities' = <<>>
      /\ step' = -1 /\ robot' = Origin /\ agents' = PeopleToStatus(<<>>)
      /\ residuals' = NoResiduals /\ finite' = TRUE /\ people_proj' = <<>>
  BY DEF NoCall, RollFrom
<1>2. CallInv'
  <2>1. path' \in Seq(Poses)
    BY <1>1
  <2>. QED  BY <1>1, <2>1 DEF CallInv, Busy, ConfiguredCallsDefined
<1>3. RolloutInv'
  <2>1. PeopleToStatus(<<>>) \in [1 .. 3 -> Somebody]
    BY SlotsType
  <2>2. Origin \in Poses
    BY DEF Origin, Poses
  <2>. QED  BY <1>1, <2>1, <2>2 DEF RolloutInv
<1>4. ProjectionInv'
  BY <1>1 DEF ProjectionInv
<1>. QED  BY <1>2, <1>3, <1>4

LEMMA Begin == Init => IInv
<1>. SUFFICES ASSUME Init PROVE IInv
  OBVIOUS
<1>1. /\ phase = "idle" /\ given \in Trajectories
      /\ people = <<>> /\ path = <<>> /\ slots = PeopleToStatus(<<>>)
      /\ step = -1 /\ robot = Origin /\ agents = PeopleToStatus(<<>>)
      /\ residuals = NoResiduals /\ finite = TRUE /\ people_proj = <<>>
  BY DEF Init
<1>2. ParametersInv
  BY StartParameters DEF Init
<1>3. CallInv
  <2>1. path \in Seq(Poses)
    BY <1>1
  <2>. QED  BY <1>1, <2>1 DEF CallInv, Busy, ConfiguredCallsDefined
<1>4. RolloutInv
  <2>1. PeopleToStatus(<<>>) \in [1 .. 3 -> Somebody]
    BY SlotsType
  <2>2. Origin \in Poses
    BY DEF Origin, Poses
  <2>. QED  BY <1>1, <2>1, <2>2 DEF RolloutInv
<1>5. ProjectionInv
  BY <1>1 DEF ProjectionInv
<1>. QED  BY <1>2, <1>3, <1>4, <1>5 DEF IInv

LEMMA Step == IInv /\ [Next]_vars => IInv'
<1>. SUFFICES ASSUME IInv, [Next]_vars PROVE IInv'
  OBVIOUS
<1>. USE DEF IInv
<1>1. CASE ConfigureStep
  <2>1. /\ phase = "idle" /\ UNCHANGED <<phase, problem, rollout, people_proj>> /\ Configure
    BY <1>1 DEF ConfigureStep
  <2>2. ParametersInv'
    BY <2>1, ConfigureKeeps
  <2>3. CallInv'
    BY <2>1 DEF CallInv, Busy, ConfiguredCallsDefined, problem
  <2>4. RolloutInv'
    BY <2>1 DEF RolloutInv, rollout
  <2>5. ProjectionInv'
    BY <2>1 DEF ProjectionInv, InUse, problem
  <2>. QED  BY <2>2, <2>3, <2>4, <2>5
<1>2. CASE \E t \in Trajectories, p \in People : Reject(t, p) \/ Call(t, p)
  BY <1>2, CallKeeps
<1>3. CASE Evaluate
  <2>1. UNCHANGED parameters
    BY <1>3 DEF Evaluate
  <2>. QED  BY <1>3, <2>1, SameParameters, EvaluateKeeps
<1>4. CASE Advance
  <2>1. UNCHANGED parameters
    BY <1>4 DEF Advance
  <2>. QED  BY <1>4, <2>1, SameParameters, AdvanceKeeps
<1>5. CASE SolveUsable \/ SolveUnusable
  <2>1. UNCHANGED parameters
    BY <1>5 DEF SolveUsable, SolveUnusable
  <2>. QED  BY <1>5, <2>1, SameParameters, SolveKeeps
<1>6. CASE Project \/ Succeed
  <2>1. UNCHANGED parameters
    BY <1>6 DEF Project, Succeed
  <2>. QED  BY <1>6, <2>1, SameParameters, ProjectKeeps
<1>7. CASE Publish
  <2>1. phase' = "idle" /\ NoCall /\ UNCHANGED parameters /\ given' = given
    BY <1>7 DEF Publish
  <2>2. given \in Trajectories
    BY DEF CallInv
  <2>. QED  BY <2>1, <2>2, SameParameters, RestOfNoCall
<1>8. CASE RestartProcess
  <2>1. phase' = "idle" /\ NoCall /\ Restart /\ given' = given
    BY <1>8 DEF RestartProcess
  <2>2. given \in Trajectories
    BY DEF CallInv
  <2>. QED  BY <2>1, <2>2, RestartParameters, RestOfNoCall
<1>9. CASE UNCHANGED vars
  <2>1. UNCHANGED <<parameters, phase, problem, rollout, people_proj>>
    BY <1>9 DEF vars
  <2>2. ParametersInv'
    BY <2>1, SameParameters
  <2>3. CallInv'
    BY <2>1, SameProblem DEF CallInv, Busy, ConfiguredCallsDefined
  <2>4. Residuals(step, robot, agents)' = Residuals(step, robot, agents)
    BY <2>1, SameResiduals DEF rollout
  <2>5. Tracks' <=> Tracks
    BY <2>1, SameProblem DEF Tracks, Velocity, rollout
  <2>6. RolloutInv'
    BY <2>1, <2>4, <2>5, SameProblem DEF RolloutInv, InUse, rollout
  <2>7. ProjectionInv'
    BY <2>1, SameProblem DEF ProjectionInv, InUse, rollout
  <2>. QED  BY <2>2, <2>3, <2>6, <2>7
<1>. QED  BY <1>1, <1>2, <1>3, <1>4, <1>5, <1>6, <1>7, <1>8, <1>9 DEF Next

LEMMA AlwaysIInv == Spec => []IInv
BY Begin, Step, PTL DEF Spec

-----------------------------------------------------------------------------
(***************************************************************************)
(* Nobody is predicted faster than the balance or the detection allows.    *)
(***************************************************************************)
Still(places) == \A s \in 1 .. 3, i \in 1 .. 2 : places[s].v[i] \in -Balance .. Balance

SpeedInv ==
  /\ NoFaster(agents) /\ \A k \in DOMAIN people_proj : NoFaster(people_proj[k])
  /\ phase = "idle" => Still(agents)

LEMMA NobodyStill ==
  ASSUME NEW a, a = PeopleToStatus(<<>>)
  PROVE  Still(a)
<1>1. Balance \in Nat
  BY ForceAssumption DEF Balance
<1>2. ASSUME NEW s \in 1 .. 3, NEW i \in 1 .. 2
      PROVE  a[s].v[i] = 0
  BY DEF PeopleToStatus, Padding
<1>. QED  BY <1>1, <1>2 DEF Still

LEMMA DetectedNoFaster ==
  ASSUME CallInv
  PROVE  NoFaster(slots)
<1>1. ASSUME NEW s \in 1 .. 3, NEW i \in 1 .. 2
      PROVE  slots[s].v[i] \in Int
  <2>1. slots[s].v \in Plane
    BY SlotsInUse DEF Somebody
  <2>. QED  BY <2>1, PlaneFacts
<1>. QED  BY <1>1 DEF NoFaster

LEMMA RollNoFaster ==
  ASSUME CallInv, RolloutInv, phase \in {"rolling", "predicting"}, NoFaster(agents), Roll
  PROVE  NoFaster(agents')
<1>1. /\ step' \in Nat /\ robot' \in Poses
      /\ agents' = [s \in 1 .. 3 |-> Predict(agents[s], AsAgent(robot', Velocity(step')))]
  BY RollTypes DEF Roll
<1>2. AsAgent(robot', Velocity(step')) \in Somebody
  BY <1>1, VelocityType, DriveType
<1>3. Balance \in Nat
  BY ForceAssumption DEF Balance
<1>. DEFINE r == AsAgent(robot', Velocity(step'))
<1>. HIDE DEF r
<1>4. ASSUME NEW s \in 1 .. 3, NEW i \in 1 .. 2
      PROVE  \E top \in {Balance, slots[s].v[i], -slots[s].v[i]} : agents'[s].v[i] \in -top .. top
  <2>1. agents'[s] = Predict(agents[s], r) /\ agents[s] \in Somebody
    BY <1>1 DEF r, RolloutInv
  <2>2. PICK top \in {Balance, slots[s].v[i], -slots[s].v[i]} : agents[s].v[i] \in -top .. top
    BY DEF NoFaster
  <2>3. top \in Int
    <3>1. slots[s].v \in Plane
      BY SlotsInUse DEF Somebody
    <3>. QED  BY <1>3, <3>1, PlaneFacts
  <2>4. top \in Nat
    <3>1. agents[s].v \in Plane
      BY <2>1 DEF Somebody
    <3>. QED  BY <2>2, <2>3, <3>1, PlaneFacts
  <2>5. CASE top >= Balance
    <3>1. Predict(agents[s], r).v[i] \in -top .. top
      BY <1>2, <2>1, <2>2, <2>4, <2>5, PredictNoFaster DEF r
    <3>. QED  BY <2>1, <3>1
  <2>6. CASE ~ (top >= Balance)
    <3>1. agents[s].v[i] \in -Balance .. Balance /\ Balance >= Balance
      BY <1>3, <2>2, <2>4, <2>6
    <3>2. Predict(agents[s], r).v[i] \in -Balance .. Balance
      BY <1>2, <1>3, <2>1, <3>1, PredictNoFaster DEF r
    <3>. QED  BY <2>1, <3>2
  <2>. QED  BY <2>5, <2>6
<1>. QED  BY <1>4 DEF NoFaster

LEMMA SpeedBegins == Init => SpeedInv
<1>1. ASSUME Init
      PROVE  Still(agents) /\ people_proj = <<>>
  BY <1>1, NobodyStill DEF Init
<1>2. Still(agents) => NoFaster(agents)
  BY DEF Still, NoFaster
<1>. QED  BY <1>1, <1>2 DEF SpeedInv

LEMMA SpeedStep ==
  ASSUME IInv, SpeedInv, [Next]_vars
  PROVE  SpeedInv'
<1>. USE DEF IInv
<1>. DEFINE Held(a) == \A s \in 1 .. 3, i \in 1 .. 2 :
                         \E top \in {Balance, slots'[s].v[i], -slots'[s].v[i]} : a[s].v[i] \in -top .. top
<1>1. /\ NoFaster(agents)' <=> Held(agents')
      /\ (\A k \in DOMAIN people_proj : NoFaster(people_proj[k]))'
           <=> \A k \in DOMAIN people_proj' : Held(people_proj'[k])
      /\ Still(agents)' <=> Still(agents')
  BY DEF NoFaster, Still, Balance
<1>2. ASSUME NEW a, slots' = slots
       PROVE  NoFaster(a) <=> Held(a)
  BY <1>2 DEF NoFaster
<1>3. ASSUME NEW a, Still(a)
       PROVE  Held(a)
  BY <1>3 DEF Still
<1>4. SpeedInv' <=> /\ Held(agents')
                    /\ \A k \in DOMAIN people_proj' : Held(people_proj'[k])
                    /\ phase' = "idle" => Still(agents')
  BY <1>1 DEF SpeedInv
<1>. HIDE DEF Held
<1>5. ASSUME slots' = slots, agents' = agents, people_proj' = people_proj,
             phase' = "idle" => phase = "idle"
      PROVE  SpeedInv'
  BY <1>5, <1>2, <1>4 DEF SpeedInv
<1>6. ASSUME NoCall
      PROVE  SpeedInv'
  <2>1. agents' = PeopleToStatus(<<>>) /\ people_proj' = <<>>
    BY <1>6 DEF NoCall, RollFrom
  <2>. QED  BY <1>3, <1>4, <2>1, NobodyStill
<1>7. CASE ConfigureStep
  BY <1>5, <1>7 DEF ConfigureStep, problem, rollout
<1>8. ASSUME NEW t \in Trajectories, NEW p \in People, Reject(t, p) \/ Call(t, p)
      PROVE  SpeedInv'
  <2>1. /\ phase = "idle" /\ phase' # "idle" /\ agents' = agents /\ people_proj' = people_proj
    BY <1>8 DEF Reject, Call, CallBegins, rollout
  <2>2. people_proj' = <<>> /\ Still(agents')
    BY <2>1 DEF ProjectionInv, SpeedInv
  <2>. QED  BY <1>3, <1>4, <2>1, <2>2
<1>9. ASSUME Evaluate \/ SolveUsable
      PROVE  SpeedInv'
  <2>1. /\ agents' = slots /\ slots' = slots /\ people_proj' = people_proj /\ phase' # "idle"
    BY <1>9 DEF Evaluate, SolveUsable, RollFrom, problem
  <2>. QED  BY <1>2, <1>4, <2>1, DetectedNoFaster DEF SpeedInv
<1>10. CASE Advance
  <2>1. /\ phase = "rolling" /\ Roll /\ slots' = slots /\ people_proj' = people_proj
        /\ phase' # "idle"
    BY <1>10 DEF Advance, problem
  <2>2. NoFaster(agents')
    BY <2>1, RollNoFaster DEF SpeedInv
  <2>. QED  BY <1>2, <1>4, <2>1, <2>2 DEF SpeedInv
<1>11. CASE SolveUnusable
  BY <1>5, <1>11 DEF SolveUnusable, problem, rollout
<1>12. CASE Project
  <2>1. /\ phase = "predicting" /\ Roll /\ slots' = slots /\ phase' # "idle"
        /\ people_proj' = Append(people_proj, agents')
    BY <1>12 DEF Project, problem
  <2>2. NoFaster(agents')
    BY <2>1, RollNoFaster DEF SpeedInv
  <2>. DEFINE Three == [1 .. 3 -> Somebody]
  <2>3. people_proj \in Seq(Three) /\ agents' \in Three
    BY <2>1, RollTypes DEF ProjectionInv
  <2>. HIDE DEF Three
  <2>4. /\ DOMAIN people_proj' = 1 .. Len(people_proj) + 1
        /\ DOMAIN people_proj = 1 .. Len(people_proj) /\ Len(people_proj) \in Nat
        /\ \A k \in 1 .. Len(people_proj) : people_proj'[k] = people_proj[k]
        /\ people_proj'[Len(people_proj) + 1] = agents'
    BY <2>1, <2>3, AppendProperties, LenProperties
  <2>5. \A k \in DOMAIN people_proj' : NoFaster(people_proj'[k])
    <3>1. \A k \in DOMAIN people_proj : NoFaster(people_proj[k])
      BY DEF SpeedInv
    <3>2. \A k \in 1 .. Len(people_proj) + 1 :
            k \in 1 .. Len(people_proj) \/ k = Len(people_proj) + 1
      BY <2>4
    <3>. QED  BY <2>2, <2>4, <3>1, <3>2
  <2>. QED  BY <1>2, <1>4, <2>1, <2>2, <2>5
<1>13. CASE Succeed
  BY <1>5, <1>13 DEF Succeed, problem, rollout
<1>14. CASE Publish \/ RestartProcess
  BY <1>6, <1>14 DEF Publish, RestartProcess
<1>15. CASE UNCHANGED vars
  BY <1>5, <1>15 DEF vars, problem, rollout
<1>. QED  BY <1>7, <1>8, <1>9, <1>10, <1>11, <1>12, <1>13, <1>14, <1>15 DEF Next

LEMMA AlwaysSpeedInv == Spec => []SpeedInv
<1>1. IInv /\ SpeedInv /\ [Next]_vars => SpeedInv'
  BY SpeedStep
<1>. QED  BY <1>1, SpeedBegins, AlwaysIInv, PTL DEF Spec

-----------------------------------------------------------------------------
(***************************************************************************)
(* The nearest of the people who walk.                                     *)
(***************************************************************************)
LEMMA SquareDistType ==
  ASSUME NEW a \in Plane, NEW b \in Plane
  PROVE  SquareDist(a, b) \in Int
BY DifferenceType, DotType DEF SquareDist

\* What the loop knows after the places in K: the nearest walker of them.
Found(walkers, dist, K, best) ==
  /\ best.d2 \in Int /\ best.who \in 0 .. 3
  /\ best.who = 0 => best.d2 = 99990000
  /\ best.who # 0 => best.who \in walkers /\ best.d2 = dist[best.who]
  /\ \A s \in walkers \intersect K : best.d2 <= dist[s]

LEMMA LookFinds ==
  ASSUME NEW a \in [1 .. 3 -> Somebody], NEW r \in Poses, NEW K \in SUBSET (1 .. 3),
         NEW best, NEW s \in 1 .. 3,
         NEW walkers, walkers = {x \in Places(a) : Moving(a[x])},
         NEW dist, dist = [x \in 1 .. 3 |-> SquareDist(a[x].at, r.at)],
         Found(walkers, dist, K, best)
  PROVE  Found(walkers, dist, K \union {s}, Look(r, a, best, s))
<1>1. \A x \in 1 .. 3 : dist[x] \in Int
  BY SquareDistType DEF Somebody, Poses, Plane
<1>2. Look(r, a, best, s) =
        IF s \in walkers /\ dist[s] < best.d2 THEN [who |-> s, d2 |-> dist[s]] ELSE best
  BY DEF Look, Places
<1>3. walkers \subseteq 1 .. 3
  BY DEF Places
<1>4. CASE s \in walkers /\ dist[s] < best.d2
  <2>1. Look(r, a, best, s) = [who |-> s, d2 |-> dist[s]]
    BY <1>2, <1>4
  <2>2. \A x \in walkers \intersect (K \union {s}) : dist[s] <= dist[x]
    BY <1>1, <1>3, <1>4 DEF Found
  <2>. QED  BY <1>1, <1>4, <2>1, <2>2 DEF Found
<1>5. CASE ~ (s \in walkers /\ dist[s] < best.d2)
  <2>1. Look(r, a, best, s) = best
    BY <1>2, <1>5
  <2>2. \A x \in walkers \intersect (K \union {s}) : best.d2 <= dist[x]
    BY <1>1, <1>3, <1>5 DEF Found
  <2>. QED  BY <2>1, <2>2 DEF Found
<1>. QED  BY <1>4, <1>5

LEMMA ClosestFound ==
  ASSUME NEW a \in [1 .. 3 -> Somebody], NEW r \in Poses,
         NEW walkers, walkers = {x \in Places(a) : Moving(a[x])},
         NEW dist, dist = [x \in 1 .. 3 |-> SquareDist(a[x].at, r.at)]
  PROVE  Found(walkers, dist, 1 .. 3, Closest(r, a))
<1>. DEFINE b1 == Look(r, a, Nobody, 1)   b2 == Look(r, a, b1, 2)   b3 == Look(r, a, b2, 3)
<1>1. Found(walkers, dist, {}, Nobody)
  BY DEF Found, Nobody
<1>2. {} \union {1} = {1} /\ {1} \union {2} = {1, 2} /\ {1, 2} \union {3} = 1 .. 3
      /\ {} \in SUBSET (1 .. 3) /\ {1} \in SUBSET (1 .. 3) /\ {1, 2} \in SUBSET (1 .. 3)
      /\ 1 \in 1 .. 3 /\ 2 \in 1 .. 3 /\ 3 \in 1 .. 3
  OBVIOUS
<1>3. Found(walkers, dist, {} \union {1}, b1)
  BY <1>1, <1>2, LookFinds, Zenon
<1>4. Found(walkers, dist, {1}, b1)
  BY <1>2, <1>3
<1>. HIDE DEF b1
<1>5. Found(walkers, dist, {1} \union {2}, b2)
  BY <1>2, <1>4, LookFinds, Zenon
<1>6. Found(walkers, dist, {1, 2}, b2)
  BY <1>2, <1>5
<1>. HIDE DEF b2
<1>7. Found(walkers, dist, {1, 2} \union {3}, b3)
  BY <1>2, <1>6, LookFinds, Zenon
<1>8. Found(walkers, dist, 1 .. 3, b3)
  BY <1>2, <1>7
<1>. QED  BY <1>8 DEF Closest, b3, b2, b1

LEMMA NearestPaidFor ==
  ASSUME IInv, phase = "rolling", step >= 0
  PROVE  /\ optimizer["enable_angle"] = 1 =>
              IF Within(40000) = {} THEN residuals.angle = 0
              ELSE \E s \in Nearest : residuals.angle = AnglePenalty(robot, agents[s])
         /\ optimizer["enable_crossing"] = 1 =>
              IF Within(160000) = {} THEN residuals.crossing = 0
              ELSE \E s \in Nearest :
                     residuals.crossing = CrossingPenalty(robot, Velocity(step), agents[s])
<1>. DEFINE dist == [x \in 1 .. 3 |-> SquareDist(agents[x].at, robot.at)]
            best == Closest(robot, agents)
<1>1. robot \in Poses /\ agents \in [1 .. 3 -> Somebody] /\ InUse(agents)
      /\ residuals = Residuals(step, robot, agents)
  BY DEF IInv, RolloutInv
<1>2. Found(Walkers, dist, 1 .. 3, best)
  BY <1>1, ClosestFound DEF Walkers
<1>3. Walkers \subseteq 1 .. 3 /\ \A x \in 1 .. 3 : dist[x] \in Int
  BY <1>1, SquareDistType DEF Walkers, Places, Somebody, Poses, Plane
<1>4. /\ Nearest = {s \in Walkers : \A r \in Walkers : dist[s] <= dist[r]}
      /\ \A range2 : Within(range2) = {s \in Nearest : dist[s] <= range2}
  BY <1>3 DEF Nearest, Within
<1>. HIDE DEF dist, best
<1>5. best.who # 0 => best.who \in Nearest /\ best.d2 = dist[best.who]
  BY <1>2, <1>3, <1>4 DEF Found
<1>6. ASSUME NEW range2 \in {40000, 160000}
      PROVE  Within(range2) = {} <=> (best.who = 0 \/ best.d2 > range2)
  <2>1. ASSUME best.who # 0, ~ (best.d2 > range2)
        PROVE  best.who \in Within(range2)
    BY <1>2, <1>3, <1>4, <1>5, <2>1 DEF Found
  <2>2. ASSUME NEW s \in Within(range2)
        PROVE  best.who # 0 /\ ~ (best.d2 > range2)
    <3>1. s \in Walkers /\ dist[s] <= range2
      BY <1>4, <2>2
    <3>2. best.d2 <= dist[s] /\ best.d2 \in Int /\ dist[s] \in Int
      BY <1>2, <1>3, <3>1 DEF Found
    <3>3. best.d2 <= range2 /\ best.d2 # 99990000
      BY <3>1, <3>2
    <3>. QED  BY <1>2, <3>2, <3>3 DEF Found
  <2>. QED  BY <2>1, <2>2
<1>7. people = <<>> => Walkers = {}
  <2>1. ~ Valid(Padding)
    BY DEF Valid, Padding
  <2>. QED  BY <1>1, <2>1 DEF InUse, Walkers, Places
<1>8. people = <<>> => Within(40000) = {} /\ Within(160000) = {}
  BY <1>4, <1>7
<1>9. ASSUME optimizer["enable_angle"] = 1
      PROVE  residuals.angle = IF people = <<>> \/ best.who = 0 \/ best.d2 > 40000 THEN 0
                               ELSE AnglePenalty(robot, agents[best.who])
  <2>1. residuals.angle = Social("enable_angle", AgentAngleCost(robot, agents))
    BY <1>1 DEF Residuals
  <2>. QED  BY <1>9, <2>1 DEF Social, AgentAngleCost, best
<1>10. ASSUME optimizer["enable_crossing"] = 1
       PROVE  residuals.crossing = IF people = <<>> \/ best.who = 0 \/ best.d2 > 160000 THEN 0
                                   ELSE CrossingPenalty(robot, Velocity(step), agents[best.who])
  <2>1. residuals.crossing = Social("enable_crossing", CrossingCost(robot, Velocity(step), agents))
    BY <1>1 DEF Residuals
  <2>. QED  BY <1>10, <2>1 DEF Social, CrossingCost, best
<1>. QED  BY <1>5, <1>6, <1>8, <1>9, <1>10

(***************************************************************************)
(* A rollout along the path.                                               *)
(***************************************************************************)
LEMMA NoDistance ==
  ASSUME NEW a \in Plane
  PROVE  SquareDist(a, a) = 0
<1>1. Minus(a, a) = <<a[1] - a[1], a[2] - a[2]>>
  BY DifferenceType
<1>2. Minus(a, a) = <<0, 0>>
  BY <1>1, PlaneFacts
<1>. QED  BY <1>2, PlaneFacts DEF SquareDist, Dot, Plane

LEMMA TrackedIsFree ==
  ASSUME IInv, phase = "rolling", step >= 0, Tracks
  PROVE  /\ residuals.align = 0
         /\ step = NumVelocities - 1 => residuals.follow = 0 /\ residuals.goal_align = 0
<1>1. /\ residuals = Residuals(step, robot, agents) /\ robot = path[step + 2]
      /\ robot \in Poses /\ step \in -1 .. NumVelocities - 1
  BY DEF IInv, RolloutInv
<1>2. robot.at \in Plane /\ robot.yaw \in Int
  BY <1>1 DEF Poses, Plane
<1>3. SquareDist(robot.at, robot.at) = 0
  BY <1>2, NoDistance
<1>4. residuals.align = 0
  <2>1. residuals.align = Enabled("enable_path_align", DistanceCost(robot, path[step + 2].at))
    BY <1>1 DEF Residuals, PointOf
  <2>. QED  BY <1>1, <1>3, <2>1 DEF Enabled, DistanceCost
<1>5. ASSUME step = NumVelocities - 1
      PROVE  residuals.follow = 0 /\ residuals.goal_align = 0
  <2>1. step + 2 = Len(path)
    BY <1>5, PathFacts DEF IInv
  <2>2. /\ residuals.follow = Enabled("enable_path_follow", DistanceCost(robot, path[Len(path)].at))
        /\ residuals.goal_align = GoalAlignCost(robot, path[Len(path)].yaw)
    BY <1>1 DEF Residuals
  <2>3. residuals.follow = 0
    BY <1>1, <1>3, <2>1, <2>2 DEF Enabled, DistanceCost
  <2>4. Wrapped(robot.yaw - robot.yaw) = 0
    BY <1>2 DEF Wrapped
  <2>. QED  BY <1>1, <2>1, <2>2, <2>3, <2>4 DEF GoalAlignCost
<1>. QED  BY <1>4, <1>5

(***************************************************************************)
(* The lines of the markers.                                               *)
(***************************************************************************)
LEMMA UsedPlaces ==
  ASSUME CallInv, NEW a, InUse(a)
  PROVE  AtMost(3, Len(people)) \in Nat /\ Places(a) = 1 .. AtMost(3, Len(people))
<1>. DEFINE One == [at : Plane, v : Plane]
<1>1. people \in Seq(One)
  <2>1. CASE people \in People
    BY <2>1, OptimizerAssumption DEF Plane
  <2>2. CASE people = <<>>
    <3>. HIDE DEF One
    <3>. QED  BY <2>2
  <2>. QED  BY <2>1, <2>2 DEF CallInv
<1>. HIDE DEF One
<1>2. Len(people) \in Nat /\ DOMAIN people = 1 .. Len(people)
  BY <1>1, LenProperties
<1>3. ~ Valid(Padding)
  BY DEF Valid, Padding
<1>4. Places(a) = {s \in 1 .. 3 : s \in DOMAIN people}
  BY <1>3 DEF InUse, Places
<1>5. AtMost(3, Len(people)) \in Nat
      /\ {s \in 1 .. 3 : s \in 1 .. Len(people)} = 1 .. AtMost(3, Len(people))
  BY <1>2 DEF AtMost
<1>. QED  BY <1>2, <1>4, <1>5

LEMMA NthIsNth ==
  ASSUME NEW a, NEW n \in Nat, Places(a) = 1 .. n, NEW m \in 1 .. n
  PROVE  NthPlace(a, m) = m
<1>1. ASSUME NEW s \in 1 .. n
      PROVE  Cardinality({r \in Places(a) : r < s}) = s - 1
  <2>1. {r \in Places(a) : r < s} = 1 .. s - 1
    OBVIOUS
  <2>2. 1 \in Int /\ s - 1 \in Int
    OBVIOUS
  <2>3. Cardinality(1 .. s - 1) = IF 1 > s - 1 THEN 0 ELSE s - 1 - 1 + 1
    BY <2>2, FS_Interval
  <2>4. Cardinality(1 .. s - 1) = s - 1
    BY <2>2, <2>3
  <2>. QED  BY <2>1, <2>4, Zenon
<1>2. \A s \in Places(a) : Cardinality({r \in Places(a) : r < s}) = m - 1 <=> s = m
  BY <1>1
<1>3. m \in Places(a)
  OBVIOUS
<1>. QED  BY <1>2, <1>3, Zenon DEF NthPlace

LEMMA PublishedLines ==
  ASSUME IInv, phase = "answered", people_proj # <<>>
  PROVE  LinesOfPeople(Lines(people_proj))
<1>. DEFINE n == AtMost(3, Len(people))
<1>1. /\ DOMAIN people_proj = 1 .. Len(path) /\ Len(path) \in Nat \ {0}
      /\ \A k \in DOMAIN people_proj : InUse(people_proj[k])
  <2>1. Len(people_proj) = Len(path)
    BY DEF IInv, ProjectionInv
  <2>2. /\ DOMAIN people_proj = 1 .. Len(people_proj) /\ Len(people_proj) \in Nat
        /\ Len(people_proj) # 0
    BY LenProperties, EmptySeq DEF IInv, ProjectionInv
  <2>. QED  BY <2>1, <2>2 DEF IInv, ProjectionInv
<1>2. n \in Nat /\ \A k \in DOMAIN people_proj : Places(people_proj[k]) = 1 .. n
  <2>1. CallInv
    BY DEF IInv
  <2>2. \A k \in DOMAIN people_proj : n \in Nat /\ Places(people_proj[k]) = 1 .. n
    BY <1>1, <2>1, UsedPlaces, Zenon
  <2>3. 1 \in DOMAIN people_proj
    BY <1>1
  <2>. QED  BY <2>2, <2>3, Zenon
<1>. HIDE DEF n
<1>3. \A k \in DOMAIN people_proj : \A m \in 1 .. n : NthPlace(people_proj[k], m) = m
  BY <1>2, NthIsNth
<1>4. 1 \in DOMAIN people_proj
  BY <1>1
<1>5. Cardinality(Places(people_proj[1])) = n
  <2>1. Cardinality(1 .. n) = IF 1 > n THEN 0 ELSE n - 1 + 1
    BY <1>2, FS_Interval
  <2>. QED  BY <1>2, <1>4, <2>1
<1>. DEFINE lines == Lines(people_proj)
<1>6. ASSUME NEW m \in 1 .. n
      PROVE  lines[m].id = m - 1 /\ lines[m].points = [k \in 1 .. Len(path) |-> people_proj[k][m].at]
  <2>1. lines[m] = [id |-> NthPlace(people_proj[1], m) - 1,
                    points |-> [k \in DOMAIN people_proj |->
                                  people_proj[k][NthPlace(people_proj[k], m)].at]]
    BY <1>5 DEF Lines
  <2>2. \A k \in DOMAIN people_proj :
          people_proj[k][NthPlace(people_proj[k], m)].at = people_proj[k][m].at
    BY <1>3
  <2>3. lines[m].points = [k \in DOMAIN people_proj |-> people_proj[k][m].at]
    <3>1. lines[m].points = [k \in DOMAIN people_proj |->
                               people_proj[k][NthPlace(people_proj[k], m)].at]
      BY <2>1
    <3>. QED  BY <2>2, <3>1, Zenon
  <2>4. lines[m].id = m - 1
    BY <1>3, <1>4, <2>1
  <2>. QED  BY <1>1, <2>3, <2>4
<1>7. DOMAIN lines = 1 .. n
  BY <1>5 DEF Lines
<1>8. Len(lines) = n
  <2>1. lines = [m \in 1 .. n |-> lines[m]]
    BY <1>5 DEF Lines
  <2>. HIDE DEF lines
  <2>. QED  BY <1>2, <2>1, SMT
<1>. HIDE DEF lines
<1>9. LinesOfPeople(lines)
  BY <1>6, <1>7, <1>8 DEF LinesOfPeople, n
<1>. QED  BY <1>9 DEF lines

-----------------------------------------------------------------------------
(***************************************************************************)
(* The theorems.                                                           *)
(***************************************************************************)
LEMMA LargerSeq ==
  ASSUME NEW A, NEW B, A \subseteq B, NEW s \in Seq(A)
  PROVE  s \in Seq(B)
OBVIOUS

(* Type correctness: counts below zero become large ones, and no rollout   *)
(* goes past the path (optimizer.cpp:192-193, 337).                        *)
THEOREM TypeCorrect == Spec => []TypeOK
<1>1. ASSUME IInv PROVE TypeOK
  <2>1. ParametersTypeOK /\ CountsUnsigned
    BY <1>1 DEF IInv, ParametersInv
  <2>2. CallTypeOK
    <3>1. slots \in [1 .. 3 -> Persons]
      BY <1>1, SlotsInUse, SomebodyDefined DEF IInv
    <3>. QED  BY <1>1, <3>1 DEF IInv, CallInv, CallTypeOK
  <2>3. people_proj \in Seq([1 .. 3 -> Persons])
    <3>1. [1 .. 3 -> Somebody] \subseteq [1 .. 3 -> Persons]
      BY SomebodyDefined
    <3>2. people_proj \in Seq([1 .. 3 -> Somebody])
      BY <1>1 DEF IInv, ProjectionInv
    <3>. QED  BY <3>1, <3>2, LargerSeq, Zenon
  <2>4. agents \in [1 .. 3 -> Persons]
    BY <1>1, SomebodyDefined DEF IInv, RolloutInv
  <2>5. RolloutTypeOK
    BY <1>1, <2>3, <2>4 DEF IInv, RolloutInv, RolloutTypeOK
  <2>. QED  BY <2>1, <2>2, <2>5 DEF TypeOK
<1>2. IInv => TypeOK
  BY <1>1
<1>. QED  BY <1>2, AlwaysIInv, PTL

(* Controller, trajectorizer and optimizer hold the same values once       *)
(* configured, whatever file, failed attempt or change came before         *)
(* (optimizer.cpp:125-146, path_trajectorizer.cpp:109-140).                *)
THEOREM AlwaysComponentsAgree == Spec => []ComponentsAgree
<1>1. IInv => ComponentsAgree
  BY DEF IInv, ParametersInv
<1>. QED  BY <1>1, AlwaysIInv, PTL

(* Only a maximum time below three steps or a count of zero makes a call   *)
(* undefined in C++ (optimizer.cpp:249, 331-340, 643-648).                 *)
THEOREM AlwaysCallsDefined == Spec => []ConfiguredCallsDefined
<1>1. IInv => ConfiguredCallsDefined
  BY DEF IInv, CallInv
<1>. QED  BY <1>1, AlwaysIInv, PTL

(* In any number of steps, nobody comes of an unused place, and no person  *)
(* is lost (optimizer.cpp:619-630, update_state.hpp:218-224, 241).         *)
THEOREM AlwaysPaddingInert == Spec => []PaddingInert
<1>1. IInv => PaddingInert
  BY DEF IInv, RolloutInv, ProjectionInv, PaddingInert
<1>. QED  BY <1>1, AlwaysIInv, PTL

(* Predicted people are always somewhere, for the safeguard of the         *)
(* prediction excludes each division by zero, and at any horizon no faster *)
(* than detected or than braking allows (update_state.hpp:87-126, 224-239).*)
THEOREM AlwaysPredictionDefined == Spec => []PredictionDefined
<1>1. ASSUME IInv, SpeedInv PROVE PredictionDefined
  <2>1. Defined(agents)
    BY <1>1, SomebodyDefined DEF IInv, RolloutInv
  <2>2. ASSUME NEW k \in DOMAIN people_proj
        PROVE  Defined(people_proj[k])
    <3>. DEFINE Three == [1 .. 3 -> Somebody]
    <3>1. people_proj \in Seq(Three)
      BY <1>1 DEF IInv, ProjectionInv
    <3>. HIDE DEF Three
    <3>2. people_proj[k] \in Three
      BY <2>2, <3>1, ElementOfSeq, LenProperties
    <3>. QED  BY <3>2, SomebodyDefined DEF Three
  <2>. QED  BY <1>1, <2>1, <2>2 DEF PredictionDefined, SpeedInv
<1>2. IInv /\ SpeedInv => PredictionDefined
  BY <1>1
<1>. QED  BY <1>2, AlwaysIInv, AlwaysSpeedInv, PTL

(* The commands that led to the path cost nothing on it                    *)
(* (optimizer.cpp:427-453, 398-400, update_state.hpp:157-172).             *)
THEOREM AlwaysTrackedPathFree == Spec => []TrackedPathFree
<1>1. IInv => TrackedPathFree
  BY TrackedIsFree DEF TrackedPathFree
<1>. QED  BY <1>1, AlwaysIInv, PTL

(* The angle and crossing critics look at the nearest of those who walk    *)
(* (agent_angle_cost_function.hpp:141-161,                                 *)
(* crossing_cost_function.hpp:112-136).                                    *)
THEOREM AlwaysNearestMovingPenalised == Spec => []NearestMovingPenalised
<1>1. IInv => NearestMovingPenalised
  BY NearestPaidFor DEF NearestMovingPenalised
<1>. QED  BY <1>1, AlwaysIInv, PTL

(* Each published line is one person's, whole and under its number         *)
(* (social_mpc_controller.cpp:137-181, optimizer.cpp:572-596).             *)
THEOREM MarkersAlwaysFollowPeople == Spec => MarkersFollowPeople
<1>. DEFINE A == phase = "answered" /\ people_proj # <<>> => LinesOfPeople(markers')
<1>1. ASSUME IInv, Next PROVE A
  <2>1. SUFFICES ASSUME phase = "answered", people_proj # <<>>
                 PROVE  LinesOfPeople(markers')
    OBVIOUS
  <2>2. Publish
    BY <1>1, <2>1 DEF Next, ConfigureStep, Reject, Call, CallBegins, Evaluate, Advance,
         SolveUsable, SolveUnusable, Project, Succeed, RestartProcess
  <2>3. markers' = Lines(people_proj)
    BY <2>1, <2>2 DEF Publish
  <2>. QED  BY <1>1, <2>1, <2>3, PublishedLines
<1>. HIDE DEF A
<1>2. IInv /\ [Next]_vars => [A]_vars
  BY <1>1
<1>3. Spec => [][A]_vars
  BY <1>2, AlwaysIInv, PTL DEF Spec
<1>. QED  BY <1>3 DEF A, MarkersFollowPeople

-----------------------------------------------------------------------------
(***************************************************************************)
(* How far the finding about the force reaches: who stands beside a robot  *)
(* that stands.                                                            *)
(***************************************************************************)

\* In one of the eight directions, and m away along it.
Straight(d, m) == d # <<0, 0>> /\ d = Times(m, Direction(d))

LEMMA DrawnArithmetic ==
  ASSUME NEW p \in Nat, NEW m \in Nat, 0 < p, p < m,
         NEW x \in {-1, 0, 1}, NEW y \in {-1, 0, 1}, x # 0 \/ y # 0,
         NEW a, NEW b, a = m * x + (-p * x + p * (-y)), b = m * y + (-p * y + p * x)
  PROVE  a * a + b * b < (m * x) * (m * x) + (m * y) * (m * y)
<1>. DEFINE q == m - p
<1>1. q \in Nat /\ 0 < q /\ m = q + p
  OBVIOUS
<1>. HIDE DEF q
<1>2. q * q \in Nat /\ p * p \in Nat /\ p * q \in Nat /\ p * q > 0
  BY <1>1
<1>3. /\ (q + p) * (q + p) = q * q + 2 * (p * q) + p * p
      /\ (q - p) * (q - p) = q * q - 2 * (p * q) + p * p
  BY <1>1
<1>4. CASE y = 0
  <2>1. CASE x = 1
    <3>1. a = q /\ b = p
      BY <1>1, <1>4, <2>1
    <3>. QED  BY <1>1, <1>2, <1>3, <1>4, <2>1, <3>1
  <2>2. CASE x = -1
    <3>1. a = -q /\ b = -p
      BY <1>1, <1>4, <2>2
    <3>2. a * a = q * q /\ b * b = p * p
      BY <1>1, <3>1
    <3>3. (m * x) * (m * x) = (q + p) * (q + p) /\ (m * y) * (m * y) = 0
      BY <1>1, <1>4, <2>2
    <3>. QED  BY <1>2, <1>3, <3>2, <3>3
  <2>. QED  BY <1>4, <2>1, <2>2
<1>5. CASE x = 0
  <2>1. CASE y = 1
    <3>1. a = -p /\ b = q
      BY <1>1, <1>5, <2>1
    <3>2. a * a = p * p /\ b * b = q * q
      BY <1>1, <3>1
    <3>3. (m * x) * (m * x) = 0 /\ (m * y) * (m * y) = (q + p) * (q + p)
      BY <1>1, <1>5, <2>1
    <3>. QED  BY <1>2, <1>3, <3>2, <3>3
  <2>2. CASE y = -1
    <3>1. a = p /\ b = -q
      BY <1>1, <1>5, <2>2
    <3>2. a * a = p * p /\ b * b = q * q
      BY <1>1, <3>1
    <3>3. (m * x) * (m * x) = 0 /\ (m * y) * (m * y) = (q + p) * (q + p)
      BY <1>1, <1>5, <2>2
    <3>. QED  BY <1>2, <1>3, <3>2, <3>3
  <2>. QED  BY <1>5, <2>1, <2>2
<1>6. CASE x # 0 /\ y # 0
  <2>1. \/ (a = q - p \/ a = -(q - p)) /\ (b = q + p \/ b = -(q + p))
        \/ (b = q - p \/ b = -(q - p)) /\ (a = q + p \/ a = -(q + p))
    BY <1>1, <1>6
  <2>2. (m * x) * (m * x) = (q + p) * (q + p) /\ (m * y) * (m * y) = (q + p) * (q + p)
    <3>1. (m * x = q + p \/ m * x = -(q + p)) /\ (m * y = q + p \/ m * y = -(q + p))
      BY <1>1, <1>6
    <3>. QED  BY <1>1, <3>1
  <2>3. a * a + b * b = (q - p) * (q - p) + (q + p) * (q + p)
    <3>1. ASSUME NEW n \in Int PROVE (-n) * (-n) = n * n
      OBVIOUS
    <3>2. (q - p) \in Int /\ (q + p) \in Int
      BY <1>1
    <3>3. /\ (-(q - p)) * (-(q - p)) = (q - p) * (q - p)
          /\ (-(q + p)) * (-(q + p)) = (q + p) * (q + p)
      BY <3>1, <3>2
    <3>4. \/ a * a = (q - p) * (q - p) /\ b * b = (q + p) * (q + p)
          \/ b * b = (q - p) * (q - p) /\ a * a = (q + p) * (q + p)
      BY <2>1, <3>3
    <3>5. (q - p) * (q - p) \in Int /\ (q + p) * (q + p) \in Int
      BY <3>2
    <3>. QED  BY <3>4, <3>5
  <2>. QED  BY <1>2, <1>3, <2>2, <2>3
<1>. QED  BY <1>4, <1>5, <1>6


LEMMA BrakeAtRest ==
  ASSUME NEW v, v = <<0, 0>>
  PROVE  Brake(v) = <<0, 0>>
<1>1. ASSUME NEW n \in Int, n = 0
      PROVE  -Signum(n) * ((Signum(n) * n) \div 5) = 0
  <2>1. Signum(n) = 0
    BY <1>1 DEF Signum
  <2>. QED  BY <1>1, <2>1
<1>2. -Signum(v[1]) * ((Signum(v[1]) * v[1]) \div 5) = 0
  <2>1. v[1] \in Int /\ v[1] = 0
    OBVIOUS
  <2>. QED  BY <1>1, <2>1, Zenon
<1>3. -Signum(v[2]) * ((Signum(v[2]) * v[2]) \div 5) = 0
  <2>1. v[2] \in Int /\ v[2] = 0
    OBVIOUS
  <2>. QED  BY <1>1, <2>1, Zenon
<1>. QED  BY <1>2, <1>3, Zenon DEF Brake

(* The force on somebody standing in one of the eight directions from a    *)
(* robot that stands: a push towards it and one to the side.               *)
LEMMA ForceOnStanding ==
  ASSUME NEW a \in Somebody, NEW r \in Somebody, a.v = <<0, 0>>, r.v = <<0, 0>>,
         NEW d, d = Minus(a.at, r.at), NEW m \in Nat, Straight(d, m), Dot(d, d) <= Reach,
         NEW x, x = Signum(d[1]), NEW y, y = Signum(d[2])
  PROVE  /\ d = <<m * x, m * y>> /\ x \in {-1, 0, 1} /\ y \in {-1, 0, 1}
         /\ (x # 0 \/ y # 0) /\ m > 0
         /\ NextVelocity(a, r) = <<-Push * x + Push * (-y), -Push * y + Push * x>>
<1>1. a.at \in Plane /\ r.at \in Plane /\ Push \in Nat
  BY ForceAssumption DEF Somebody
<1>2. d \in Plane
  BY <1>1, DifferenceType
<1>3. x \in {-1, 0, 1} /\ y \in {-1, 0, 1} /\ (x # 0 \/ y # 0)
  <2>1. d[1] \in Int /\ d[2] \in Int /\ (d[1] # 0 \/ d[2] # 0)
    BY <1>2, PlaneFacts DEF Straight
  <2>. QED  BY <2>1, SignumType
<1>4. Direction(d) = <<x, y>> /\ <<x, y>> \in Plane
  BY <1>2, <1>3, PlaneFacts DEF Direction, Straight, Plane
<1>5. d = <<m * x, m * y>>
  BY <1>4, PlaneFacts DEF Straight, Times
<1>6. m > 0
  BY <1>3, <1>5 DEF Straight
<1>7. Apart(a, r) = d
  <2>1. a.at # r.at
    <3>1. a.at = r.at => d = <<0, 0>>
      BY <1>1, DifferenceType, PlaneFacts
    <3>. QED  BY <3>1 DEF Straight
  <2>. QED  BY <2>1 DEF Apart
<1>. DEFINE w == <<10 * x, 10 * y>>
<1>8. SafeInteraction(a, r) = w /\ w \in Plane /\ w # <<0, 0>>
  <2>1. Minus(a.v, r.v) = <<0, 0>>
    BY DEF Minus, Plus, Times, NaN
  <2>2. Times(2, Minus(a.v, r.v)) = <<0, 0>>
    BY <2>1 DEF Times, NaN
  <2>3. Times(10, Direction(Apart(a, r))) = w
    BY <1>4, <1>7, PlaneFacts DEF Times
  <2>4. Interaction(a, r) = <<0 + 10 * x, 0 + 10 * y>>
    BY <2>2, <2>3 DEF Interaction, Plus, NaN
  <2>5. w # <<0, 0>> /\ w \in Plane
    BY <1>3 DEF Plane
  <2>6. 0 + 10 * x = 10 * x /\ 0 + 10 * y = 10 * y
    BY <1>3
  <2>. QED  BY <2>4, <2>5, <2>6 DEF SafeInteraction
<1>9. w[1] = 10 * x /\ w[2] = 10 * y /\ d[1] = m * x /\ d[2] = m * y
  BY <1>5
<1>10. Direction(w) = <<x, y>>
  <2>1. Signum(10 * x) = x /\ Signum(10 * y) = y
    BY <1>3 DEF Signum
  <2>. QED  BY <1>8, <1>9, <2>1, PlaneFacts DEF Direction
<1>. HIDE DEF w
<1>11. Cross(w, d) = 0 /\ Dot(w, d) > 0
  <2>1. /\ Cross(w, d) = (10 * x) * (m * y) - (10 * y) * (m * x)
        /\ Dot(w, d) = (10 * x) * (m * x) + (10 * y) * (m * y)
    BY <1>2, <1>8, <1>9, PlaneFacts DEF Cross, Dot
  <2>2. (10 * x) * (m * y) - (10 * y) * (m * x) = 0
    BY <1>3
  <2>3. (10 * x) * (m * x) + (10 * y) * (m * y) > 0
    BY <1>3, <1>6
  <2>. QED  BY <2>1, <2>2, <2>3
<1>12. VelocityAmount(w, d) = -Push /\ AngleAmount(w, d) = Push
  <2>1. Dot(w, d) \in Int
    BY <1>2, <1>8, DotType
  <2>2. Turn(w, d) = -1
    BY <1>11, <2>1 DEF Turn
  <2>3. Cross(w, d) \in -Dot(w, d) .. Dot(w, d) /\ Dot(w, d) >= 0 /\ -(-1) * Push = Push
    BY <1>1, <1>11, <2>1
  <2>. QED  BY <2>2, <2>3 DEF VelocityAmount, AngleAmount
<1>13. PairForce(w, d) = <<-Push * x + Push * (-y), -Push * y + Push * x>>
  <2>1. Left(Direction(w)) = <<-y, x>>
    BY <1>10 DEF Left, NaN
  <2>2. Times(-Push, Direction(w)) = <<-Push * x, -Push * y>>
    <3>. DEFINE k == -Push
    <3>. HIDE DEF k
    <3>1. Times(k, Direction(w)) = <<k * x, k * y>>
      BY <1>10 DEF Times, NaN
    <3>2. k * x = -Push * x /\ k * y = -Push * y
      BY <1>1, <1>3 DEF k
    <3>3. Times(k, Direction(w)) = <<-Push * x, -Push * y>>
      BY <3>1, <3>2
    <3>. QED  BY <3>3 DEF k
  <2>3. Times(Push, Left(Direction(w))) = <<Push * (-y), Push * x>>
    BY <2>1 DEF Times, NaN
  <2>4. PairForce(w, d) = Plus(<<-Push * x, -Push * y>>, <<Push * (-y), Push * x>>)
    BY <1>8, <1>12, <2>2, <2>3, PlaneFacts DEF PairForce
  <2>. QED  BY <2>4 DEF Plus, NaN
<1>14. Brake(a.v) = <<0, 0>>
  BY BrakeAtRest
<1>15. NextVelocity(a, r) = PairForce(w, d)
  <2>. DEFINE f1 == -Push * x + Push * (-y)   f2 == -Push * y + Push * x
  <2>1. f1 \in Int /\ f2 \in Int
    BY <1>1, <1>3
  <2>. HIDE DEF f1, f2
  <2>2. PairForce(w, d) = <<f1, f2>>
    BY <1>13 DEF f1, f2
  <2>3. NextVelocity(a, r) = Plus(<<0, 0>>, Plus(<<f1, f2>>, <<0, 0>>))
    BY <1>7, <1>8, <1>14, <2>2 DEF NextVelocity
  <2>. QED  BY <2>1, <2>2, <2>3 DEF Plus, NaN
<1>. QED  BY <1>3, <1>5, <1>6, <1>13, <1>15

(* Beyond its reach there is no force. *)
LEMMA ForceBeyond ==
  ASSUME NEW a \in Somebody, NEW r \in Somebody, a.v = <<0, 0>>,
         Dot(Apart(a, r), Apart(a, r)) > Reach
  PROVE  NextVelocity(a, r) = <<0, 0>>
<1>. DEFINE w == SafeInteraction(a, r)   d == Apart(a, r)
<1>1. w \in Plane /\ w # <<0, 0>> /\ d \in Plane
  BY SafeInteractionType, ApartType
<1>2. Dot(d, d) \in Int /\ Reach \in Nat /\ Dot(d, d) > Reach
  BY <1>1, DotType, ForceAssumption
<1>. HIDE DEF w, d
<1>3. VelocityAmount(w, d) = 0 /\ AngleAmount(w, d) = 0
  BY <1>2 DEF VelocityAmount, AngleAmount
<1>4. Direction(w) \in Plane /\ Left(Direction(w)) \in Plane
  BY <1>1, DirectionType
<1>5. ASSUME NEW u \in Plane
      PROVE  Times(0, u) = <<0, 0>>
  <2>1. Times(0, u) = <<0 * u[1], 0 * u[2]>>
    BY PlaneFacts DEF Times
  <2>2. u[1] \in Int /\ u[2] \in Int
    BY PlaneFacts
  <2>. QED  BY <2>1, <2>2
<1>6. PairForce(w, d) = Plus(<<0, 0>>, <<0, 0>>)
  <2>1. Times(0, Direction(w)) = <<0, 0>> /\ Times(0, Left(Direction(w))) = <<0, 0>>
    BY <1>4, <1>5
  <2>. QED  BY <1>1, <1>3, <2>1, PlaneFacts DEF PairForce
<1>7. Plus(<<0, 0>>, <<0, 0>>) = <<0, 0>>
  BY DEF Plus, NaN
<1>8. NextVelocity(a, r) = Plus(a.v, Plus(PairForce(w, d), Brake(a.v)))
  BY DEF NextVelocity, w, d
<1>. QED  BY <1>6, <1>7, <1>8, BrakeAtRest

(* Who stands beyond the reach of a robot that stands stays there; who     *)
(* stands in one of the eight directions, within the reach and further     *)
(* than the push, is nearer after the step.                                *)
DrawnTo(a, b, r) ==
  /\ Dot(Minus(a.at, r.at), Minus(a.at, r.at)) > Reach => b.at = a.at
  /\ Dot(Minus(a.at, r.at), Minus(a.at, r.at)) <= Reach
       /\ (\E m \in Nat : m > Push /\ Straight(Minus(a.at, r.at), m)) =>
       SquareDist(b.at, r.at) < SquareDist(a.at, r.at)

LEMMA StandingDrawn ==
  ASSUME NEW a \in Somebody, NEW r \in Somebody, a.v = <<0, 0>>, r.v = <<0, 0>>,
         Valid(a), 0 < Push
  PROVE  DrawnTo(a, Predict(a, r), r)
<1>. DEFINE d == Minus(a.at, r.at)   b == Predict(a, r)
<1>1. a.at \in Plane /\ r.at \in Plane /\ Push \in Nat /\ Reach \in Nat
  BY ForceAssumption DEF Somebody
<1>2. d \in Plane /\ d = <<a.at[1] - r.at[1], a.at[2] - r.at[2]>>
  BY <1>1, DifferenceType
<1>3. b.at = Plus(a.at, NextVelocity(a, r))
  BY DEF Predict
<1>4. ASSUME Dot(d, d) > Reach
      PROVE  b.at = a.at
  <2>1. a.at # r.at
    <3>1. a.at = r.at => d = <<0, 0>>
      BY <1>1, <1>2, PlaneFacts
    <3>2. Dot(<<0, 0>>, <<0, 0>>) = 0
      BY DEF Dot, NaN
    <3>. QED  BY <1>1, <1>4, <3>1, <3>2
  <2>2. Apart(a, r) = d
    BY <2>1 DEF Apart
  <2>3. NextVelocity(a, r) = <<0, 0>>
    BY <1>4, <2>2, ForceBeyond
  <2>4. b.at = <<a.at[1] + 0, a.at[2] + 0>>
    BY <1>1, <1>3, <2>3, PlaneFacts DEF Plus, NaN
  <2>. QED  BY <1>1, <2>4, PlaneFacts
<1>5. ASSUME Dot(d, d) <= Reach, NEW m \in Nat, m > Push, Straight(d, m)
      PROVE  SquareDist(b.at, r.at) < SquareDist(a.at, r.at)
  <2>. DEFINE x == Signum(d[1])   y == Signum(d[2])
              f1 == -Push * x + Push * (-y)   f2 == -Push * y + Push * x
              c1 == m * x + f1   c2 == m * y + f2
  <2>1. /\ d = <<m * x, m * y>> /\ x \in {-1, 0, 1} /\ y \in {-1, 0, 1} /\ (x # 0 \/ y # 0)
        /\ NextVelocity(a, r) = <<f1, f2>>
    BY <1>5, ForceOnStanding
  <2>. HIDE DEF x, y
  <2>2. f1 \in Int /\ f2 \in Int /\ m * x \in Int /\ m * y \in Int
    BY <1>1, <2>1
  <2>3. c1 * c1 + c2 * c2 < (m * x) * (m * x) + (m * y) * (m * y)
    BY <1>1, <1>5, <2>1, DrawnArithmetic, Zenon
  <2>. HIDE DEF f1, f2, d, b
  <2>4. b.at = <<a.at[1] + f1, a.at[2] + f2>> /\ b.at \in Plane
    BY <1>1, <1>3, <2>1, <2>2, PlaneFacts DEF Plus, NaN, Plane
  <2>5. Minus(b.at, r.at) = <<c1, c2>>
    <3>1. Minus(b.at, r.at) = <<b.at[1] - r.at[1], b.at[2] - r.at[2]>>
      BY <1>1, <2>4, DifferenceType
    <3>2. /\ b.at[1] - r.at[1] = (a.at[1] - r.at[1]) + f1
          /\ b.at[2] - r.at[2] = (a.at[2] - r.at[2]) + f2
      BY <1>1, <2>2, <2>4, PlaneFacts
    <3>3. a.at[1] - r.at[1] = m * x /\ a.at[2] - r.at[2] = m * y
      BY <1>2, <2>1
    <3>. QED  BY <3>1, <3>2, <3>3
  <2>6. SquareDist(b.at, r.at) = c1 * c1 + c2 * c2
    BY <2>5 DEF SquareDist, Dot, NaN
  <2>7. SquareDist(a.at, r.at) = (m * x) * (m * x) + (m * y) * (m * y)
    BY <2>1 DEF SquareDist, Dot, NaN, d
  <2>. QED  BY <2>3, <2>6, <2>7
<1>. QED  BY <1>4, <1>5 DEF DrawnTo

\* A rollout before and after its first step.
FirstInv ==
  phase = "rolling" =>
    /\ step = -1 => robot = path[1] /\ agents = slots
    /\ step = 0 =>
         /\ robot = Drive(path[1], Velocity(0))
         /\ agents = [s \in 1 .. 3 |-> Predict(slots[s], AsAgent(robot, Velocity(0)))]

LEMMA FirstStep ==
  ASSUME IInv, FirstInv, [Next]_vars
  PROVE  FirstInv'
<1>1. ASSUME phase' # "rolling"
      PROVE  FirstInv'
  BY <1>1 DEF FirstInv
<1>2. ASSUME UNCHANGED <<parameters, phase, problem, rollout>>
      PROVE  FirstInv'
  <2>1. Velocity(0)' = Velocity(0)
    BY <1>2, SameProblem DEF Velocity, rollout
  <2>. QED  BY <1>2, <2>1, SameProblem DEF FirstInv, rollout
<1>3. CASE Evaluate
  BY <1>3, SameProblem DEF Evaluate, RollFrom, FirstInv
<1>4. CASE Advance
  <2>1. /\ phase = "rolling" /\ Roll /\ UNCHANGED <<parameters, problem>> /\ velocities' = velocities
    BY <1>4 DEF Advance
  <2>2. Velocity(0)' = Velocity(0)
    BY <2>1, SameProblem DEF Velocity
  <2>3. /\ step' = step + 1 /\ step \in -1 .. NumVelocities
        /\ robot' = Drive(robot, Velocity(step'))
        /\ agents' = [s \in 1 .. 3 |-> Predict(agents[s], AsAgent(robot', Velocity(step')))]
    BY <2>1 DEF Roll, IInv, RolloutInv
  <2>4. NumVelocities \in Int
    BY PathFacts DEF IInv
  <2>5. step' # -1 /\ (step' = 0 => step = -1)
    BY <2>3, <2>4
  <2>6. step' = 0 =>
          /\ robot' = Drive(path'[1], Velocity(0)')
          /\ agents' = [s \in 1 .. 3 |-> Predict(slots'[s], AsAgent(robot', Velocity(0)'))]
    BY <2>1, <2>2, <2>3, <2>5, SameProblem DEF FirstInv
  <2>. QED  BY <2>5, <2>6 DEF FirstInv
<1>5. CASE ConfigureStep \/ Publish \/ RestartProcess \/ SolveUsable \/ SolveUnusable
        \/ Project \/ Succeed \/ \E t \in Trajectories, p \in People : Reject(t, p) \/ Call(t, p)
  BY <1>1, <1>5 DEF ConfigureStep, Publish, RestartProcess, SolveUsable, SolveUnusable,
     Project, Succeed, Reject, Call, CallBegins
<1>6. CASE UNCHANGED vars
  BY <1>2, <1>6 DEF vars
<1>. QED  BY <1>3, <1>4, <1>5, <1>6 DEF Next

LEMMA FirstDrawn ==
  ASSUME IInv, FirstInv, 0 < Push, phase = "rolling", step = 0, Velocity(0).v = 0,
         NEW s \in DOMAIN people \intersect 1 .. 3, people[s].v = <<0, 0>>
  PROVE  DrawnTo(people[s], agents[s], path[1])
<1>. DEFINE r == AsAgent(robot, Velocity(0))   a == slots[s]
<1>1. robot = Drive(path[1], Velocity(0)) /\ agents[s] = Predict(a, r)
  BY DEF FirstInv
<1>2. a = [at |-> people[s].at, v |-> people[s].v, t |-> 0] /\ a \in Somebody
  BY SlotsInUse DEF IInv, CallInv, PeopleToStatus
<1>3. robot \in Poses /\ Velocity(0) \in [v : Int, w : Int] /\ 1 \in 1 .. Len(path)
      /\ path[1] \in Poses
  <2>1. Len(path) \in Nat /\ Len(path) >= 2 /\ path[1] \in Poses
    BY PathFacts DEF IInv, CallInv, Busy
  <2>2. Velocity(0) \in [v : Int, w : Int]
    BY VelocityType DEF IInv
  <2>. QED  BY <2>1, <2>2 DEF IInv, RolloutInv
<1>. DEFINE u == Ahead[robot.yaw]   w == Ahead[path[1].yaw]
<1>4. ASSUME NEW k \in 0 .. 3
      PROVE  Ahead[k] \in Plane
  <2>1. k = 0 \/ k = 1 \/ k = 2 \/ k = 3
    OBVIOUS
  <2>. QED  BY <2>1 DEF Ahead, Plane
<1>5. u \in Plane /\ w \in Plane
  BY <1>3, <1>4 DEF Poses
<1>. HIDE DEF u, w
<1>6. ASSUME NEW z \in Plane
      PROVE  Times(0, z) = <<0, 0>>
  <2>1. Times(0, z) = <<0 * z[1], 0 * z[2]>>
    BY PlaneFacts DEF Times
  <2>. QED  BY <2>1, PlaneFacts
<1>7. r \in Somebody /\ r.v = <<0, 0>> /\ r.at = robot.at
  <2>1. r.v = Times(0, u) /\ r.at = robot.at
    BY DEF AsAgent, u
  <2>. QED  BY <1>3, <1>5, <1>6, <2>1, DriveType
<1>8. robot.at = path[1].at
  <2>1. path[1].at \in Plane
    BY <1>3 DEF Poses, Plane
  <2>2. robot.at = Plus(path[1].at, Times(0, w))
    BY <1>1 DEF Drive, w
  <2>3. robot.at = <<path[1].at[1] + 0, path[1].at[2] + 0>>
    BY <1>5, <1>6, <2>1, <2>2, PlaneFacts DEF Plus, NaN
  <2>. QED  BY <2>1, <2>3, PlaneFacts
<1>9. Valid(a)
  BY <1>2 DEF Valid
<1>. HIDE DEF r, a
<1>10. a.v = <<0, 0>> /\ a.at = people[s].at
  BY <1>2
<1>11. DrawnTo(a, Predict(a, r), r)
  BY <1>2, <1>7, <1>9, <1>10, StandingDrawn
<1>. QED  BY <1>1, <1>7, <1>8, <1>10, <1>11 DEF DrawnTo

(* How far PeopleRepelled fails: if forces push at all, in the first step  *)
(* of every rollout in which the robot stands everybody who stands within  *)
(* reach in one of the eight directions comes nearer to it, wherever they  *)
(* are, while nobody beyond the reach moves (update_state.hpp:85-126).     *)
THEOREM StandingPeopleDrawn ==
  ASSUME 0 < Push
  PROVE  Spec => [](phase = "rolling" /\ step = 0 /\ Velocity(0).v = 0 =>
                      \A s \in DOMAIN people \intersect 1 .. 3 :
                        people[s].v = <<0, 0>> => DrawnTo(people[s], agents[s], path[1]))
<1>. DEFINE Drawn == phase = "rolling" /\ step = 0 /\ Velocity(0).v = 0 =>
                       \A s \in DOMAIN people \intersect 1 .. 3 :
                         people[s].v = <<0, 0>> => DrawnTo(people[s], agents[s], path[1])
<1>1. Init => FirstInv
  BY DEF Init, FirstInv
<1>2. IInv /\ FirstInv /\ [Next]_vars => FirstInv'
  BY FirstStep
<1>3. IInv /\ FirstInv => Drawn
  BY FirstDrawn
<1>. HIDE DEF Drawn
<1>4. Spec => []Drawn
  BY <1>1, <1>2, <1>3, AlwaysIInv, PTL DEF Spec
<1>. QED  BY <1>4 DEF Drawn
=============================================================================
