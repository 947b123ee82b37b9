---------------------- MODULE TrajectoryMemoryProofs ----------------------
(***************************************************************************)
(* The trajectory memory's properties, for all trajectories, velocities,   *)
(* weights, horizons and block lengths.                                    *)
(***************************************************************************)
EXTENDS TrajectoryMemory, NumberLemmas, SequenceTheorems, TLAPS

(***************************************************************************)
(* The rollout is what its recursive definition says.  A shortest sequence *)
(* of commands for which there were no positions would have been one       *)
(* longer than one for which there are.                                    *)
(***************************************************************************)
PositionsUpTo(f, n, p, v) ==
  f = [k \in 1 .. n |-> IF k = 1 THEN p + v[1] ELSE f[k - 1] + v[k]]

LEMMA PositionsExist ==
  ASSUME NEW p, NEW v, NEW n \in Nat
  PROVE  \E f : PositionsUpTo(f, n, p, v)
<1>. DEFINE Without == {m \in Nat : ~ \E f : PositionsUpTo(f, m, p, v)}
<1>1. SUFFICES ASSUME Without # {} PROVE FALSE
  OBVIOUS
<1>2. PICK m \in Without : \A y \in Without : m <= y
  <2>1. Without \subseteq Nat
    OBVIOUS
  <2>. HIDE DEF Without
  <2>. QED  BY <1>1, <2>1, LeastNatural
<1>3. m \in Nat
  OBVIOUS
<1>4. CASE m = 0
  <2>. DEFINE g == [k \in 1 .. 0 |-> 0]
  <2>1. PositionsUpTo(g, 0, p, v)
    BY DEF PositionsUpTo
  <2>. QED  BY <1>2, <1>4, <2>1
<1>5. CASE m # 0
  <2>1. m - 1 \in Nat /\ m - 1 \notin Without
    BY <1>2, <1>3, <1>5
  <2>2. PICK f : PositionsUpTo(f, m - 1, p, v)
    BY <2>1
  <2>. DEFINE g == [k \in 1 .. m |-> IF k = 1 THEN p + v[1] ELSE f[k - 1] + v[k]]
  <2>3. \A k \in 1 .. m - 1 : f[k] = IF k = 1 THEN p + v[1] ELSE f[k - 1] + v[k]
    BY <2>2 DEF PositionsUpTo
  <2>4. ASSUME NEW k \in 1 .. m
        PROVE  g[k] = IF k = 1 THEN p + v[1] ELSE g[k - 1] + v[k]
    <3>1. CASE k = 1
      BY <3>1
    <3>2. CASE k # 1
      <4>1. k - 1 \in 1 .. m - 1 /\ k - 1 \in 1 .. m
        BY <1>3, <3>2
      <4>2. g[k - 1] = f[k - 1]
        BY <2>3, <4>1
      <4>. QED  BY <3>2, <4>2
    <3>. QED  BY <3>1, <3>2
  <2>5. PositionsUpTo(g, m, p, v)
    <3>1. g = [k \in 1 .. m |-> g[k]]
      OBVIOUS
    <3>. HIDE DEF g
    <3>2. [k \in 1 .. m |-> g[k]] = [k \in 1 .. m |-> IF k = 1 THEN p + v[1] ELSE g[k - 1] + v[k]]
      BY <2>4, Zenon
    <3>. QED  BY <3>1, <3>2, Zenon DEF PositionsUpTo
  <2>. QED  BY <1>2, <2>5
<1>. QED  BY <1>4, <1>5

LEMMA RolloutIsPositions ==
  ASSUME NEW p, NEW v, Len(v) \in Nat
  PROVE  PositionsUpTo(Rollout(p, v), Len(v), p, v)
<1>1. \E f : PositionsUpTo(f, Len(v), p, v)
  BY PositionsExist
<1>. QED  BY <1>1, Zenon DEF Rollout, PositionsUpTo

(* A rollout has a position for each command, each one command further.    *)
LEMMA RolloutFacts ==
  ASSUME NEW p \in Int, NEW v \in Seq(Int)
  PROVE  /\ Rollout(p, v) \in Seq(Int) /\ Len(Rollout(p, v)) = Len(v)
         /\ Len(v) >= 1 => Rollout(p, v)[1] = p + v[1]
         /\ \A k \in 1 .. Len(v) - 1 : Rollout(p, v)[k + 1] = Rollout(p, v)[k] + v[k + 1]
<1>. DEFINE r == Rollout(p, v)   n == Len(v)   Wrong == {k \in 1 .. n : r[k] \notin Int}
<1>1. n \in Nat /\ \A k \in 1 .. n : v[k] \in Int
  BY LenProperties, ElementOfSeq
<1>2. r = [k \in 1 .. n |-> IF k = 1 THEN p + v[1] ELSE r[k - 1] + v[k]]
  BY <1>1, RolloutIsPositions DEF PositionsUpTo
<1>. HIDE DEF r, n
<1>3. /\ DOMAIN r = 1 .. n
      /\ \A k \in 1 .. n : r[k] = IF k = 1 THEN p + v[1] ELSE r[k - 1] + v[k]
  <2>1. \A k \in 1 .. n : r[k] = IF k = 1 THEN p + v[1] ELSE r[k - 1] + v[k]
    BY <1>2, Zenon
  <2>2. DOMAIN r = 1 .. n
    BY <1>2, Zenon
  <2>. QED  BY <2>1, <2>2
<1>4. Wrong = {}
  <2>1. SUFFICES ASSUME Wrong # {} PROVE FALSE
    OBVIOUS
  <2>2. PICK k \in Wrong : \A y \in Wrong : k <= y
    <3>1. Wrong \subseteq Nat
      BY <1>1
    <3>. HIDE DEF Wrong
    <3>. QED  BY <2>1, <3>1, LeastNatural
  <2>3. CASE k = 1
    BY <1>1, <1>3, <2>2, <2>3
  <2>4. CASE k # 1
    <3>1. k \in 1 .. n /\ k - 1 \in 1 .. n /\ r[k] \notin Int
      BY <1>1, <2>2, <2>4
    <3>2. ~ (k <= k - 1)
      BY <1>1, <3>1
    <3>3. r[k - 1] \in Int
      BY <2>2, <3>1, <3>2
    <3>4. r[k] = r[k - 1] + v[k] /\ v[k] \in Int
      BY <1>1, <1>3, <2>4, <3>1
    <3>. QED  BY <3>1, <3>3, <3>4
  <2>. QED  BY <2>3, <2>4
<1>5. r = [k \in 1 .. n |-> r[k]] /\ \A k \in 1 .. n : r[k] \in Int
  BY <1>2, <1>3, <1>4
<1>6. r \in Seq(Int) /\ Len(r) = n
  <2>1. r \in [1 .. n -> Int]
    BY <1>5, Zenon
  <2>2. r \in Seq(Int)
    BY <1>1, <2>1
  <2>. QED  BY <1>1, <1>3, <2>2, LenProperties
<1>7. \A k \in 1 .. n - 1 : r[k + 1] = r[k] + v[k + 1]
  <2>1. \A k \in 1 .. n - 1 : k + 1 \in 1 .. n /\ k + 1 # 1 /\ k + 1 - 1 = k
    BY <1>1
  <2>. QED  BY <1>3, <2>1
<1>8. n >= 1 => r[1] = p + v[1]
  BY <1>1, <1>3
<1>. QED  BY <1>6, <1>7, <1>8 DEF r, n

-----------------------------------------------------------------------------
(***************************************************************************)
(* What a call is given, and what it makes of it.                          *)
(***************************************************************************)
LEMMA PosesFacts ==
  ASSUME NEW t \in Trajectories
  PROVE  /\ t.cmds \in Seq(Int) /\ Len(t.cmds) \in 0 .. MaxSteps
         /\ Poses(t) \in Seq(Int) /\ Len(Poses(t)) = Len(t.cmds) + 1 /\ Poses(t)[1] = t.robot
         /\ \A k \in 1 .. Len(t.cmds) : Poses(t)[k + 1] - Poses(t)[k] = t.cmds[k]
<1>. DEFINE r == Rollout(t.robot, t.cmds)   n == Len(t.cmds)
<1>1. /\ t.robot \in Int /\ t.cmds \in Seq(Int) /\ n \in 0 .. MaxSteps /\ n \in Nat
      /\ \A k \in 1 .. n : t.cmds[k] \in Int
  BY MemoryAssumption, LenProperties, ElementOfSeq
<1>2. /\ r \in Seq(Int) /\ Len(r) = n
      /\ n >= 1 => r[1] = t.robot + t.cmds[1]
      /\ \A k \in 1 .. n - 1 : r[k + 1] = r[k] + t.cmds[k + 1]
  BY <1>1, RolloutFacts
<1>. HIDE DEF r
<1>3. \A k \in 1 .. n : r[k] \in Int
  BY <1>2, ElementOfSeq
<1>. DEFINE one == <<t.robot>>   poses == one \o r
<1>4. one \in Seq(Int) /\ Len(one) = 1 /\ one[1] = t.robot
  BY <1>1
<1>. HIDE DEF one
<1>5. /\ poses \in Seq(Int) /\ Len(poses) = 1 + n
      /\ \A i \in 1 .. 1 + n : poses[i] = IF i <= 1 THEN one[i] ELSE r[i - 1]
  <2>1. /\ poses \in Seq(Int) /\ Len(poses) = Len(one) + Len(r)
        /\ \A i \in 1 .. Len(one) + Len(r) :
             poses[i] = IF i <= Len(one) THEN one[i] ELSE r[i - Len(one)]
    <3>1. one \in Seq(Int) /\ r \in Seq(Int)
      BY <1>2, <1>4
    <3>. QED  BY <3>1, ConcatProperties
  <2>. HIDE DEF poses, n
  <2>. QED  BY <1>2, <1>4, <2>1
<1>6. Poses(t) = poses
  BY DEF Poses, r, one
<1>. HIDE DEF poses, n
<1>7. poses[1] = t.robot /\ \A k \in 1 .. n : poses[k + 1] = r[k]
  <2>1. 1 \in 1 .. 1 + n /\ \A k \in 1 .. n : k + 1 \in 1 .. 1 + n /\ ~ (k + 1 <= 1) /\ k + 1 - 1 = k
    BY <1>1
  <2>. QED  BY <1>4, <1>5, <2>1
<1>8. ASSUME NEW k \in 1 .. n
      PROVE  poses[k + 1] - poses[k] = t.cmds[k]
  <2>1. CASE k = 1
    <3>1. n >= 1 /\ r[1] \in Int
      BY <1>1, <1>3, <2>1
    <3>. QED  BY <1>1, <1>2, <1>7, <2>1, <3>1
  <2>2. CASE k # 1
    <3>. DEFINE j == k - 1
    <3>1. j \in 1 .. n /\ j \in 1 .. n - 1 /\ j + 1 = k
      BY <1>1, <2>2
    <3>. HIDE DEF j
    <3>2. poses[j + 1] = r[j] /\ poses[k + 1] = r[k] /\ r[j + 1] = r[j] + t.cmds[j + 1]
      BY <1>2, <1>7, <3>1
    <3>3. r[j] \in Int /\ t.cmds[k] \in Int
      BY <1>1, <1>3, <3>1
    <3>. QED  BY <3>1, <3>2, <3>3
  <2>. QED  BY <2>1, <2>2
<1>. QED  BY <1>1, <1>5, <1>6, <1>7, <1>8 DEF n

LEMMA CutFacts ==
  ASSUME NEW p \in Seq(Int), Len(p) >= 2
  PROVE  /\ Cut(p) \in Seq(Int) /\ Len(Cut(p)) \in 2 .. MaxSteps /\ Len(Cut(p)) <= Len(p)
         /\ Cut(p)[1] = p[1]
<1>1. MaxSteps \in Nat /\ MaxSteps >= 3 /\ Len(p) \in Nat /\ \A k \in 1 .. Len(p) : p[k] \in Int
  BY MemoryAssumption, LenProperties, ElementOfSeq
<1>2. CASE Len(p) > MaxSteps
  <2>. DEFINE n == MaxSteps - 1
  <2>1. n \in Int /\ 1 \in Int /\ \A k \in 1 .. n : p[k] \in Int
    BY <1>1, <1>2
  <2>. HIDE DEF n
  <2>2. SubSeq(p, 1, n) \in Seq(Int) /\ Len(SubSeq(p, 1, n)) = IF 1 <= n THEN n - 1 + 1 ELSE 0
    BY <2>1, SubSeqProperties
  <2>3. Cut(p) = SubSeq(p, 1, n)
    BY <1>2 DEF Cut, n
  <2>4. Len(SubSeq(p, 1, n)) = n
    BY <1>1, <2>1, <2>2 DEF n
  <2>5. SubSeq(p, 1, n)[1] = p[1]
    <3>1. 1 \in 1 .. n - 1 + 1 /\ 1 + 1 - 1 = 1
      BY <1>1, <2>1 DEF n
    <3>2. \A i \in 1 .. n - 1 + 1 : SubSeq(p, 1, n)[i] = p[1 + i - 1]
      BY <2>1, SubSeqProperties
    <3>3. SubSeq(p, 1, n)[1] = p[1 + 1 - 1]
      BY <3>1, <3>2, Zenon
    <3>. QED  BY <3>1, <3>3, Zenon
  <2>. QED  BY <1>1, <1>2, <2>2, <2>3, <2>4, <2>5 DEF n
<1>3. CASE ~ (Len(p) > MaxSteps)
  BY <1>1, <1>3 DEF Cut
<1>. QED  BY <1>2, <1>3

LEMMA BlendType ==
  ASSUME NEW x \in Int, NEW y \in Int
  PROVE  Blend(x, y) \in Int /\ Blend(x, x) = x
<1>1. Scale \in Nat \ {0} /\ Weight \in Int
  BY MemoryAssumption
<1>2. Weight * x \in Int /\ (Scale - Weight) * y \in Int
  BY <1>1, SMT
<1>3. Blend(x, y) \in Int
  <2>. DEFINE n == Weight * x + (Scale - Weight) * y
  <2>1. n \in Int
    BY <1>2
  <2>. HIDE DEF n
  <2>2. n \div Scale \in Int
    BY <1>1, <2>1, SMT
  <2>. QED  BY <2>2 DEF Blend, n
<1>4. Weight * x + (Scale - Weight) * x = x * Scale
  BY <1>1, SMT
<1>5. (x * Scale) \div Scale = x
  BY <1>1, SMT
<1>. QED  BY <1>3, <1>4, <1>5 DEF Blend

\* A weighted mean lies between its two numbers, also when it is rounded down.
LEMMA BlendUp ==
  ASSUME NEW x \in Int, NEW y \in Int, NEW a \in Int, NEW b \in Int,
         a <= x, a <= y, x <= b, y <= b
  PROVE  a <= Blend(x, y) /\ Blend(x, y) <= b
<1>. DEFINE v == Scale - Weight   n == Weight * x + v * y
<1>1. Scale \in Nat \ {0} /\ Weight \in Nat /\ v \in Nat /\ Weight + v = Scale
  BY MemoryAssumption
<1>. HIDE DEF v
<1>2. n \in Int
  BY <1>1, SMT
<1>3. Weight * a <= Weight * x /\ Weight * x <= Weight * b
  BY <1>1, SMT
<1>4. v * a <= v * y /\ v * y <= v * b
  BY <1>1, SMT
<1>5. Weight * a + v * a = a * Scale /\ Weight * b + v * b = b * Scale
  <2>1. (Weight + v) * a = Weight * a + v * a /\ (Weight + v) * b = Weight * b + v * b
    BY <1>1, SMT
  <2>. QED  BY <1>1, <2>1, SMT
<1>6. a * Scale <= n /\ n <= b * Scale
  BY <1>1, <1>3, <1>4, <1>5, SMT
<1>7. Blend(x, y) = n \div Scale
  BY DEF Blend, v
<1>. HIDE DEF n
<1>8. n \div Scale \in Int /\ n = Scale * (n \div Scale) + (n % Scale) /\ n % Scale \in 0 .. Scale - 1
  BY <1>1, <1>2, SMT
<1>9. a <= n \div Scale /\ n \div Scale <= b
  <2>. DEFINE q == n \div Scale
  <2>1. q \in Int /\ q * Scale <= n /\ n < (q + 1) * Scale
    BY <1>1, <1>2, <1>8, SMT
  <2>. HIDE DEF q
  <2>2. a <= q
    <3>1. SUFFICES ASSUME q + 1 <= a PROVE FALSE
      BY <2>1
    <3>2. (q + 1) * Scale <= a * Scale
      BY <1>1, <2>1, <3>1, SMT
    <3>. QED  BY <1>1, <1>2, <1>6, <2>1, <3>2, SMT
  <2>3. q <= b
    <3>1. SUFFICES ASSUME b + 1 <= q PROVE FALSE
      BY <2>1
    <3>2. (b + 1) * Scale <= q * Scale
      BY <1>1, <2>1, <3>1, SMT
    <3>. QED  BY <1>1, <1>2, <1>6, <2>1, <3>2, SMT
  <2>. QED  BY <2>2, <2>3 DEF q
<1>. QED  BY <1>7, <1>9

LEMMA BlendBetween ==
  ASSUME NEW x \in Int, NEW y \in Int
  PROVE  Between(x, Blend(x, y), y)
<1>1. CASE x <= y
  BY <1>1, BlendUp DEF Between
<1>2. CASE y <= x
  BY <1>2, BlendUp DEF Between
<1>. QED  BY <1>1, <1>2

LEMMA BlendPathFacts ==
  ASSUME NEW p \in Seq(Int), NEW previous \in Seq(Int)
  PROVE  /\ BlendPath(p, previous) \in Seq(Int) /\ Len(BlendPath(p, previous)) = Len(p)
         /\ \A i \in DOMAIN p :
              IF i <= Len(previous) THEN Between(p[i], BlendPath(p, previous)[i], previous[i])
              ELSE BlendPath(p, previous)[i] = p[i]
<1>1. /\ Len(p) \in Nat /\ DOMAIN p = 1 .. Len(p) /\ \A i \in 1 .. Len(p) : p[i] \in Int
      /\ Len(previous) \in Nat /\ \A i \in 1 .. Len(previous) : previous[i] \in Int
  BY LenProperties, ElementOfSeq
<1>. DEFINE b == BlendPath(p, previous)
<1>2. b = [i \in 1 .. Len(p) |-> IF i <= Len(previous) THEN Blend(p[i], previous[i]) ELSE p[i]]
  BY <1>1 DEF BlendPath
<1>. HIDE DEF b
<1>3. ASSUME NEW i \in 1 .. Len(p)
      PROVE  /\ b[i] \in Int
             /\ IF i <= Len(previous) THEN Between(p[i], b[i], previous[i]) ELSE b[i] = p[i]
  <2>1. CASE i <= Len(previous)
    <3>1. p[i] \in Int /\ previous[i] \in Int
      BY <1>1, <2>1
    <3>2. b[i] = Blend(p[i], previous[i])
      BY <1>2, <2>1
    <3>3. Blend(p[i], previous[i]) \in Int /\ Between(p[i], Blend(p[i], previous[i]), previous[i])
      BY <3>1, BlendType, BlendBetween
    <3>. QED  BY <2>1, <3>2, <3>3
  <2>2. CASE ~ (i <= Len(previous))
    BY <1>1, <1>2, <2>2
  <2>. QED  BY <2>1, <2>2
<1>4. b \in Seq(Int) /\ Len(b) = Len(p)
  <2>1. b \in [1 .. Len(p) -> Int]
    BY <1>2, <1>3
  <2>2. b \in Seq(Int)
    <3>. DEFINE n == Len(p)
    <3>1. n \in Nat /\ b \in [1 .. n -> Int]
      BY <1>1, <2>1
    <3>. HIDE DEF n
    <3>. QED  BY <3>1
  <2>. QED  BY <1>1, <1>2, <2>2, LenProperties
<1>. QED  BY <1>1, <1>3, <1>4 DEF b

LEMMA BlendCmdsFacts ==
  ASSUME NEW n \in 2 .. MaxSteps, NEW speed \in Int, NEW wild \in Int,
         NEW current \in Seq(Int), NEW previous \in Seq(Int), n <= Len(current) + 1
  PROVE  LET g == BlendCmds(n, speed, current, previous, wild)
         IN  g \in Seq(Int) /\ Len(g) = n - 1
<1>1. /\ Len(current) \in Nat /\ \A i \in 1 .. Len(current) : current[i] \in Int
      /\ Len(previous) \in Nat /\ \A i \in 1 .. Len(previous) : previous[i] \in Int
      /\ MaxSteps \in Nat
  BY MemoryAssumption, LenProperties, ElementOfSeq
<1>. DEFINE before(i) == IF i - 1 <= Len(previous) THEN previous[i - 1] ELSE wild
            g == BlendCmds(n, speed, current, previous, wild)
<1>2. g = [i \in 1 .. n - 1 |-> IF i = 1 THEN speed ELSE Blend(current[i - 1], before(i))]
  BY DEF BlendCmds
<1>3. ASSUME NEW i \in 1 .. n - 1
      PROVE  g[i] \in Int
  <2>1. CASE i = 1
    BY <1>2, <2>1
  <2>2. CASE i # 1
    <3>1. i - 1 \in 1 .. Len(current) /\ i - 1 \in Nat /\ i - 1 >= 1
      BY <1>1, <2>2
    <3>2. current[i - 1] \in Int /\ before(i) \in Int
      BY <1>1, <3>1
    <3>. HIDE DEF before, g
    <3>3. Blend(current[i - 1], before(i)) \in Int
      BY <3>2, BlendType
    <3>. QED  BY <1>2, <2>2, <3>3
  <2>. QED  BY <2>1, <2>2
<1>. HIDE DEF before
<1>4. DOMAIN g = 1 .. n - 1 /\ n - 1 \in Nat
  BY <1>1, <1>2
<1>. HIDE DEF g
<1>5. g \in [1 .. n - 1 -> Int]
  BY <1>2, <1>3
<1>6. g \in Seq(Int)
  BY <1>4, <1>5
<1>7. Len(g) = n - 1
  BY <1>4, <1>6, LenProperties
<1>. QED  BY <1>6, <1>7 DEF g

LEMMA CommandType ==
  /\ Command \subseteq Int
  /\ \A t \in Trajectories : t.cmds \in Seq(Command)
<1>1. ASSUME NEW t \in Trajectories
      PROVE  t.cmds \in Seq(Command) /\ Range(t.cmds) \subseteq Int
  <2>1. /\ t.cmds \in Seq(Int) /\ Len(t.cmds) \in Nat /\ DOMAIN t.cmds = 1 .. Len(t.cmds)
        /\ \A k \in 1 .. Len(t.cmds) : t.cmds[k] \in Int
    BY MemoryAssumption, LenProperties, ElementOfSeq
  <2>2. \A k \in 1 .. Len(t.cmds) : t.cmds[k] \in Range(t.cmds)
    BY <2>1 DEF Range
  <2>3. Range(t.cmds) \subseteq Command
    BY DEF Command
  <2>4. t.cmds \in [1 .. Len(t.cmds) -> Command]
    <3>1. t.cmds = [k \in 1 .. Len(t.cmds) |-> t.cmds[k]]
      BY <2>1
    <3>. QED  BY <2>2, <2>3, <3>1
  <2>5. t.cmds \in Seq(Command)
    BY <2>1, <2>4
  <2>. QED  BY <2>1, <2>5 DEF Range
<1>. QED  BY <1>1, MemoryAssumption DEF Command

LEMMA CommandsFacts ==
  ASSUME guess \in Seq(Int), Len(guess) >= 1, NEW solution \in [Blocks -> Velocities]
  PROVE  Commands(solution) \in Seq(Command) /\ Len(Commands(solution)) = Len(guess) + 1
<1>. DEFINE h == AtMost(Horizon, Len(guess))   b == AtMost(Length, h)   n == Len(guess) + 1
            c == Commands(solution)
<1>1. h \in Nat \ {0} /\ n \in Nat /\ h - 1 \in Nat
  <2>1. Len(guess) \in Nat
    BY LenProperties
  <2>. QED  BY <2>1, MemoryAssumption DEF AtMost
<1>2. b \in Nat \ {0}
  <2>. HIDE DEF h
  <2>. QED  BY <1>1, MemoryAssumption DEF AtMost
<1>3. Blocks = 0 .. (h - 1) \div b /\ c = [k \in 1 .. n |-> solution[BlockOf(k - 1, h, b)]]
  BY DEF Blocks, Commands
<1>. HIDE DEF h, b, n, c
<1>4. ASSUME NEW k \in 1 .. n
      PROVE  c[k] \in Command
  <2>. DEFINE t == k - 1
  <2>1. t \in Nat
    BY <1>1
  <2>. HIDE DEF t
  <2>2. BlockOf(t, h, b) \in 0 .. (h - 1) \div b
    <3>1. (h - 1) \div b \in Nat
      BY <1>1, <1>2, DivType
    <3>2. CASE t < h
      <4>1. t <= h - 1
        BY <1>1, <2>1, <3>2
      <4>2. t \div b \in Nat /\ t \div b <= (h - 1) \div b
        BY <1>1, <1>2, <2>1, <4>1, DivType, DivMonotone, Zenon
      <4>3. BlockOf(t, h, b) = t \div b
        BY <3>2, Zenon DEF BlockOf
      <4>. DEFINE x == t \div b   y == (h - 1) \div b
      <4>4. x \in Nat /\ y \in Nat /\ x <= y
        BY <3>1, <4>2, Zenon
      <4>. HIDE DEF x, y
      <4>5. x \in 0 .. y
        BY <4>4
      <4>. QED  BY <4>3, <4>5, Zenon DEF x, y
    <3>3. CASE ~ (t < h)
      BY <3>1, <3>3 DEF BlockOf
    <3>. QED  BY <3>2, <3>3
  <2>3. solution[BlockOf(t, h, b)] \in Velocities
    BY <1>3, <2>2, Zenon
  <2>4. c[k] = solution[BlockOf(t, h, b)]
    BY <1>3, Zenon DEF t
  <2>. QED  BY <2>3, <2>4 DEF Command
<1>5. DOMAIN c = 1 .. n
  BY <1>3, Zenon
<1>6. c \in [1 .. n -> Command]
  <2>1. c = [k \in 1 .. n |-> c[k]]
    BY <1>3, <1>5
  <2>. QED  BY <1>4, <2>1, Zenon
<1>7. c \in Seq(Command)
  BY <1>1, <1>6
<1>. QED  BY <1>1, <1>5, <1>7, LenProperties DEF c, n

-----------------------------------------------------------------------------
(***************************************************************************)
(* The inductive invariant is the conjunction of the properties: a solve   *)
(* needs a velocity to optimise for its commands to be commands, and the   *)
(* memory's types for what the next call blends in.                        *)
(***************************************************************************)
Inv == TypeOK /\ MemoryIsRollout /\ HorizonBounded

LEMMA TypeOf ==
  ASSUME TypeOK
  PROVE  previous_cmds \in Seq(Int)
<1>1. previous_cmds \in Seq(Command) /\ Command \subseteq Int
  BY CommandType DEF TypeOK
<1>2. /\ Len(previous_cmds) \in Nat /\ DOMAIN previous_cmds = 1 .. Len(previous_cmds)
      /\ \A k \in 1 .. Len(previous_cmds) : previous_cmds[k] \in Int
  BY <1>1, LenProperties, ElementOfSeq
<1>. QED  BY <1>1, <1>2

\* A trajectory and its commands hang together as a seeded memory must.
LEMMA SeedCoherent ==
  ASSUME NEW t \in Trajectories, previous_path' = Poses(t), previous_cmds' = t.cmds
  PROVE  MemoryIsRollout'
<1>. DEFINE path1 == Poses(t)   cmds1 == t.cmds
<1>1. /\ Len(cmds1) \in Nat /\ Len(path1) = Len(cmds1) + 1
      /\ \A k \in 1 .. Len(cmds1) : path1[k + 1] - path1[k] = cmds1[k]
      /\ path1 \in Seq(Int)
  <2>1. Len(t.cmds) \in Nat
    <3>1. t.cmds \in Seq(Int)
      BY PosesFacts
    <3>. QED  BY <3>1, LenProperties
  <2>. QED  BY <2>1, PosesFacts
<1>2. path1 # <<>>
  BY <1>1, EmptySeq
<1>. HIDE DEF path1, cmds1
<1>3. previous_path' = path1 /\ previous_cmds' = cmds1
  BY DEF path1, cmds1
<1>. QED  BY <1>1, <1>2, <1>3 DEF MemoryIsRollout, Optimised

LEMMA FormatKeeps ==
  ASSUME Inv, NEW t \in Trajectories, NEW s \in Speeds, NEW w \in Garbage, Format(t, s, w)
  PROVE  Inv'
<1>1. /\ Len(Poses(t)) >= 2 /\ given' = t /\ cmds' = t.cmds
      /\ Seed(Poses(t), t.cmds)
      /\ path' = BlendPath(Cut(Poses(t)), previous_path')
      /\ guess' = BlendCmds(Len(path'), s, t.cmds, previous_cmds', w)
      /\ start' = path'[1] /\ result' = "solving"
  BY DEF Format
<1>2. /\ t.cmds \in Seq(Int) /\ Poses(t) \in Seq(Int) /\ Len(Poses(t)) = Len(t.cmds) + 1
      /\ t.cmds \in Seq(Command) /\ s \in Int /\ w \in Int
  BY PosesFacts, CommandType, MemoryAssumption
<1>3. /\ previous_path' \in Seq(Int) /\ previous_cmds' \in Seq(Command)
      /\ previous_cmds' \in Seq(Int) /\ MemoryIsRollout'
  <2>1. CASE previous_path = <<>>
    <3>1. previous_path' = Poses(t) /\ previous_cmds' = t.cmds
      BY <1>1, <2>1 DEF Seed
    <3>. QED  BY <1>2, <3>1, SeedCoherent
  <2>2. CASE previous_path # <<>>
    <3>1. UNCHANGED memory
      BY <1>1, <2>2 DEF Seed
    <3>. QED  BY <3>1, TypeOf DEF memory, Inv, TypeOK, MemoryIsRollout, Optimised
  <2>. QED  BY <2>1, <2>2
<1>. DEFINE raw == Cut(Poses(t))   n == Len(path')
<1>4. raw \in Seq(Int) /\ Len(raw) \in 2 .. MaxSteps /\ Len(raw) <= Len(t.cmds) + 1
  BY <1>1, <1>2, CutFacts
<1>5. path' \in Seq(Int) /\ n \in 2 .. MaxSteps /\ n <= Len(t.cmds) + 1
  <2>1. path' = BlendPath(raw, previous_path')
    BY <1>1
  <2>. HIDE DEF raw
  <2>2. path' \in Seq(Int) /\ Len(path') = Len(raw)
    BY <1>3, <1>4, <2>1, BlendPathFacts
  <2>. QED  BY <1>4, <2>2
<1>6. guess' \in Seq(Int) /\ Len(guess') = n - 1
  <2>1. guess' = BlendCmds(n, s, t.cmds, previous_cmds', w)
    BY <1>1
  <2>. HIDE DEF n
  <2>. QED  BY <1>2, <1>3, <1>5, <2>1, BlendCmdsFacts
<1>7. path'[1] \in Int
  <2>1. MaxSteps \in Nat /\ 1 \in 1 .. Len(path')
    BY <1>5, MemoryAssumption
  <2>. QED  BY <1>5, <2>1, ElementOfSeq
<1>8. TypeOK'
  BY <1>1, <1>2, <1>3, <1>5, <1>6, <1>7 DEF TypeOK
<1>9. HorizonBounded'
  <2>1. MaxSteps \in Nat
    BY MemoryAssumption
  <2>. QED  BY <1>1, <1>5, <1>6, <2>1 DEF HorizonBounded
<1>. QED  BY <1>3, <1>8, <1>9 DEF Inv

LEMMA SolveUsableKeeps ==
  ASSUME Inv, SolveUsable
  PROVE  Inv'
<1>1. PICK solution \in [Blocks -> Velocities] : cmds' = Commands(solution)
  BY DEF SolveUsable
<1>2. /\ result = "solving" /\ result' = "true" /\ path' = Rollout(start, cmds')
      /\ previous_path' = path' /\ previous_cmds' = cmds'
      /\ UNCHANGED <<given, guess, start>>
  BY DEF SolveUsable
<1>3. /\ guess \in Seq(Int) /\ Len(guess) \in 1 .. MaxSteps - 1 /\ start \in Int
      /\ MaxSteps \in Nat
  BY <1>2, MemoryAssumption DEF Inv, TypeOK, HorizonBounded
<1>4. cmds' \in Seq(Command) /\ Len(cmds') = Len(guess) + 1
  <2>1. Len(guess) >= 1
    BY <1>3
  <2>. QED  BY <1>1, <1>3, <2>1, CommandsFacts
<1>5. cmds' \in Seq(Int)
  <2>1. Command \subseteq Int
    BY CommandType
  <2>2. /\ Len(cmds') \in Nat /\ DOMAIN cmds' = 1 .. Len(cmds')
        /\ \A k \in 1 .. Len(cmds') : cmds'[k] \in Int
    BY <1>4, <2>1, LenProperties, ElementOfSeq
  <2>. QED  BY <1>4, <2>2
<1>6. /\ path' \in Seq(Int) /\ Len(path') = Len(cmds')
      /\ \A k \in 1 .. Len(cmds') - 1 : path'[k + 1] = path'[k] + cmds'[k + 1]
  BY <1>2, <1>3, <1>5, RolloutFacts
<1>7. TypeOK'
  BY <1>2, <1>4, <1>6 DEF Inv, TypeOK
<1>8. HorizonBounded'
  BY <1>2, <1>3, <1>4, <1>6 DEF HorizonBounded
<1>9. MemoryIsRollout'
  <2>1. Len(cmds') \in Nat /\ Len(cmds') >= 2 /\ path' # <<>>
    BY <1>3, <1>4, <1>6, EmptySeq
  <2>2. \A k \in 1 .. Len(cmds') : path'[k] \in Int /\ cmds'[k] \in Int
    BY <1>5, <1>6, ElementOfSeq
  <2>3. \A k \in 1 .. Len(path') - 1 : path'[k + 1] - path'[k] = cmds'[k + 1]
    <3>1. \A k \in 1 .. Len(cmds') - 1 : k \in 1 .. Len(cmds') /\ k + 1 \in 1 .. Len(cmds')
      BY <2>1
    <3>. QED  BY <1>6, <2>2, <3>1
  <2>. QED  BY <1>2, <1>6, <2>1, <2>3 DEF MemoryIsRollout, Optimised
<1>. QED  BY <1>7, <1>8, <1>9 DEF Inv

LEMMA Start == Init => Inv
<1>. SUFFICES ASSUME Init PROVE Inv
  OBVIOUS
<1>1. /\ previous_path = <<>> /\ previous_cmds = <<>> /\ guess = <<>>
      /\ given \in Trajectories /\ path = Poses(given) /\ cmds = given.cmds
      /\ start = given.robot /\ result = "none"
  BY DEF Init
<1>2. Poses(given) \in Seq(Int) /\ given.cmds \in Seq(Command) /\ given.robot \in Int
  BY <1>1, PosesFacts, CommandType, MemoryAssumption
<1>3. /\ <<>> \in Seq(Int) /\ <<>> \in Seq(Command) /\ Len(<<>>) = 0
  BY EmptySeq
<1>4. TypeOK
  BY <1>1, <1>2, <1>3 DEF TypeOK
<1>. QED  BY <1>1, <1>3, <1>4 DEF Inv, MemoryIsRollout, HorizonBounded

LEMMA Step == Inv /\ [Next]_vars => Inv'
<1>. SUFFICES ASSUME Inv, [Next]_vars PROVE Inv'
  OBVIOUS
<1>1. ASSUME NEW t \in Trajectories, Reject(t)
      PROVE  Inv'
  <2>1. /\ given' = t /\ path' = Poses(t) /\ cmds' = t.cmds /\ result' = "false"
        /\ UNCHANGED <<memory, guess, start>>
    BY <1>1 DEF Reject
  <2>2. Poses(t) \in Seq(Int) /\ t.cmds \in Seq(Command)
    BY PosesFacts, CommandType
  <2>. QED  BY <2>1, <2>2 DEF Inv, TypeOK, MemoryIsRollout, Optimised, HorizonBounded, memory
<1>2. ASSUME NEW t \in Trajectories, NEW s \in Speeds, NEW w \in Garbage, Format(t, s, w)
      PROVE  Inv'
  BY <1>2, FormatKeeps
<1>3. CASE SolveUsable
  BY <1>3, SolveUsableKeeps
<1>4. CASE SolveUnusable
  BY <1>4 DEF SolveUnusable, Inv, TypeOK, MemoryIsRollout, Optimised, HorizonBounded, memory
<1>5. CASE UNCHANGED vars
  BY <1>5 DEF vars, Inv, TypeOK, MemoryIsRollout, Optimised, HorizonBounded, memory
<1>. QED  BY <1>1, <1>2, <1>3, <1>4, <1>5 DEF Next

LEMMA AlwaysInv == Spec => []Inv
BY Start, Step, PTL DEF Spec

-----------------------------------------------------------------------------
(***************************************************************************)
(* The theorems.                                                           *)
(***************************************************************************)

(* Neither a blend nor a read past the end of the remembered commands ever *)
(* reaches what is remembered or handed out (optimizer.cpp:655-690).       *)
THEOREM TypeCorrect == Spec => []TypeOK
<1>1. Inv => TypeOK
  BY DEF Inv
<1>. QED  BY <1>1, AlwaysInv, PTL

(* The remembered commands always lead along the remembered path           *)
(* (optimizer.cpp:269-273, 546-572, 599-600).                              *)
THEOREM AlwaysMemoryIsRollout == Spec => []MemoryIsRollout
<1>1. Inv => MemoryIsRollout
  BY DEF Inv
<1>. QED  BY <1>1, AlwaysInv, PTL

(* No solve is without a velocity, and none exceeds the maximum number of  *)
(* steps (optimizer.cpp:643-648, 536).                                     *)
THEOREM AlwaysHorizonBounded == Spec => []HorizonBounded
<1>1. Inv => HorizonBounded
  BY DEF Inv
<1>. QED  BY <1>1, AlwaysInv, PTL

(* The blend leads nowhere but between the new trajectory and what is      *)
(* remembered, and nowhere else than before where they agree               *)
(* (optimizer.cpp:649-673).                                                *)
THEOREM AlwaysTrackedBetween == Spec => TrackedBetween
<1>. DEFINE A == result' = "solving" /\ result # "solving" /\ previous_path # <<>> =>
                   LET raw == Cut(Poses(given'))
                   IN  /\ Between(given'.robot, start', previous_path[1])
                       /\ Len(path') = Len(raw)
                       /\ \A i \in DOMAIN raw :
                            IF i <= Len(previous_path)
                            THEN Between(raw[i], path'[i], previous_path[i])
                            ELSE path'[i] = raw[i]
<1>1. ASSUME Inv, Next PROVE A
  <2>. DEFINE raw == Cut(Poses(given'))
  <2>1. SUFFICES ASSUME result' = "solving", result # "solving", previous_path # <<>>
                 PROVE  /\ Between(given'.robot, start', previous_path[1])
                        /\ Len(path') = Len(raw)
                        /\ \A i \in DOMAIN raw :
                             IF i <= Len(previous_path)
                             THEN Between(raw[i], path'[i], previous_path[i])
                             ELSE path'[i] = raw[i]
    OBVIOUS
  <2>2. PICK t \in Trajectories, s \in Speeds, w \in Garbage : Format(t, s, w)
    BY <1>1, <2>1 DEF Next, Reject, SolveUsable, SolveUnusable
  <2>3. /\ Len(Poses(t)) >= 2 /\ given' = t /\ previous_path' = previous_path
        /\ path' = BlendPath(raw, previous_path) /\ start' = path'[1]
    BY <2>1, <2>2 DEF Format, Seed, memory
  <2>4. raw \in Seq(Int) /\ Len(raw) >= 2 /\ raw[1] = t.robot /\ previous_path \in Seq(Int)
    <3>1. Poses(t) \in Seq(Int) /\ Poses(t)[1] = t.robot
      BY PosesFacts
    <3>2. /\ Cut(Poses(t)) \in Seq(Int) /\ Len(Cut(Poses(t))) \in 2 .. MaxSteps
          /\ Cut(Poses(t))[1] = Poses(t)[1]
      BY <2>3, <3>1, CutFacts
    <3>3. Len(Cut(Poses(t))) >= 2
      BY <3>2, MemoryAssumption
    <3>. QED  BY <1>1, <2>3, <3>1, <3>2, <3>3 DEF Inv, TypeOK
  <2>. HIDE DEF raw
  <2>5. /\ Len(path') = Len(raw)
        /\ \A i \in DOMAIN raw : IF i <= Len(previous_path)
                                 THEN Between(raw[i], path'[i], previous_path[i])
                                 ELSE path'[i] = raw[i]
    BY <2>3, <2>4, BlendPathFacts
  <2>6. 1 \in DOMAIN raw /\ 1 <= Len(previous_path)
    <3>1. Len(raw) \in Nat /\ DOMAIN raw = 1 .. Len(raw)
          /\ Len(previous_path) \in Nat /\ Len(previous_path) # 0
      BY <2>1, <2>4, LenProperties, EmptySeq
    <3>. QED  BY <2>4, <3>1
  <2>. QED  BY <2>3, <2>4, <2>5, <2>6
<1>. HIDE DEF A
<1>2. Inv /\ [Next]_vars => [A]_vars
  BY <1>1
<1>3. Spec => [][A]_vars
  BY <1>2, AlwaysInv, PTL DEF Spec
<1>. QED  BY <1>3 DEF A, TrackedBetween

-----------------------------------------------------------------------------
(***************************************************************************)
(* How far the finding about the guess reaches.                            *)
(***************************************************************************)

\* While the solver runs, the guess is one velocity shorter than the path,
\* and what is remembered is blended into it.
GuessInv ==
  result = "solving" =>
    /\ Len(guess) = Len(path) - 1
    /\ \A i \in 2 .. Len(guess) :
         i - 1 <= Len(previous_cmds) => guess[i] = Blend(cmds[i - 1], previous_cmds[i - 1])

LEMMA GuessStep ==
  ASSUME Inv, GuessInv, [Next]_vars
  PROVE  GuessInv'
<1>1. ASSUME NEW t \in Trajectories, NEW s \in Speeds, NEW w \in Garbage, Format(t, s, w)
      PROVE  GuessInv'
  <2>. DEFINE n == Len(path')
  <2>1. cmds' = t.cmds /\ guess' = BlendCmds(n, s, t.cmds, previous_cmds', w)
        /\ result' = "solving"
    BY <1>1 DEF Format
  <2>2. Inv'
    BY <1>1, FormatKeeps
  <2>3. guess' \in Seq(Int) /\ path' \in Seq(Int) /\ previous_cmds' \in Seq(Command)
        /\ Len(guess') \in 1 .. MaxSteps - 1 /\ MaxSteps \in Nat
    BY <2>1, <2>2, MemoryAssumption DEF Inv, TypeOK, HorizonBounded
  <2>4. n \in Nat /\ DOMAIN guess' = 1 .. Len(guess') /\ Len(guess') \in Nat
        /\ Len(previous_cmds') \in Nat
    BY <2>3, LenProperties
  <2>. HIDE DEF n
  <2>5. guess' = [i \in 1 .. n - 1 |->
                    IF i = 1 THEN s
                    ELSE Blend(t.cmds[i - 1],
                               IF i - 1 <= Len(previous_cmds') THEN previous_cmds'[i - 1] ELSE w)]
    BY <2>1 DEF BlendCmds
  <2>6. DOMAIN guess' = 1 .. n - 1
    BY <2>5
  <2>7. Len(guess') = n - 1
    <3>. DEFINE l == Len(guess')
    <3>1. 1 .. l = 1 .. n - 1 /\ l \in Nat /\ l >= 1 /\ n \in Nat
      BY <2>3, <2>4, <2>6
    <3>. HIDE DEF l
    <3>2. l = n - 1
      BY <3>1
    <3>. QED  BY <3>2 DEF l
  <2>8. ASSUME NEW i \in 2 .. Len(guess'), i - 1 <= Len(previous_cmds')
        PROVE  guess'[i] = Blend(cmds'[i - 1], previous_cmds'[i - 1])
    <3>1. i \in 1 .. n - 1 /\ i # 1
      BY <2>4, <2>7
    <3>2. guess'[i] = Blend(t.cmds[i - 1],
                            IF i - 1 <= Len(previous_cmds') THEN previous_cmds'[i - 1] ELSE w)
      BY <2>5, <3>1
    <3>. QED  BY <2>1, <2>8, <3>2
  <2>. QED  BY <2>7, <2>8 DEF GuessInv, n, Blend
<1>2. CASE SolveUsable \/ SolveUnusable \/ \E t \in Trajectories : Reject(t)
  BY <1>2 DEF SolveUsable, SolveUnusable, Reject, GuessInv
<1>3. CASE UNCHANGED vars
  BY <1>3 DEF vars, memory, GuessInv, Blend
<1>. QED  BY <1>1, <1>2, <1>3 DEF Next

(* Where GuessFromMemory holds: as long as a path is at most one pose      *)
(* longer than the remembered one, every velocity of the guess but the     *)
(* measured one is the blend of the trajectory's command with the          *)
(* remembered one; no stray value is read (optimizer.cpp:675-690).         *)
THEOREM GuessFromMemoryWhenNotLonger ==
  Spec => [](result = "solving" /\ Len(path) <= Len(previous_path) + 1 =>
               /\ GuessFromMemory
               /\ \A i \in 2 .. Len(guess) :
                    guess[i] = Blend(cmds[i - 1], previous_cmds[i - 1]))
<1>. DEFINE Blended == result = "solving" /\ Len(path) <= Len(previous_path) + 1 =>
                         /\ GuessFromMemory
                         /\ \A i \in 2 .. Len(guess) :
                              guess[i] = Blend(cmds[i - 1], previous_cmds[i - 1])
<1>1. Init => GuessInv
  BY DEF Init, GuessInv
<1>2. Inv /\ GuessInv /\ [Next]_vars => GuessInv'
  BY GuessStep
<1>3. ASSUME Inv, GuessInv PROVE Blended
  <2>. SUFFICES ASSUME result = "solving", Len(path) <= Len(previous_path) + 1
                PROVE  /\ GuessFromMemory
                       /\ \A i \in 2 .. Len(guess) :
                            guess[i] = Blend(cmds[i - 1], previous_cmds[i - 1])
    OBVIOUS
  <2>1. /\ path \in Seq(Int) /\ previous_path \in Seq(Int) /\ previous_cmds \in Seq(Command)
        /\ guess \in Seq(Int)
    BY <1>3 DEF Inv, TypeOK
  <2>2. /\ Len(path) \in Nat /\ Len(previous_path) \in Nat /\ Len(previous_cmds) \in Nat
        /\ Len(guess) \in Nat
    BY <2>1, LenProperties
  <2>3. Len(previous_path) - 1 <= Len(previous_cmds)
    <3>1. previous_path = <<>> => Len(previous_path) = 0
      BY EmptySeq
    <3>2. previous_path # <<>> => Len(previous_path) - Len(previous_cmds) \in {0, 1}
      BY <1>3 DEF Inv, MemoryIsRollout
    <3>. QED  BY <2>2, <3>1, <3>2
  <2>4. Len(guess) = Len(path) - 1
    BY <1>3 DEF GuessInv
  <2>5. Len(guess) - 1 <= Len(previous_cmds)
    BY <2>2, <2>3, <2>4
  <2>6. GuessFromMemory
    BY <2>5 DEF GuessFromMemory
  <2>7. ASSUME NEW i \in 2 .. Len(guess)
        PROVE  guess[i] = Blend(cmds[i - 1], previous_cmds[i - 1])
    <3>1. i - 1 <= Len(previous_cmds)
      BY <2>2, <2>5
    <3>. QED  BY <1>3, <3>1 DEF GuessInv
  <2>. QED  BY <2>6, <2>7
<1>4. Inv /\ GuessInv => Blended
  BY <1>3
<1>. HIDE DEF Blended
<1>5. Spec => []Blended
  BY <1>1, <1>2, <1>4, AlwaysInv, PTL DEF Spec
<1>. QED  BY <1>5 DEF Blended
=============================================================================
