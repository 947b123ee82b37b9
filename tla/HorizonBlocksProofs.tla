------------------------ MODULE HorizonBlocksProofs ------------------------
(***************************************************************************)
(* Proofs about HorizonBlocks, for every path length, horizon and block    *)
(* length and every set of critics.                                        *)
(***************************************************************************)
EXTENDS HorizonBlocks, NumberLemmas, SequenceTheorems

(***************************************************************************)
(* Arithmetic of the block index.                                          *)
(***************************************************************************)

LEMMA BlockOfType ==
  ASSUME NEW t \in Nat, NEW h \in Nat \ {0}, NEW b \in Nat \ {0}
  PROVE  /\ BlockOf(t, h, b) \in 0 .. (h - 1) \div b
         /\ NumParamBlocks(t, h, b) = BlockOf(t, h, b) + 1
<1>1. /\ t \div b \in Nat /\ (h - 1) \div b \in Nat
  BY DivType
<1>2. t < h => t \div b <= (h - 1) \div b
  BY DivMonotone
<1>. QED  BY <1>1, <1>2 DEF BlockOf, NumParamBlocks

\* Later steps use later blocks, so a rollout reads no block beyond its own.
LEMMA BlockOfMonotone ==
  ASSUME NEW t \in Nat, NEW u \in Nat, t <= u, NEW h \in Nat \ {0}, NEW b \in Nat \ {0}
  PROVE  BlockOf(t, h, b) <= BlockOf(u, h, b)
<1>1. CASE u < h
  <2>1. t \div b <= u \div b
    BY DivMonotone
  <2>. QED  BY <1>1, <2>1 DEF BlockOf
<1>2. CASE ~ (u < h)
  <2>1. /\ BlockOf(t, h, b) \in 0 .. (h - 1) \div b
        /\ (h - 1) \div b \in Nat
    BY BlockOfType, DivType
  <2>. QED  BY <1>2, <2>1 DEF BlockOf
<1>. QED  BY <1>1, <1>2

\* The number of parameter blocks once the loop has made n passes.
BlocksAfter(n) == IF n = 0 THEN 0 ELSE NumParamBlocks(n - 1, H, B)

LEMMA ConfType ==
  ASSUME conf \in Configurations
  PROVE  /\ H \in Nat \ {0} /\ B \in Nat \ {0} /\ V \in Nat \ {0}
         /\ B <= H /\ H <= V
         /\ H \div B \in Nat /\ H \div B <= H
         /\ (H - 1) \div B \in Nat
         /\ H \div B \in {(H - 1) \div B, ((H - 1) \div B) + 1}
<1>1. /\ H \in Nat \ {0} /\ B \in Nat \ {0} /\ V \in Nat \ {0}
      /\ B <= H /\ H <= V
  BY BlocksAssumption DEF Configurations, H, B, V, AtMost
<1>. HIDE DEF H, B, V
<1>2. H - 1 \in Nat /\ H = (H - 1) + 1
  BY <1>1
<1>3. H \div B \in {(H - 1) \div B, ((H - 1) \div B) + 1}
  BY <1>1, <1>2, DivStep
<1>. QED  BY <1>1, <1>2, <1>3, DivType

\* Every path uses up the whole horizon, hence all its blocks.
LEMMA BlocksAtEnd ==
  ASSUME conf \in Configurations
  PROVE  BlocksAfter(V) = ((H - 1) \div B) + 1
<1>1. /\ H \in Nat \ {0} /\ B \in Nat \ {0} /\ V \in Nat \ {0} /\ H <= V
  BY ConfType
<1>2. V - 1 < H => V - 1 = H - 1
  BY <1>1
<1>. QED  BY <1>1, <1>2 DEF BlocksAfter, NumParamBlocks

(***************************************************************************)
(* The inductive invariant.                                                *)
(***************************************************************************)

\* The parameter blocks are the first velocities, in order.
BlocksInOrder ==
  /\ Len(parameter_blocks) = BlocksAfter(step)
  /\ \A k \in 1 .. Len(parameter_blocks) : parameter_blocks[k] = k - 1

ResidualFits(r) ==
  /\ r.arity = NumParamBlocks(r.step, H, B)
  /\ Len(r.blocks) = r.arity
  /\ \A k \in 1 .. r.arity : r.blocks[k] = k - 1

LimitsFollowBlocks ==
  /\ tied \subseteq TiedPairs
  /\ bounded \subseteq BoundedBlocks
  /\ phase \in {"idle", "build", "built"} => tied = {} /\ bounded = {}
  /\ phase \in {"limited", "solved", "saved", "done"} =>
       tied = TiedPairs /\ bounded = BoundedBlocks

Inv ==
  /\ TypeOK
  /\ phase \notin {"idle", "build"} => step = V
  /\ BlocksInOrder
  /\ \A r \in residuals : ResidualFits(r)
  /\ LimitsFollowBlocks
  /\ phase \in {"solved", "saved", "done"} =>
       \A k \in 0 .. (H - 1) \div B : optim_velocities[k] = Solved(k)
  /\ ExecutedIsScored
  /\ phase \in {"saved", "done"} => cmds \in [0 .. V -> Velocity]
  /\ PredictionFollowsCommands

\* What the loop's test for a new block amounts to.
LEMMA BlocksAtStep ==
  ASSUME conf \in Configurations, step \in 0 .. V, step < V,
         parameter_blocks \in Seq(Nat), BlocksInOrder
  PROVE  /\ BlocksAt(step) \in Seq(Nat)
         /\ Len(BlocksAt(step)) = NumParamBlocks(step, H, B)
         /\ \A k \in 1 .. Len(BlocksAt(step)) : BlocksAt(step)[k] = k - 1
<1>. DEFINE used == step \div B
             n    == Len(parameter_blocks)
<1>0. /\ H \in Nat \ {0} /\ B \in Nat \ {0} /\ V \in Nat \ {0} /\ step \in Nat
  BY ConfType
<1>1. /\ H \in Nat \ {0} /\ B \in Nat \ {0} /\ V \in Nat \ {0} /\ step \in Nat
      /\ used \in Nat /\ n \in Nat
  BY <1>0, DivType
<1>2. CASE step = 0
  <2>1. n = 0 /\ parameter_blocks = <<>>
    BY <1>1, <1>2, EmptySeq DEF BlocksInOrder, BlocksAfter
  <2>2. used = 0
    BY <1>1, <1>2, DivType
  <2>3. BlocksAt(step) = Append(parameter_blocks, used)
    BY <1>1, <1>2, <2>1 DEF BlocksAt
  <2>4. NumParamBlocks(step, H, B) = 1
    BY <1>1, <1>2, <2>2 DEF NumParamBlocks
  <2>. QED  BY <1>1, <2>1, <2>2, <2>3, <2>4
<1>3. CASE step > 0
  <2>. DEFINE prev == step - 1
  <2>1. prev \in Nat /\ step = prev + 1
    BY <1>1, <1>3
  <2>2. n = NumParamBlocks(prev, H, B)
    BY <1>1, <1>3, <2>1 DEF BlocksInOrder, BlocksAfter
  <2>3. /\ BlockOf(prev, H, B) \in 0 .. (H - 1) \div B
        /\ n = BlockOf(prev, H, B) + 1
    BY <1>1, <2>1, <2>2, BlockOfType
  <2>4. n >= 1 /\ parameter_blocks # <<>> /\ LastOf(parameter_blocks) = n - 1
    BY <1>1, <2>3 DEF BlocksInOrder, LastOf
  <2>5. CASE step < H
    <3>1. n = (prev \div B) + 1 /\ prev \div B \in Nat
      BY <1>1, <2>1, <2>2, <2>5, DivType DEF NumParamBlocks
    <3>2. used \in {prev \div B, (prev \div B) + 1}
      BY <1>1, <2>1, DivStep
    <3>3. NumParamBlocks(step, H, B) = used + 1
      BY <2>5 DEF NumParamBlocks
    <3>4. CASE used = prev \div B
      <4>1. BlocksAt(step) = parameter_blocks
        BY <1>1, <2>4, <3>1, <3>4 DEF BlocksAt
      <4>. QED  BY <1>1, <3>1, <3>3, <3>4, <4>1 DEF BlocksInOrder
    <3>5. CASE used = (prev \div B) + 1
      <4>1. BlocksAt(step) = Append(parameter_blocks, used)
        BY <1>1, <2>4, <2>5, <3>1, <3>5 DEF BlocksAt
      <4>2. used = n
        BY <3>1, <3>5
      <4>. HIDE DEF used
      <4>. QED  BY <1>1, <3>3, <4>1, <4>2 DEF BlocksInOrder
    <3>. QED  BY <3>2, <3>4, <3>5
  <2>6. CASE ~ (step < H)
    <3>1. BlocksAt(step) = parameter_blocks
      BY <1>1, <2>6 DEF BlocksAt
    <3>2. prev < H => prev = H - 1
      BY <1>1, <2>1, <2>6
    <3>3. NumParamBlocks(prev, H, B) = NumParamBlocks(step, H, B)
      BY <2>6, <3>2 DEF NumParamBlocks
    <3>. QED  BY <1>1, <2>2, <3>1, <3>3 DEF BlocksInOrder
  <2>. QED  BY <2>5, <2>6
<1>. QED  BY <1>1, <1>2, <1>3

\* With the loop done the problem holds the first ceil(H/B) velocities.
LEMMA ProblemAtEnd ==
  ASSUME conf \in Configurations, step = V, BlocksInOrder,
         parameter_blocks \in Seq(Nat)
  PROVE  InProblem = 0 .. (H - 1) \div B
<1>1. Len(parameter_blocks) = ((H - 1) \div B) + 1 /\ (H - 1) \div B \in Nat
  BY BlocksAtEnd, ConfType DEF BlocksInOrder
<1>2. DOMAIN parameter_blocks = 1 .. ((H - 1) \div B) + 1
  BY <1>1
<1>3. \A k \in DOMAIN parameter_blocks : parameter_blocks[k] = k - 1
  BY <1>1, <1>2 DEF BlocksInOrder
<1>4. \A j \in 0 .. (H - 1) \div B :
         j + 1 \in DOMAIN parameter_blocks /\ parameter_blocks[j + 1] = j
  BY <1>1, <1>2, <1>3
<1>5. \A k \in DOMAIN parameter_blocks : parameter_blocks[k] \in 0 .. (H - 1) \div B
  BY <1>1, <1>2, <1>3
<1>. QED  BY <1>4, <1>5 DEF InProblem

\* The saved commands are the block velocities, step by step.
LEMMA SavedCommands ==
  ASSUME conf \in Configurations,
         NEW vel \in [0 .. V - 1 -> Velocity],
         \A k \in 0 .. (H - 1) \div B : vel[k] = Solved(k)
  PROVE  /\ Spread(vel) \in [0 .. V - 1 -> Velocity]
         /\ \A k \in 0 .. (H - 1) \div B : Spread(vel)[k] = Solved(k)
         /\ Saved(Spread(vel)) \in [0 .. V -> Velocity]
         /\ \A t \in 0 .. V : Saved(Spread(vel))[t] = Solved(BlockOf(t, H, B))
<1>. DEFINE last == (H - 1) \div B
             s    == Spread(vel)
<1>1. /\ H \in Nat \ {0} /\ B \in Nat \ {0} /\ V \in Nat \ {0} /\ H <= V
      /\ H \div B \in Nat /\ H \div B <= H /\ last \in Nat
      /\ H \div B \in {last, last + 1}
  BY ConfType
<1>2. last <= H - 1
  BY <1>1, DivType
<1>3. last \in 0 .. V - 1 /\ vel[last] = Solved(last)
  BY <1>1, <1>2
<1>. HIDE DEF last
<1>4. s \in [0 .. V - 1 -> Velocity]
  BY <1>3 DEF Spread, last
<1>5. \A k \in 0 .. V - 1 : s[k] = IF k >= H \div B THEN Solved(last) ELSE vel[k]
  BY <1>3 DEF Spread, last
<1>6. \A k \in 0 .. last : s[k] = Solved(k)
  <2>. TAKE k \in 0 .. last
  <2>1. k \in 0 .. V - 1 /\ vel[k] = Solved(k)
    BY <1>1, <1>2 DEF last
  <2>2. k >= H \div B => k = last
    BY <1>1
  <2>. QED  BY <1>5, <2>1, <2>2
<1>7. \A t \in 0 .. V :
         /\ t < H  => t \div B \in 0 .. last /\ BlockOf(t, H, B) = t \div B
         /\ ~ (t < H) => t - 1 \in 0 .. V - 1 /\ BlockOf(t, H, B) = last
  <2>. TAKE t \in 0 .. V
  <2>0. t \in Nat /\ BlockOf(t, H, B) \in 0 .. last
    <3>1. t \in Nat /\ H \in Nat \ {0} /\ B \in Nat \ {0}
      BY <1>1
    <3>2. BlockOf(t, H, B) \in 0 .. (H - 1) \div B
      BY <3>1, BlockOfType
    <3>. QED  BY <3>1, <3>2 DEF last
  <2>1. t < H => t \div B \in 0 .. last /\ BlockOf(t, H, B) = t \div B
    BY <2>0 DEF BlockOf
  <2>2. ~ (t < H) => t - 1 \in 0 .. V - 1 /\ BlockOf(t, H, B) = last
    BY <1>1 DEF BlockOf, last
  <2>. QED  BY <2>1, <2>2
<1>8. \A t \in 0 .. V : ~ (t < H) => s[t - 1] = Solved(last)
  <2>. SUFFICES ASSUME NEW t \in 0 .. V, ~ (t < H)
                PROVE  s[t - 1] = Solved(last)
    OBVIOUS
  <2>1. CASE t - 1 >= H \div B
    BY <1>5, <1>7, <2>1
  <2>2. CASE ~ (t - 1 >= H \div B)
    <3>1. H \div B = H /\ t = H
      BY <1>1, <2>2
    <3>2. last = H - 1
      BY <1>1, <3>1, DivSame DEF last
    <3>. QED  BY <1>1, <1>6, <3>1, <3>2
  <2>. QED  BY <2>1, <2>2
<1>. HIDE DEF s
<1>9. \A t \in 0 .. V : Saved(s)[t] = Solved(BlockOf(t, H, B))
  BY <1>6, <1>7, <1>8 DEF Saved
<1>10. Saved(s) \in [0 .. V -> Velocity]
  <2>1. 0 .. last \subseteq 0 .. V - 1
    BY <1>1, <1>2
  <2>2. s \in [0 .. V - 1 -> Velocity]
    BY <1>4
  <2>3. \A t \in 0 .. V :
           (IF t < H THEN s[t \div B] ELSE s[t - 1]) \in Velocity
    BY <1>7, <2>1, <2>2
  <2>. QED  BY <2>3 DEF Saved
<1>. QED  BY <1>4, <1>6, <1>9, <1>10 DEF s, last

(***************************************************************************)
(* The invariant holds initially and every action keeps it.                *)
(***************************************************************************)

\* An optimize call starts from nothing.
Fresh ==
  /\ phase \in {"idle", "build"} /\ conf \in Configurations
  /\ step = 0 /\ parameter_blocks = <<>> /\ residuals = {}
  /\ tied = {} /\ bounded = {} /\ cmds = <<>> /\ people_proj = <<>>
  /\ optim_velocities = [k \in 0 .. V - 1 |-> Guess(k)]

LEMMA FreshStart == Fresh => Inv
<1>. SUFFICES ASSUME Fresh PROVE Inv
  OBVIOUS
<1>. USE DEF Fresh
<1>1. V \in Nat \ {0}
  BY ConfType
<1>2. optim_velocities \in [0 .. V - 1 -> Velocity]
  BY <1>1 DEF Guess, Velocity
<1>3. TypeOK
  BY <1>1, <1>2 DEF TypeOK, Phases
<1>4. BlocksInOrder
  BY <1>1 DEF BlocksInOrder, BlocksAfter
<1>5. LimitsFollowBlocks
  BY DEF LimitsFollowBlocks
<1>. QED  BY <1>3, <1>4, <1>5 DEF Inv, ExecutedIsScored, PredictionFollowsCommands

LEMMA InitInv == Init => Inv
BY FreshStart DEF Init, Fresh

LEMMA CallKeepsInv ==
  ASSUME Call
  PROVE  Inv'
<1>1. PICK c \in Configurations : NoProblem(c)
  BY DEF Call
<1>2. V' = c.size /\ phase' = "build" /\ conf' = c
  BY <1>1 DEF NoProblem, Call, V
<1>3. Fresh'
  BY <1>1, <1>2 DEF NoProblem, Fresh
<1>. QED  BY <1>3, FreshStart, PTL

\* One pass of the loop: the residuals it adds fit the blocks they get.
LEMMA BuildStepKeepsInv ==
  ASSUME Inv, BuildStep
  PROVE  Inv'
<1>. DEFINE blocks == BlocksAt(step)
<1>0. UNCHANGED <<phase, conf, tied, bounded, optim_velocities, cmds, people_proj>>
      /\ step' = step + 1 /\ phase = "build"
      /\ H' = H /\ B' = B /\ V' = V
  BY DEF BuildStep, H, B, V
<1>1. /\ conf \in Configurations /\ step \in 0 .. V /\ step < V
      /\ parameter_blocks \in Seq(Nat) /\ BlocksInOrder
  BY DEF Inv, TypeOK, BuildStep
<1>2. /\ H \in Nat \ {0} /\ B \in Nat \ {0} /\ V \in Nat \ {0}
      /\ step \in Nat /\ step + 1 \in 0 .. V
  BY <1>1, ConfType
<1>3. /\ blocks \in Seq(Nat)
      /\ Len(blocks) = NumParamBlocks(step, H, B)
      /\ \A k \in 1 .. Len(blocks) : blocks[k] = k - 1
  BY <1>1, BlocksAtStep
<1>4. parameter_blocks' = blocks
  BY DEF BuildStep
<1>5. residuals' = residuals \union ResidualsAt(step, blocks)
  BY <1>4 DEF BuildStep
<1>6. NumParamBlocks(step, H, B) \in Nat
  BY <1>2, BlockOfType, DivType
<1>. HIDE DEF blocks, H, B, V
<1>7. \A r \in ResidualsAt(step, blocks) : r \in Residual /\ ResidualFits(r)
  BY <1>2, <1>3, <1>6 DEF ResidualsAt, CostsInUse, Residual, ResidualFits
<1>8. TypeOK'
  BY <1>0, <1>2, <1>3, <1>4, <1>5, <1>7 DEF Inv, TypeOK
<1>9. BlocksInOrder'
  <2>1. BlocksAfter(step + 1) = NumParamBlocks(step, H, B)
    BY <1>2 DEF BlocksAfter
  <2>2. BlocksAfter(step)' = BlocksAfter(step + 1)
    BY <1>0 DEF BlocksAfter
  <2>. QED  BY <1>3, <1>4, <2>1, <2>2 DEF BlocksInOrder
<1>10. (\A r \in residuals : ResidualFits(r))'
  BY <1>0, <1>5, <1>7 DEF Inv, ResidualFits
<1>11. LimitsFollowBlocks'
  BY <1>0 DEF Inv, LimitsFollowBlocks, TiedPairs, BoundedBlocks
<1>. QED  BY <1>0, <1>8, <1>9, <1>10, <1>11
          DEF Inv, ExecutedIsScored, PredictionFollowsCommands

LEMMA StepKeepsInv ==
  ASSUME Inv, [Next]_vars
  PROVE  Inv'
<1>1. conf \in Configurations
  BY DEF Inv, TypeOK
<1>2. /\ H \in Nat \ {0} /\ B \in Nat \ {0} /\ V \in Nat \ {0}
      /\ H \div B \in Nat /\ (H - 1) \div B \in Nat
  BY <1>1, ConfType
<1>3. CASE Call
  BY <1>3, CallKeepsInv
<1>4. CASE BuildStep
  BY <1>4, BuildStepKeepsInv
<1>5. CASE EndBuild
  <2>1. H' = H /\ B' = B /\ V' = V
    BY <1>5 DEF EndBuild, H, B, V
  <2>. HIDE DEF H, B, V
  <2>2. TypeOK'
    BY <1>5, <2>1 DEF EndBuild, Inv, TypeOK, Phases
  <2>3. BlocksInOrder' /\ (\A r \in residuals : ResidualFits(r))'
    BY <1>5, <2>1 DEF EndBuild, Inv, BlocksInOrder, BlocksAfter, ResidualFits
  <2>4. LimitsFollowBlocks'
    BY <1>5, <2>1 DEF EndBuild, Inv, LimitsFollowBlocks, TiedPairs, BoundedBlocks
  <2>. QED  BY <1>5, <2>1, <2>2, <2>3, <2>4
            DEF EndBuild, Inv, ExecutedIsScored, PredictionFollowsCommands
<1>6. CASE Limit
  <2>1. H' = H /\ B' = B /\ V' = V
    BY <1>6 DEF Limit, H, B, V
  <2>. HIDE DEF H, B, V
  <2>2. TiedPairs \subseteq Nat \X Nat /\ BoundedBlocks \subseteq Nat
    BY <1>2 DEF TiedPairs, BoundedBlocks, NumBlocks
  <2>3. TypeOK'
    BY <1>6, <2>1, <2>2 DEF Limit, Inv, TypeOK, Phases
  <2>4. BlocksInOrder' /\ (\A r \in residuals : ResidualFits(r))'
    BY <1>6, <2>1 DEF Limit, Inv, BlocksInOrder, BlocksAfter, ResidualFits
  <2>5. LimitsFollowBlocks'
    BY <1>6, <2>1 DEF Limit, LimitsFollowBlocks, TiedPairs, BoundedBlocks
  <2>. QED  BY <1>6, <2>1, <2>3, <2>4, <2>5
            DEF Limit, Inv, ExecutedIsScored, PredictionFollowsCommands
<1>7. CASE Solve
  <2>1. H' = H /\ B' = B /\ V' = V
    BY <1>7 DEF Solve, H, B, V
  <2>2. InProblem = 0 .. (H - 1) \div B
    BY <1>1, <1>7, ProblemAtEnd DEF Inv, TypeOK, Solve
  <2>3. (H - 1) \div B <= V - 1
    BY <1>1, <1>2, ConfType, DivType
  <2>. HIDE DEF H, B, V
  <2>4. optim_velocities' \in [0 .. V - 1 -> Velocity]
    BY <1>2, <1>7 DEF Solve, Inv, TypeOK, Solved, Velocity
  <2>5. \A k \in 0 .. (H - 1) \div B : optim_velocities'[k] = Solved(k)
    BY <1>2, <1>7, <2>2, <2>3 DEF Solve
  <2>6. TypeOK'
    BY <1>7, <2>1, <2>4 DEF Solve, Inv, TypeOK, Phases
  <2>7. BlocksInOrder' /\ (\A r \in residuals : ResidualFits(r))'
    BY <1>7, <2>1 DEF Solve, Inv, BlocksInOrder, BlocksAfter, ResidualFits
  <2>8. LimitsFollowBlocks'
    BY <1>7, <2>1 DEF Solve, Inv, LimitsFollowBlocks, TiedPairs, BoundedBlocks
  <2>. QED  BY <1>7, <2>1, <2>5, <2>6, <2>7, <2>8
            DEF Solve, Inv, ExecutedIsScored, PredictionFollowsCommands
<1>8. CASE SolveUnusable
  <2>1. H' = H /\ B' = B /\ V' = V
    BY <1>8 DEF SolveUnusable, H, B, V
  <2>. HIDE DEF H, B, V
  <2>2. TypeOK'
    BY <1>8, <2>1 DEF SolveUnusable, Inv, TypeOK, Phases
  <2>3. BlocksInOrder' /\ (\A r \in residuals : ResidualFits(r))'
    BY <1>8, <2>1 DEF SolveUnusable, Inv, BlocksInOrder, BlocksAfter, ResidualFits
  <2>4. LimitsFollowBlocks'
    BY <1>8, <2>1 DEF SolveUnusable, Inv, LimitsFollowBlocks, TiedPairs, BoundedBlocks
  <2>. QED  BY <1>8, <2>1, <2>2, <2>3, <2>4
            DEF SolveUnusable, Inv, ExecutedIsScored, PredictionFollowsCommands
<1>9. CASE Save
  <2>1. H' = H /\ B' = B /\ V' = V
    BY <1>9 DEF Save, H, B, V
  <2>2. optim_velocities' = Spread(optim_velocities)
        /\ cmds' = Saved(Spread(optim_velocities))
    BY <1>9 DEF Save
  <2>3. /\ optim_velocities' \in [0 .. V - 1 -> Velocity]
        /\ \A k \in 0 .. (H - 1) \div B : optim_velocities'[k] = Solved(k)
        /\ cmds' \in [0 .. V -> Velocity]
        /\ \A t \in 0 .. V : cmds'[t] = Solved(BlockOf(t, H, B))
    BY <1>1, <1>9, <2>2, SavedCommands DEF Save, Inv, TypeOK
  <2>. HIDE DEF H, B, V
  <2>4. TypeOK'
    BY <1>9, <2>1, <2>3 DEF Save, Inv, TypeOK, Phases
  <2>5. BlocksInOrder' /\ (\A r \in residuals : ResidualFits(r))'
    BY <1>9, <2>1 DEF Save, Inv, BlocksInOrder, BlocksAfter, ResidualFits
  <2>6. LimitsFollowBlocks'
    BY <1>9, <2>1 DEF Save, Inv, LimitsFollowBlocks, TiedPairs, BoundedBlocks
  <2>7. ExecutedIsScored'
    BY <2>1, <2>3 DEF ExecutedIsScored
  <2>. QED  BY <1>9, <2>1, <2>3, <2>4, <2>5, <2>6, <2>7
            DEF Save, Inv, PredictionFollowsCommands
<1>10. CASE PredictPeople
  <2>1. H' = H /\ B' = B /\ V' = V
    BY <1>10 DEF PredictPeople, H, B, V
  <2>2. /\ step = V /\ BlocksInOrder
        /\ cmds \in [0 .. V -> Velocity]
        /\ \A t \in 0 .. V : cmds[t] = Solved(BlockOf(t, H, B))
        /\ \A k \in 0 .. (H - 1) \div B : optim_velocities[k] = Solved(k)
    BY <1>10 DEF PredictPeople, Inv, ExecutedIsScored
  <2>3. Len(parameter_blocks) = ((H - 1) \div B) + 1
    BY <1>1, <2>2, BlocksAtEnd DEF BlocksInOrder
  <2>4. \A j \in 0 .. V : BlockOf(j, H, B) \in 0 .. (H - 1) \div B
    BY <1>2, BlockOfType
  <2>. HIDE DEF H, B, V
  <2>5. \A j \in 0 .. V :
           optim_velocities[parameter_blocks[BlockOf(j, H, B) + 1]] = cmds[j]
    BY <1>2, <2>2, <2>3, <2>4 DEF BlocksInOrder
  <2>6. \A t \in 0 .. V : \A j \in 0 .. t : Rollout(t)[j] = cmds[j]
    BY <1>2, <2>5 DEF Rollout
  <2>7. PredictionFollowsCommands'
    BY <1>2, <1>10, <2>1, <2>2, <2>6 DEF PredictPeople, PredictionFollowsCommands
  <2>8. TypeOK'
    BY <1>10, <2>1 DEF PredictPeople, Inv, TypeOK, Phases
  <2>9. BlocksInOrder' /\ (\A r \in residuals : ResidualFits(r))'
    BY <1>10, <2>1 DEF PredictPeople, Inv, BlocksInOrder, BlocksAfter, ResidualFits
  <2>10. LimitsFollowBlocks'
    BY <1>10, <2>1 DEF PredictPeople, Inv, LimitsFollowBlocks, TiedPairs, BoundedBlocks
  <2>. QED  BY <1>10, <2>1, <2>2, <2>7, <2>8, <2>9, <2>10
            DEF PredictPeople, Inv, ExecutedIsScored
<1>11. CASE UNCHANGED vars
  BY <1>11 DEF vars, Inv, TypeOK, BlocksInOrder, BlocksAfter, ResidualFits,
     LimitsFollowBlocks, TiedPairs, BoundedBlocks, ExecutedIsScored,
     PredictionFollowsCommands, H, B, V
<1>. QED  BY <1>3, <1>4, <1>5, <1>6, <1>7, <1>8, <1>9, <1>10, <1>11 DEF Next

LEMMA SpecInv == Spec => []Inv
BY InitInv, StepKeepsInv, PTL DEF Spec

(***************************************************************************)
(* What the invariant is for.                                              *)
(***************************************************************************)

\* Every variable of an optimize call keeps its type.
THEOREM TypeCorrect == Spec => []TypeOK
<1>1. Inv => TypeOK
  BY DEF Inv
<1>. QED  BY <1>1, SpecInv, PTL

\* No residual declares or reads more or other blocks than it is given, so
\* that Ceres never aborts on it and no rollout reads a wild pointer.
THEOREM ResidualsWellFormed == Spec => []ResidualsMatchBlocks
<1>1. Inv => ResidualsMatchBlocks
  <2>. SUFFICES ASSUME Inv, NEW r \in residuals
                PROVE  /\ r.arity = Len(r.blocks)
                       /\ \A k \in 1 .. r.arity : r.blocks[k] = k - 1
                       /\ \A b \in RolloutReads(r.step, H, B) : b \in 0 .. r.arity - 1
    BY DEF ResidualsMatchBlocks
  <2>1. /\ H \in Nat \ {0} /\ B \in Nat \ {0} /\ r.step \in Nat
        /\ (H - 1) \div B \in Nat
    BY ConfType DEF Inv, TypeOK, Residual
  <2>2. /\ r.arity = NumParamBlocks(r.step, H, B) /\ Len(r.blocks) = r.arity
        /\ \A k \in 1 .. r.arity : r.blocks[k] = k - 1
    BY DEF Inv, ResidualFits
  <2>3. r.arity = BlockOf(r.step, H, B) + 1 /\ BlockOf(r.step, H, B) \in Nat
    <3>1. /\ BlockOf(r.step, H, B) \in 0 .. (H - 1) \div B
          /\ NumParamBlocks(r.step, H, B) = BlockOf(r.step, H, B) + 1
      BY <2>1, BlockOfType
    <3>. QED  BY <2>1, <2>2, <3>1
  <2>4. ASSUME NEW j \in 0 .. r.step
        PROVE  BlockOf(j, H, B) \in 0 .. r.arity - 1
    <3>1. j \in Nat /\ j <= r.step
      BY <2>1
    <3>2. BlockOf(j, H, B) \in Nat /\ BlockOf(j, H, B) <= BlockOf(r.step, H, B)
      BY <2>1, <3>1, BlockOfType, BlockOfMonotone
    <3>. QED  BY <2>3, <3>2
  <2>. QED  BY <2>2, <2>4 DEF RolloutReads
<1>. QED  BY <1>1, SpecInv, PTL

LEMMA InvLimits == Inv => LimitsInProblem
<1>. SUFFICES ASSUME Inv PROVE LimitsInProblem
  OBVIOUS
<1>1. CASE phase \in {"idle", "build", "built"}
  BY <1>1 DEF Inv, LimitsFollowBlocks, LimitsInProblem
<1>2. CASE phase \notin {"idle", "build", "built"}
  <2>1. InProblem = 0 .. (H - 1) \div B
    BY <1>2, ProblemAtEnd DEF Inv, TypeOK
  <2>2. H \div B \in {(H - 1) \div B, ((H - 1) \div B) + 1}
        /\ (H - 1) \div B \in Nat
    BY ConfType DEF Inv, TypeOK
  <2>3. bounded \subseteq InProblem
    BY <2>1, <2>2 DEF Inv, LimitsFollowBlocks, BoundedBlocks, NumBlocks
  <2>4. \A p \in TiedPairs : p[1] \in InProblem /\ p[2] \in InProblem
    BY <2>1, <2>2 DEF TiedPairs, NumBlocks
  <2>5. Len(parameter_blocks) - 1 = (H - 1) \div B
    BY <1>2, <2>2, BlocksAtEnd DEF Inv, TypeOK, BlocksInOrder
  <2>6. LimitedBlocks = 0 .. (H \div B) - 1
    <3>1. H \in Nat \ {0} /\ B \in Nat \ {0}
      BY ConfType DEF Inv, TypeOK
    <3>2. CASE H % B = 0
      <4>1. LimitedBlocks = 0 .. (H - 1) \div B
        BY <2>1, <3>2 DEF LimitedBlocks
      <4>. QED  BY <3>1, <3>2, <4>1, DivExact
    <3>3. CASE H % B # 0
      <4>1. LimitedBlocks = {k \in 0 .. (H - 1) \div B : k # (H - 1) \div B}
        BY <2>1, <2>5, <3>3 DEF LimitedBlocks
      <4>2. {k \in 0 .. (H - 1) \div B : k # (H - 1) \div B} = 0 .. ((H - 1) \div B) - 1
        BY <2>2
      <4>. QED  BY <3>1, <3>3, <4>1, <4>2, DivInexact
    <3>. QED  BY <3>2, <3>3
  <2>7. BoundedBlocks = LimitedBlocks
    BY <2>6 DEF BoundedBlocks, NumBlocks
  <2>8. TiedPairs = {<<k - 1, k>> : k \in LimitedBlocks \ {0}}
    <3>1. LimitedBlocks \ {0} = 1 .. (H \div B) - 1
      BY <2>2, <2>6
    <3>. QED  BY <3>1 DEF TiedPairs, NumBlocks
  <2>. QED  BY <2>3, <2>4, <2>7, <2>8 DEF Inv, LimitsFollowBlocks, LimitsInProblem
<1>. QED  BY <1>1, <1>2

\* Bounds and feasibility residuals concern velocities in the problem only,
\* and all of them but a last block that is shorter than the others.
THEOREM LimitsWellFormed == Spec => []LimitsInProblem
<1>. QED  BY InvLimits, SpecInv, PTL

(* EveryBoundaryTied, which fails for other horizons, holds for those that *)
(* the block length divides.                                               *)
THEOREM BoundariesTiedWhenWhole == Spec => [](H % B = 0 => EveryBoundaryTied)
<1>1. Inv => (H % B = 0 => EveryBoundaryTied)
  <2>. SUFFICES ASSUME Inv, H % B = 0, phase = "limited",
                       NEW k \in 1 .. Len(parameter_blocks) - 1
                PROVE  <<parameter_blocks[k], parameter_blocks[k + 1]>> \in tied
    BY DEF EveryBoundaryTied
  <2>1. Len(parameter_blocks) \in Nat /\ k \in Nat
    BY LenProperties DEF Inv, TypeOK
  <2>2. parameter_blocks[k] = k - 1 /\ parameter_blocks[k + 1] = k
    <3>1. k \in 1 .. Len(parameter_blocks) /\ k + 1 \in 1 .. Len(parameter_blocks)
      BY <2>1
    <3>2. parameter_blocks[k] = k - 1 /\ parameter_blocks[k + 1] = (k + 1) - 1
      BY <3>1 DEF Inv, BlocksInOrder
    <3>. QED  BY <2>1, <3>2
  <2>3. k + 1 \in DOMAIN parameter_blocks
    BY <2>1 DEF Inv, TypeOK
  <2>4. k \in LimitedBlocks \ {0}
    BY <2>1, <2>2, <2>3 DEF LimitedBlocks, InProblem
  <2>5. tied = {<<n - 1, n>> : n \in LimitedBlocks \ {0}}
    BY InvLimits DEF LimitsInProblem
  <2>. QED  BY <2>2, <2>4, <2>5
<1>. QED  BY <1>1, SpecInv, PTL

\* The commands handed out are the ones every critic scored.
THEOREM ScoredThenExecuted == Spec => []ExecutedIsScored
<1>1. Inv => ExecutedIsScored
  BY DEF Inv
<1>. QED  BY <1>1, SpecInv, PTL

\* The published predictions belong to the commands handed out.
THEOREM PredictionsMatch == Spec => []PredictionFollowsCommands
<1>1. Inv => PredictionFollowsCommands
  BY DEF Inv
<1>. QED  BY <1>1, SpecInv, PTL

\* The executed command is within the limits; so are all, and every block
\* boundary is smoothed, but for a last block shorter than the others.
THEOREM FirstCommandLimited == Spec => []CommandsLimited
<1>1. Inv => CommandsLimited
  <2>. DEFINE last == (H - 1) \div B
  <2>. SUFFICES ASSUME Inv, phase \in {"saved", "done"}
                PROVE  /\ Limited(cmds[0])
                       /\ \A t \in 0 .. V : WithoutLimits(BlockOf(t, H, B)) \/ Limited(cmds[t])
                       /\ \A t \in 0 .. V - 1 :
                            \/ BlockOf(t, H, B) = BlockOf(t + 1, H, B)
                            \/ WithoutLimits(BlockOf(t + 1, H, B))
                            \/ <<BlockOf(t, H, B), BlockOf(t + 1, H, B)>> \in tied
    BY DEF CommandsLimited
  <2>1. /\ H \in Nat \ {0} /\ B \in Nat \ {0} /\ V \in Nat \ {0} /\ B <= H
        /\ (H - 1) \div B \in Nat /\ H \div B \in Nat
    BY ConfType DEF Inv, TypeOK
  <2>2. /\ tied = TiedPairs /\ bounded = BoundedBlocks
        /\ \A t \in 0 .. V : cmds[t] = Solved(BlockOf(t, H, B))
    BY DEF Inv, LimitsFollowBlocks, ExecutedIsScored
  <2>. HIDE DEF H, B, V
  <2>3. BlockOf(0, H, B) = 0
    BY <2>1, DivType DEF BlockOf
  <2>4. H \div B >= 1
    BY <2>1, DivPositive
  <2>5. Limited(cmds[0])
    BY <2>1, <2>2, <2>3, <2>4 DEF Limited, BoundedBlocks, NumBlocks
  <2>6. ASSUME NEW t \in 0 .. V, ~ WithoutLimits(BlockOf(t, H, B))
        PROVE  BlockOf(t, H, B) \in 0 .. (H \div B) - 1
    <3>1. BlockOf(t, H, B) \in 0 .. last
      BY <2>1, BlockOfType
    <3>2. CASE H % B = 0
      BY <2>1, <3>1, <3>2, DivExact
    <3>3. CASE H % B # 0
      <4>1. BlockOf(t, H, B) # last /\ last = H \div B
        BY <2>1, <2>6, <3>3, DivInexact DEF WithoutLimits
      <4>. HIDE DEF last
      <4>. QED  BY <2>1, <3>1, <4>1
    <3>. QED  BY <3>2, <3>3
  <2>7. ASSUME NEW t \in 0 .. V, ~ WithoutLimits(BlockOf(t, H, B))
        PROVE  Limited(cmds[t])
    BY <2>2, <2>6, <2>7 DEF Limited, BoundedBlocks, NumBlocks
  <2>8. ASSUME NEW t \in 0 .. V - 1, ~ WithoutLimits(BlockOf(t + 1, H, B)),
               BlockOf(t, H, B) # BlockOf(t + 1, H, B)
        PROVE  <<BlockOf(t, H, B), BlockOf(t + 1, H, B)>> \in tied
    <3>1. t \in Nat /\ t + 1 \in 0 .. V /\ t \in 0 .. V
      BY <2>1
    <3>2. BlockOf(t + 1, H, B) = BlockOf(t, H, B) + 1
      <4>1. (t + 1) \div B \in {t \div B, (t \div B) + 1}
        BY <2>1, <3>1, DivStep
      <4>2. ~ (t + 1 < H) /\ t < H => t = H - 1
        BY <2>1, <3>1
      <4>. QED  BY <2>1, <2>8, <3>1, <4>1, <4>2 DEF BlockOf
    <3>3. BlockOf(t + 1, H, B) \in 0 .. (H \div B) - 1
      BY <2>6, <2>8, <3>1
    <3>4. BlockOf(t, H, B) \in Nat
      BY <2>1, <3>1, BlockOfType
    <3>5. BlockOf(t + 1, H, B) \in 1 .. (H \div B) - 1
          /\ BlockOf(t, H, B) = BlockOf(t + 1, H, B) - 1
      BY <2>1, <3>2, <3>3, <3>4
    <3>. QED  BY <2>2, <3>5 DEF TiedPairs, NumBlocks
  <2>. QED  BY <2>5, <2>7, <2>8
<1>. QED  BY <1>1, SpecInv, PTL
=============================================================================
