---------------------------- MODULE HorizonBlocks ----------------------------
(***************************************************************************)
(* The optimisation problem Optimizer::optimize (optimizer.cpp:324-597)    *)
(* hands to Ceres: the velocities of the time steps, the few of them that  *)
(* are parameter blocks, the residual blocks over these, the bounds, and   *)
(* the reconstruction of one command per step from the solved blocks.      *)
(*                                                                         *)
(* A velocity is named by where its value comes from: [from |-> "guess",   *)
(* of |-> k] is the k-th velocity of the initial guess, "solved" what      *)
(* Ceres wrote in its place.                                               *)
(***************************************************************************)
EXTENDS BlockIndex, Sequences

CONSTANTS
  Steps,        \* possible sizes of optim_velocities
  Horizons,     \* possible values of the parameter control_horizon
  Lengths,      \* possible values of the parameter parameter_block_length
  SocialCosts,  \* the social critics that are switched on
  NavCosts      \* the navigation critics in use

ASSUME BlocksAssumption ==
  /\ Steps \subseteq Nat \ {0}
  /\ Horizons \subseteq Nat \ {0}
  /\ Lengths \subseteq Nat \ {0}

VARIABLES
  phase,              \* how far the call got
  conf,               \* size, control_horizon, block_length, people or not
  step,               \* i of the main loop
  parameter_blocks,   \* indices of the velocities handed to AddResidualBlock
  residuals,          \* the residual blocks of the critics
  tied,               \* the pairs under a feasibility residual
  bounded,            \* the velocities with lower and upper bounds
  optim_velocities,
  cmds,               \* saving_velocities: one command per pose
  people_proj         \* per pose, the velocities its people were rolled out with

vars == <<phase, conf, step, parameter_blocks, residuals, tied, bounded,
          optim_velocities, cmds, people_proj>>

Phases == {"idle", "build", "built", "limited", "solved", "unusable",
           "saved", "done"}

Configurations ==
  {[size |-> s, horizon |-> AtMost(c, s), length |-> AtMost(l, AtMost(c, s)),
    people |-> p] : s \in Steps, c \in Horizons, l \in Lengths, p \in BOOLEAN}

H == conf.horizon
B == conf.length
V == conf.size

Velocity == [from : {"guess", "solved"}, of : Nat]
Guess(k)  == [from |-> "guess", of |-> k]
Solved(k) == [from |-> "solved", of |-> k]

Residual == [cost : SocialCosts \union NavCosts, step : Nat, arity : Nat,
             blocks : Seq(Nat)]

LastOf(s) == s[Len(s)]

-----------------------------------------------------------------------------
(* One pass of the main loop: a block that starts at this step joins the   *)
(* parameter blocks, then every critic adds its residual over all of them. *)

\* Mutant: blocks are added beyond the horizon.
BlocksAtUnbounded(i) ==
  LET used == i \div B
  IN  IF parameter_blocks = <<>> \/ LastOf(parameter_blocks) # used
      THEN Append(parameter_blocks, used) ELSE parameter_blocks

BlocksAt(i) ==
  LET used == i \div B
  IN  IF i < H /\ (parameter_blocks = <<>> \/ LastOf(parameter_blocks) # used)
      THEN Append(parameter_blocks, used) ELSE parameter_blocks

CostsInUse == NavCosts \union (IF conf.people THEN SocialCosts ELSE {})

ResidualsAt(i, blocks) ==
  {[cost |-> c, step |-> i, arity |-> NumParamBlocks(i, H, B),
    blocks |-> blocks] : c \in CostsInUse}

BuildStep ==
  /\ phase = "build" /\ step < V
  /\ parameter_blocks' = BlocksAt(step)
  /\ residuals' = residuals \union ResidualsAt(step, parameter_blocks')
  /\ step' = step + 1
  /\ UNCHANGED <<phase, conf, tied, bounded, optim_velocities, cmds, people_proj>>

EndBuild ==
  /\ phase = "build" /\ step = V
  /\ phase' = "built"
  /\ UNCHANGED <<conf, step, parameter_blocks, residuals, tied, bounded,
                 optim_velocities, cmds, people_proj>>

TiedPairs == {<<b - 1, b>> : b \in 1 .. NumBlocks(H, B) - 1}
\* Mutant: <= for < in the loop over the bounds.
BoundedBlocksInclusive == 0 .. NumBlocks(H, B)

BoundedBlocks == 0 .. NumBlocks(H, B) - 1

\* Feasibility residuals and bounds.
Limit ==
  /\ phase = "built"
  /\ tied' = TiedPairs
  /\ bounded' = BoundedBlocks
  /\ phase' = "limited"
  /\ UNCHANGED <<conf, step, parameter_blocks, residuals, optim_velocities, cmds,
                 people_proj>>

InProblem == {parameter_blocks[k] : k \in DOMAIN parameter_blocks}

\* Ceres solves in place.
Solve ==
  /\ phase = "limited"
  /\ optim_velocities' =
       [k \in 0 .. V - 1 |-> IF k \in InProblem THEN Solved(k) ELSE optim_velocities[k]]
  /\ phase' = "solved"
  /\ UNCHANGED <<conf, step, parameter_blocks, residuals, tied, bounded, cmds,
                 people_proj>>

\* IsSolutionUsable is false: optimize returns false.
SolveUnusable ==
  /\ phase = "limited"
  /\ phase' = "unusable"
  /\ UNCHANGED <<conf, step, parameter_blocks, residuals, tied, bounded,
                 optim_velocities, cmds, people_proj>>

\* Mutant: the copying starts one entry late.
SpreadLate(vel) ==
  [k \in 0 .. V - 1 |->
     IF k > H \div B THEN vel[(H - 1) \div B] ELSE vel[k]]

\* The last block's velocity is copied over all later entries.
Spread(vel) ==
  [k \in 0 .. V - 1 |->
     IF k >= H \div B THEN vel[(H - 1) \div B] ELSE vel[k]]

\* Mutant: no command for the last pose.
SavedShort(vel) == [t \in 0 .. V - 1 |-> IF t < H THEN vel[t \div B] ELSE vel[t - 1]]

\* saving_velocities: one more than there are velocities.
Saved(vel) == [t \in 0 .. V |-> IF t < H THEN vel[t \div B] ELSE vel[t - 1]]

Save ==
  /\ phase = "solved"
  /\ optim_velocities' = Spread(optim_velocities)
  /\ cmds' = Saved(optim_velocities')
  /\ phase' = "saved"
  /\ UNCHANGED <<conf, step, parameter_blocks, residuals, tied, bounded, people_proj>>

\* Mutant: the people are rolled out with one velocity per step.
RolloutByStep(t) == [j \in 0 .. t |-> optim_velocities[AtMost(j, V - 1)]]

Rollout(t) ==
  [j \in 0 .. t |-> optim_velocities[parameter_blocks[BlockOf(j, H, B) + 1]]]

PredictPeople ==
  /\ phase = "saved"
  /\ people_proj' = IF conf.people THEN [t \in DOMAIN cmds |-> Rollout(t)] ELSE <<>>
  /\ phase' = "done"
  /\ UNCHANGED <<conf, step, parameter_blocks, residuals, tied, bounded,
                 optim_velocities, cmds>>

-----------------------------------------------------------------------------
NoProblem(c) ==
  /\ conf' = c
  /\ step' = 0 /\ parameter_blocks' = <<>> /\ residuals' = {}
  /\ tied' = {} /\ bounded' = {} /\ cmds' = <<>> /\ people_proj' = <<>>
  /\ optim_velocities' = [k \in 0 .. c.size - 1 |-> Guess(k)]

\* The next control cycle: everything the call works on is local to it.
Call ==
  /\ phase \in {"idle", "unusable", "done"}
  /\ \E c \in Configurations : NoProblem(c)
  /\ phase' = "build"

Init ==
  /\ phase = "idle"
  /\ conf \in Configurations
  /\ step = 0 /\ parameter_blocks = <<>> /\ residuals = {}
  /\ tied = {} /\ bounded = {} /\ cmds = <<>> /\ people_proj = <<>>
  /\ optim_velocities = [k \in 0 .. V - 1 |-> Guess(k)]

Next ==
  \/ Call \/ BuildStep \/ EndBuild \/ Limit \/ Solve \/ SolveUnusable
  \/ Save \/ PredictPeople

Spec == Init /\ [][Next]_vars

-----------------------------------------------------------------------------
(* Type correctness of one optimize call's locals. *)
TypeOK ==
  /\ phase \in Phases
  /\ conf \in Configurations
  /\ step \in 0 .. V
  /\ parameter_blocks \in Seq(Nat)
  /\ residuals \subseteq Residual
  /\ tied \subseteq Nat \X Nat
  /\ bounded \subseteq Nat
  /\ optim_velocities \in [0 .. V - 1 -> Velocity]
  /\ cmds = <<>> \/ cmds \in [0 .. V -> Velocity]

(* Ceres aborts the process when a cost function's declared blocks are not *)
(* as many as the ones passed with it, and a rollout that reads past them  *)
(* reads wild pointers: for every horizon, block length and path length    *)
(* each residual declares what it gets, in block order, and reads no more  *)
(* (optimizer.cpp:343-484 against update_state.hpp:148-254).               *)
ResidualsMatchBlocks ==
  \A r \in residuals :
    /\ r.arity = Len(r.blocks)
    /\ \A k \in 1 .. r.arity : r.blocks[k] = k - 1
    /\ \A b \in RolloutReads(r.step, H, B) : b \in 0 .. r.arity - 1

(* Bounds may only be set on velocities that are in the problem already,   *)
(* or Ceres aborts; the feasibility residuals bring in no velocity that    *)
(* the critics do not score.  Once they are set, every block is bounded    *)
(* and tied to the one before it, except the last block of a horizon that  *)
(* the block length does not divide (optimizer.cpp:488-503).               *)
LimitedBlocks == {k \in InProblem : H % B = 0 \/ k # Len(parameter_blocks) - 1}

LimitsInProblem ==
  /\ bounded \subseteq InProblem
  /\ \A p \in tied : p[1] \in InProblem /\ p[2] \in InProblem
  /\ phase \in {"limited", "solved", "saved", "done"} =>
       /\ bounded = LimitedBlocks
       /\ tied = {<<k - 1, k>> : k \in LimitedBlocks \ {0}}

(* The command handed out for a step is the velocity that every critic     *)
(* applied at that step when it scored the trajectory: neither the spread  *)
(* over the unused velocities nor the shifted reading of the steps beyond  *)
(* the horizon mixes a command of another block or of the guess in         *)
(* (optimizer.cpp:514-535 against update_state.hpp:148-174).               *)
ExecutedIsScored ==
  phase \in {"saved", "done"} =>
    \A t \in 0 .. V : cmds[t] = Solved(BlockOf(t, H, B))

(* The published predictions of the people are rolled out along the very   *)
(* commands that are handed out, one prediction per pose                   *)
(* (optimizer.cpp:576-597).                                                *)
PredictionFollowsCommands ==
  phase = "done" /\ conf.people =>
    /\ DOMAIN people_proj = DOMAIN cmds
    /\ \A t \in DOMAIN cmds : \A j \in 0 .. t : people_proj[t][j] = cmds[j]

Limited(cmd) == \E k \in bounded : cmd = Solved(k)

(* The one command the controller executes obeys the velocity limits       *)
(* whatever the horizon.  So does every command, and every block boundary  *)
(* is smoothed, up to the last block of a horizon that the block length    *)
(* does not divide (optimizer.cpp:488-503).                                *)
WithoutLimits(k) == H % B # 0 /\ k = (H - 1) \div B

CommandsLimited ==
  phase \in {"saved", "done"} =>
    /\ Limited(cmds[0])
    /\ \A t \in 0 .. V : WithoutLimits(BlockOf(t, H, B)) \/ Limited(cmds[t])
    /\ \A t \in 0 .. V - 1 :
         \/ BlockOf(t, H, B) = BlockOf(t + 1, H, B)
         \/ WithoutLimits(BlockOf(t + 1, H, B))
         \/ <<BlockOf(t, H, B), BlockOf(t + 1, H, B)>> \in tied

(* What mpc_critics_methodology.md:83 says: the feasibility critic stands  *)
(* at every boundary between two velocity blocks.                          *)
EveryBoundaryTied ==
  phase = "limited" =>
    \A k \in 1 .. Len(parameter_blocks) - 1 :
      <<parameter_blocks[k], parameter_blocks[k + 1]>> \in tied
=============================================================================
