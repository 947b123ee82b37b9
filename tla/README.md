# Verification of the sfm_nmpc controller

TLA+ models, TLC configurations and TLAPS proofs for `sfm_nmpc`, a Nav2
controller plugin that turns a global plan into velocity commands by nonlinear
model predictive control with social costs. Line numbers refer to the files
under `src/`.

## 1. Inventory

One control cycle is one call of `MPCSFMMotionModel::computeVelocityCommands`
(`social_mpc_controller.cpp:185-277`) by the controller server's thread. It
calls, in this order:

```
global plan --setPlan--> PathHandler --local plan--> PathTrajectorizer --path, cmds-->
   Optimizer (TrajectoryMemory, people, costmap) --path, cmds--> clamp --> command
```

| Component | State it keeps | Operations | What makes it correct |
|---|---|---|---|
| Path handler (`path_handler.cpp`) | `global_plan_` (poses ahead), `pruned_plan_` (poses passed) | `setPlan`, `transformGlobalPlan`, `resetPlan` | no pose lost or reordered; forward only, in bounded steps, whatever fails in between; what is handed out lies ahead and in reach |
| Path trajectorizer (`path_trajectorizer.cpp`) with `regulated_pure_pursuit.hpp`, `motion_model.hpp` | parameters; `last_cmd_` (written, never read back) | `trajectorize`, lifecycle | commands and poses belong together, at most `max_steps` of them, accelerations within limits; the rollout ends at the goal and does not get stuck on the way |
| Optimizer, problem (`optimizer.cpp:324-597`, `update_state.hpp`) | locals of one call | build, limit, solve, read back, predict people | each cost function declares the blocks it gets; the command read back for a step is the one scored there; limits hold |
| Optimizer, memory (`optimizer.cpp:238-283, 599-700`, `trajectory_memory.hpp`) | the process-wide previous path and commands | seed, cut, blend, store | path and commands stay one trajectory; reads stay in them; a failure loses nothing |
| Controller plugin (`social_mpc_controller.cpp`) | the components, publishers, velocity limits | lifecycle, `computeVelocityCommands`, `setPlan`, `setSpeedLimit` | a command within limits in every cycle that does not throw; the fallback is consistent |
| People interface (`people_interface.cpp`) | last people message, mutex | topic callback (executor thread), `getPeople` | the latest message is read, whole |
| Parameters (`optimizer.cpp:38-222`, `path_trajectorizer.cpp:100-240`, `social_mpc_controller.cpp:43-91`) | the node's declared parameters, three sets of members | declare, get, initialize; a user's changes | the components hold the same, initialised values; a bad file is refused or harmless |
| Obstacle distance interface (`obstacle_distance_interface.cpp`) | last grid, mutex, the agents' frame | topic callback, cell/index conversions, `setAgentsFrameId`; `computeObstacle` of the optimizer on a copy | conversions are inverse and in range; the origin is in the frame the header names |
| Critics (`critics/`) | parameters captured at construction | one residual per step | who is paid for, and when nobody; every residual belongs to the step it is added for |
| Social force prediction (`update_state.hpp`, `optimizer.cpp:605-633`) | three places for people | pad, force, step | people stay numbers and people; unused places stay unused |
| `sfm.hpp` | - | - | not called by the controller |

Threads: the controller server's thread runs the cycle and `setPlan`; executor
threads run the people and grid callbacks; the costmap's own thread writes the
costmap that the critics read without its mutex; tf is filled by another thread,
so that any lookup may fail and the transform may change from one call to the next.

The behaviours that are hard to test are listed, each at its line, in
`PROJECT.json` under `hazards`: iterators and indices kept over an erase, tf
failing in the middle of a call, plans that turn back on themselves, four copies
of one index formula, horizons that the block length does not divide, a
process-wide memory that outlives plans, goals and failed solves, and the races
and stale messages around the control cycle.

## 2. Plan

| Order | Module | State |
|---|---|---|
| 1 | `PlanGeometry`, `PathHandler`, abstract `PlanCursor`, `PathHandlerProofs` | done, proved |
| 2 | `BlockIndex`, `HorizonBlocks`, `HorizonBlocksProofs` | done, proved |
| 3 | `TrajectoryMemory` (uses `BlockIndex`) | done, proved (8) |
| 4 | `PeopleInterface`, `SocialController` over the contracts of 1-3, abstract `ControlCycle` and `LatestMessage`, `SocialControllerProofs` | done, proved |
| 5 | `MotionModel`, `PurePursuit`, `Trajectorizer`: the rollout loop, rotation and velocity regulation on integers, angles modulo a turn; `TrajectorizerProofs` | done, proved |
| 6 | `Parameters`, `AgentForces`, `SocialCritics`, composed in `SocialOptimizer` (uses `BlockIndex`); `SocialOptimizerProofs` | done, proved |
| 7 | `ObstacleGrid`, `ObstacleGridProofs` | done, proved |
| 8 | `TrajectoryMemoryProofs` | done, proved |

Abstract specifications: the cursor over a plan (`PlanCursor`), what a controller
promises its server (`ControlCycle`) and the register a cycle takes the people from
(`LatestMessage`), all proved to be implemented. What `TrajectoryMemory` and `SocialController` assume of the
trajectorizer (a path that starts at the robot, one pose more than commands, at most
`max_steps` of them, possibly none) are the theorems `RolloutFollowsCommands` and
`TypeCorrect` of module 5.

## 3. Modules

**PlanGeometry** - points, the transform between the plan's and the costmap's
frame, and the searches that `PathHandler` takes from `nav2_util` and the standard
library. `Dist` is a constant operator: theorems hold for every distance
function. A tf transform is a translation (a rotation would not change which pose
is close to which); z, orientations, stamps and headers are left out.

**PathHandler** - `global_plan` and `pruned_plan` as in the code; `received` (the plan
last delivered) and `out` (the last call and what it gave) are history variables.
`transformGlobalPlan` is atomic, since `setPlan` and the cycle run in one thread; each way out of it is one
action: no plan (48), no transform for the robot (54), none for a pose among the near ones (92, before
the pruning), near poses returned, nothing near and no transform for the
projected pose (after the pruning), projected pose returned. The robot's pose,
the transform and the costmap's origin are inputs of each call.

**PlanCursor** - the abstract specification: a plan and how many of its poses have
been passed; it advances by at most `MaxSearch` of path length, never to the end,
and goes back to the start on a reset or a new plan.

**BlockIndex** - the index formulas shared by the optimizer's loop and the rollouts.

**HorizonBlocks** - one `optimize` call from the velocities of the initial guess to
the commands: one action per pass of the main loop, then the limits, the solve
(usable or not), the spread and the reading back, the prediction of the people.
A velocity is named by where its value came from (guess or solver, which index), so
that a mixed-up index shows whatever the numbers are. `Call` starts the next
cycle with any path length and parameters, all variables being locals of the call.

**TrajectoryMemory** - calls of `optimize` one after another: `Reject` (fewer than
two poses), `Format` (seed, cut, blend), `SolveUsable`, `SolveUnusable`. Poses are
positions on a line and a blend is rounded down. The block structure of the
solution is the one `HorizonBlocks` guarantees. A read past the end of
`previous_cmds` is undefined behaviour: the model continues with any value of
`Garbage` (the process may also fault, after which there is no step to speak of).

**PeopleInterface** - the buffer of the last people message: `people_`, the mutex, and the
copy `getPeople` makes. A message is copied in two steps, header and persons, on
either side, so that what the mutex is for can go wrong. A person carries the
message it came in and the frames of its position and velocity, nothing else.

**SocialController** - the plugin, composed with `PeopleInterface`: the transitions,
`setPlan`, `setSpeedLimit`, and `computeVelocityCommands` as one action per call it makes, with
the people callback and the costmap's window moving between them. What it calls
appears as its contract: the path handler throws or hands out a plan that is not
empty; the trajectorizer gives no commands or some; the optimizer rejects a path
of one pose, fails and leaves the commands, or gives commands within its bounds
(`CommandsLimited`). The answers of 198-204 and 210-216 are therefore unreachable.
Only the first command is kept, since only it is sent. A transition needs the cycle
and the callback idle: the controller server runs transitions, plans and cycles one after the
other, and transitions and the callback in one executor. `solved`, `asked` and `received` are
history variables. A second configuration replaces the people interface with an empty one,
and cleanup keeps the old one, as in the code.

**ControlCycle** - the abstract specification: calls are made while active, one at a
time, and end with a twist of the allowed speeds or with an exception.

**LatestMessage** - the abstract specification of the people's way into a cycle: a register
that messages overwrite at once, of which a cycle takes the value at one moment and keeps it
until it ends, whatever arrives meanwhile; a new interface starts with the empty message.

**MotionModel** - one step of the unicycle: command, last command and limits give the
twist applied, and `Advance` moves the pose. Speeds are per time step, so that an
acceleration is a difference. Speed limits are positive (0 or less would switch them off;
the acceleration limits keep that meaning). The holonomic model does the same without a lateral
speed, which no command asks for.

**PurePursuit** - `regulated_pure_pursuit.hpp` on integers: the look-ahead pose, the
rotations to the path and to the goal's heading, and the regulated velocity. What is geometry
(`Dist`, `Bearing`, `Curvature`, `InFront`, the point where a segment leaves a circle) is a
constant operator; square roots and quotients are rounded down.

**Trajectorizer** - one call of `trajectorize` after another. `Call` sets the locals,
`RotateToGoal`, `RotateToPath` and `Follow` are the branches of a pass of its loop with the
motion model's step and the bookkeeping after it, `Return` replaces the path. `plan`, `robot` and
`speed` are what the call was given; a goal checker without a usable tolerance gives 0.

**Parameters** - how controller, trajectorizer and optimizer come by their members. All three
declare into one node, each with its own defaults, and whoever is first decides; `max_time` is read by
the optimizer and declared by the trajectorizer. One action per part of `configure`; a solver
of an unknown name throws in the middle of it; a user may change a declared parameter, to which
nobody listens until the next `configure`. Values are integers (tenths of m/s and of a second).

**AgentForces** - the social force between robot and person, and one step of both
(`update_state.hpp`). Centimetres, tenths of m/s, steps of 0.1 s, eight directions, quarter turns. The
force's exponentials are `Push` within `Reach` for the angles they do not extinguish; its signs, its
directions and its degenerate cases (same place, relative speed that cancels the direction, angle
zero) are kept, a division by zero being `NaN`. A place for a person has t = -1 when unused, as in the code.

**SocialCritics** - the residual of each critic the optimizer creates, for one step: who is looked at,
when it is zero, which of two states costs more. Exponentials of the distance are 2 near by and 1 beyond;
softplus, logarithm and root are replaced by monotone stand-ins; weights are one.

**SocialOptimizer** - composes the three into calls of `optimize`: configuration, `Call` with
the cut (what has no outcome in C++ "crashes", and the process may be started again with another
file), `Evaluate` for any velocities of the blocks, `Advance` for each step with the residuals added
for it, a usable or unusable solve, the projection of the people and the markers
the controller publishes of it. Residuals that are no numbers make the solve unusable.

**ObstacleGrid** - the interface's grid between the callback of its topic (copy, transform, rename,
store, or drop), `setAgentsFrameId` without the lock, and a client that converts a point to a cell, an index
and back, each conversion under a lock of its own, or asks `computeObstacle`. Unsigned numbers keep their
width, in products too; a negative double becomes what the processor makes of it. `index2Cell` casts to int,
divides towards zero as C does and assigns to unsigned references, so that no assumption is made on a grid's size; a
division by zero, or of the least int by -1, "crashes" the client. `setAgentsFrameId` may come at any time,
also while a callback runs; with the name that is set already it changes nothing and is no step. `raced`,
`stored` and `steady` are history variables: whether the name changed under the callback, what that leaves in
`obs_`, and whether the grid is still the one of the client's first conversion. No part of the controller asks the interface
for anything at present, so the client is any client; `computeObstacle` is never called either.

**NumberLemmas** - lemmas for the proofs: extrema of sets of naturals, whole division.

In each module the operators commented "Mutant" are deliberate errors; no
specification uses them. They exist to be put in the place of the definition that
follows, and each property is violated by one of them.

## 4. Runs

| Run | Result | What it shows |
|---|---|---|
| `path_handler` | holds | `PlanConserved`, `ProjectionInCostmap`, `HandedOutFromHead`, refinement of `PlanCursor` |
| `horizon_blocks` | holds | `ResidualsMatchBlocks`, `LimitsInProblem`, `ExecutedIsScored`, `PredictionFollowsCommands`, `CommandsLimited` |
| `horizon_blocks_shipped` | violated | `EveryBoundaryTied`: `mpc_critics_methodology.md:83` promises a feasibility term per boundary; a horizon that is not a multiple of the block length has one boundary without |
| `trajectory_memory` | holds | `MemoryIsRollout`, `HorizonBounded`, `TrackedBetween` |
| `trajectory_memory_stray` | violated | `GuessFromMemory`: a long plan after a short one reads past the remembered commands (`optimizer.cpp:690`) |
| `social_controller` | holds | `PositionsInPlanFrame`, `NearestAllowedSpeed`, `CallAnswered` (liveness), refinement of `ControlCycle` and of `LatestMessage` |
| `social_controller_velocities` | violated | `VelocitiesInPlanFrame`: `social_mpc_controller.cpp:219` wants path and people in one frame; velocities are not transformed |
| `social_controller_costmap` | violated | `CostOfThatPosition`: the obstacle cost is to be that of the robot's position (`obstacle_cost_function.hpp:31-34`); the window may move after its origin was copied |
| `trajectorizer` | holds | `RolloutConsistent`, `AccelerationsInLimits`, `StopsAtGoal`, `NeverStuck` |
| `social_optimizer` | holds | `ComponentsAgree`, `ConfiguredCallsDefined`, `PaddingInert`, `PredictionDefined`, `TrackedPathFree`, `NearestMovingPenalised`, `MarkersFollowPeople` |
| `social_optimizer_repulsion` | violated | `PeopleRepelled`: a person who stands is drawn to a standing robot, where `mpc_critics_methodology.md:103` calls the force repulsive |
| `obstacle_grid` | holds | `GridInAgentsFrame`, `RoundTrip`, `ObstacleNamedAtPoint`, `ClampedToItsGrid` |

Bounds. *Path handler*: plans of up to 6 poses - straight, a hairpin whose way
back passes beside its way out, a loop that visits a point twice, one with a leg longer
than the search, the empty path - four robot positions (on the plan, beside
it, out of reach), two transforms, two costmap origins, a search length of 2.5
units, so that the bound is hit in the middle of the longer plans. `Dist` is the Euclidean
distance in tenths, rounded down. *Horizon blocks*: 1 to 7 velocities with
horizons 1, 4, 5, 6, 9 and block lengths 1, 2, 3, 6: horizon shorter than, equal to and longer
than the path, block length one, dividing, not dividing and longer than the
horizon. The index formulas depend on these relations only, and the theorems cover all values. *Shipped*: 18 and 6 with
paths of 5 to 18 velocities. *Trajectory memory*: `MaxSteps` 4 (5 for the
stray read), so that there are paths that are rejected, kept, exactly of maximal
length and cut; three robot positions; weight 1/2 as shipped. *Social controller*: a message of two persons in the
sensor's frame, one of one person in the plan's and one without persons, so that
any two of them mixed show; two window positions; commands below, between and beyond the limits, in both directions. *Trajectorizer*: a grid world of 17 by 17 cells with
eight headings (a full turn is 8) and `MaxSteps` 5, which some rollouts need and others do
not; a straight plan, one with a corner, one that starts backwards, one of a single pose; robots
on the plan, beside it and turned away; a resting robot, one that turns more slowly than one step can stop, one that turns faster and drives too fast; no
tolerance from the goal checker, one below the waypoints' and one above. The look-ahead
distance lies beyond all but the longest plans' ends, so that carrots in the middle, interpolated ones and
the goal occur. *Social optimizer*: trajectories of one to five poses against 2, 3, 4 and 30 steps, so that
they are rejected, kept, cut and cut to nothing; eight parameter files (defaults, short and uneven blocks, a
horizon below zero, horizon and block length zero, two steps only, a critic switched on and off, a solver that does
not exist); the empty message, people who stand and walk within and beyond the force's reach of one metre, one
in the robot's place, someone standing nearer than a walker, a walker who enters the crossing critic's range, four people; the solver tries to stand, to drive
at half a metre per second (the speed at which the interaction with a standing person vanishes) and to
turn. A quarter turn per step is more than a robot does; it keeps positions whole. *Obstacle
grid*: wide, tall, flat, empty and resolution-less grids, one of 15 cells where an int counts to 7 and the
width is -1 as an int (unsigned numbers have four bits), indexes that are too few or lead out, two frames,
points in the first, the last and no cell, and one whose index is the least int. All state spaces are finite without a bound in a guard.

Fairness. Only `CallAnswered` needs any, and only `SocialController` states it: a
cycle that can take its next step takes it (`WF_vars(CycleStep)`), the loop that adds the
obstacle costs ends (`WF_vars(StartSolve)`, it is a `for` over the path), a callback that has
begun goes on (`WF` of its steps), and the cycle gets the people's mutex if it is free again
and again (`SF_vars(PeopleLock)`: holders keep it for one copy only, and the operating
system's mutex wakes its waiters). Nothing is assumed of the topic, the server or the
costmap: messages need not come, and may come between any two steps for ever. Whether the
next cycle is called is the server's affair. The other runs check safety only. Deadlock is
checked in every run.

## 5. Proofs

`PathHandlerProofs` proves every property of the path handler's run, for all plans, robots, transforms and costmaps and for any `Dist` with
natural values on the points it is applied to (`DistAssumption`). The argument:
`Inv` (`TypeOK`, `PlanConserved`, `PoseAhead`) is inductive. The lemmas `BeginInRange` and
`EndInRange` show that the searches return indices in the plan, because the
first pose is always a candidate and a finite set of naturals has its extrema
(`NumberLemmas`), that the head is the nearest of the poses the search may reach, and that
what follows the last pose handed out is out of reach; then `PruneEffect` gives the two halves after a pruning, and conservation
is associativity of concatenation. The refinement maps `passed` to
`Len(pruned_plan)` and needs `Inv`: only with it is `SubSeq(received, passed + 1, ...)` the
remaining plan.

`HorizonBlocksProofs` proves all six properties of its run for every path length,
horizon, block length and set of critics. `TypeOK` and the
properties are not inductive: the strengthening says that after n passes of the
loop the parameter blocks are exactly `0 .. NumParamBlocks(n - 1) - 1` in order
(`BlocksInOrder`), that each residual has the arity and blocks of its step
(`ResidualFits`), which limits are set (`LimitsFollowBlocks`), and that after the
solve each block holds its solved value. `BlocksAtStep` shows that the loop's test for a
new block fires exactly when `i / block_length` grows; `SavedCommands` shows the
three index formulas of the reading back agree with `BlockOf`, including block
length one, where the shifted reading lands on a block and not on a spread entry.
`LimitsInProblem` and `CommandsLimited` say exactly which blocks are bounded and tied: all, but for
the last of a horizon that the block length does not divide (`DivInexact`).

`SocialControllerProofs` proves every safety property of the controller's run and the
refinement, for all sets of messages, frames, commands and limits. Arithmetic first:
`TwistAllowed` and `TwistNearest` say what clamping followed by raising to the minimum speed does to
any command. `SpeedNearest` needs `ChoiceInv` (nothing is solved before the solver
answers; then the chosen command is its, else the pursuit's). `LatestTaken` maps the callback's taking of the mutex to the arrival of a message, since nobody can
read the buffer from then on, and the end of the cycle's copy to the taking; all other steps
map to a stutter, the release or the restart. It, and `PeopleWhole`, which says the same of a
single state, need `CopyingInv`:
the mutex is held by whoever copies (`LockInv`), the stored message is one that
arrived or has the header of the next (`StoredInv`), and between the two steps of a copy
the stored header is still the copied one (`CopyInv`); it is the mutex that makes the last
part inductive. `PositionsInFrame` adds that the persons before `next` have been moved
(`FrameInv`). `AlwaysAdvances` and `MutexHeldByCopier` are the safety part of the argument for
`CallAnswered`: each step of a cycle lowers its phase or the number of persons left, or is one more
obstacle cost; no step of another thread raises them; and whoever holds the mutex is in the
middle of a copy, which waits for nothing. What remains for TLC is that fairness makes these steps happen.

`TrajectorizerProofs` proves every property of the trajectorizer's run, for all plans,
geometries, limits and parameters. Lemmas about one step come first: what the motion model applies is within
the speed limits whatever is asked (`IntegrateTwist`), within the acceleration limits of a speed that
is allowed (`IntegrateWithin`), and not zero when a robot at rest is asked to move
(`IntegrateMoves`); pure pursuit asks for integers, and for a motion when it can (`RotateAsks`, `FollowAsks`), where
`CarrotFacts` is needed: a carrot nearer than the look-ahead distance is the goal, so that
the angle rotated by is the one that was found too large. `Inv` adds to `TypeOK` and `RolloutConsistent` that the
loop's locals are the last pose, its distance to the goal and the last command (`RolloutInv`);
the remaining properties follow from it by adding one command at a time (`PassEffect`).

`TrajectoryMemoryProofs` proves every property of the passing memory run for all trajectories, speeds,
velocities and weights, whatever a read past the end gives. `Rollout` is a recursive function, of which only a `CHOOSE` is known at first;
`RolloutFacts` shows that the function exists by the least length for which it would not
(`LeastNatural`). After that `MemoryIsRollout`, `HorizonBounded` and `TypeOK` are inductive together: a solve
needs a velocity to give commands (`CommandsFacts`, where the last, shorter block is the one at stake), and a
blend needs the types of what it blends in. `TrackedBetween` is a step's: a weighted mean lies between its two numbers,
also after rounding (`BlendUp`, `BlendBetween`).

`SocialOptimizerProofs` proves every property of the optimizer's passing run, for any people,
trajectories, parameter files and forces' reach. The invariant has four parts. `ParametersInv`: what has been
declared, and which members have been copied at each stage of `configure` (`Copied`), from which
agreement follows when it is over. `CallInv`: a call that is under way has at least one velocity, one
block and a horizon within them, since the cut that would give none has no outcome. `RolloutInv`: the residuals
are those of the current step, the unused places for people are still unused, and a robot whose
velocities are those that led to the path is on the path. `ProjectionInv`: how many predictions there are. The division by zero is
excluded by the lemma that the interaction of `SafeInteraction` is never the zero vector. That
nobody gets faster (`PredictNoFaster`) is an induction over the steps of a rollout: a step brakes by a
fifth of the speed and adds at most two pushes, so that above `Balance` = 10 pushes and 0.4 m/s the
braking outweighs them, and below it they cannot lead beyond it. Who is the nearest walker is shown by
following the critic's loop over three places (`Found`): after the places looked at, the one kept is the nearest of them.

`ObstacleGridProofs` proves every property of the grid's run, for all grids, points and frames and any modulus
of the unsigned numbers. `IInv` adds to the frame property what a callback carries between its steps (`InFlight`,
`Renaming`), and for a client on its way through a conversion which cell, index or point it holds and of which grid
(`OnTheWay`, `Answered`). The arithmetic is in `CellRange` - the casts and C's
division give unsigned numbers wherever C can divide, and what TLA+'s division gives (`QuotNatural`) on a grid whose cells
an int counts (`Countable`) -, in `ThereAndBack` - row times width plus column, divided again - and in
`OneCellHolds`: the corner that
comes back is that of the one cell the point lies in, by which `computeObstacle` answers for the
point's own cell.

How far the findings reach is proved as well, so that each violation has its complement:

| Violated | Holds | Theorem |
|---|---|---|
| `EveryBoundaryTied` | whenever the block length divides the horizon | `BoundariesTiedWhenWhole` |
| `GuessFromMemory` | as long as a path is at most one pose longer than the remembered one; then each velocity is the blend of the two commands of its place | `GuessFromMemoryWhenNotLonger` |
| `VelocitiesInPlanFrame` | if every message is sent in the plan's frame | `VelocitiesWhenSentInPlanFrame` |
| `CostOfThatPosition` | if the window rests from the first obstacle cost to the end of the solve, which only the costmap's mutex would ensure | `CostsWhenWindowRests` |
| `PeopleRepelled` | never in the first step with a standing robot: whoever stands within reach, in one of the eight directions and further away than one push, comes nearer, if forces push at all; beyond the reach nobody moves | `StandingPeopleDrawn` |

Assumptions: those named `...Assumption` in the modules (parameters positive,
points in the plane, distances natural). TLC evaluates each of them.

Model-checked only: `CallAnswered`, liveness under fairness, which is out of the provers' reach, and that
the violations occur. `CallAnswered` rests on the proved `AlwaysAdvances` and `MutexHeldByCopier`.

## 6. Findings

1. A remembered trajectory shorter than the new one makes `format_to_optimize`
   read past `previous_cmds` (`optimizer.cpp:690, 692`); the path is guarded, the commands are not.
2. The last, shorter block of a horizon that is not a multiple of the block
   length has neither bounds nor a feasibility residual; the executed command is
   never in that block unless it is the only one, and then it is bounded (`CommandsLimited`).
3. People whose message is in another frame get their positions transformed and not their
   velocities, which become heading and speed of the predicted agents.
4. The costmap's origin is copied per residual before the solve and its cells are read during it, without the
   costmap's mutex; a rolling window that moves in between shifts what is read.
5. The force between robot and people points the wrong way: `update_state.hpp:86` and
   `social_work_cost_function.hpp:187` take one's own position minus the other's for the direction of the
   interaction and then apply the negative amounts along it; `sfm.hpp:293-296` takes the other's minus one's own. People
   are predicted to be drawn to a robot that stands.

Also seen, without a run. Of the code against its texts:

- The predictions start at a pose blended with the remembered path's (`optimizer.cpp:671`), not at "the current pose"
  (`mpc_critics_methodology.md:7`).
- A speed limit is computed, reported as set and dropped (`social_mpc_controller.cpp:284-299`).
- A robot at the goal but not in its heading is not rotated: the loop ends at the goal checker's
  tolerance (0.25 m as shipped), the rotation starts at `waypoint_dist_tol` (0.05 m), although
  `regulated_pure_pursuit.hpp:213-216` rotates a robot close to the goal.
- A grid that cannot be transformed is dropped, where the comment (`obstacle_distance_interface.cpp:47-49`) keeps it.
- Goal proximity is logarithmic everywhere and its activation radius unused; Goal align uses the yaw of the
  last pose of the cut path; `angle_weight` weights a distance; the obstacle cost reads one point, not two
  (`obstacle_cost_function.hpp:33-36`); the crossing critic's range is 4 m where its comments say 3 and 6.
- People are predicted to brake to a standstill (a desired force of -v/0.5), and the first three of the
  message are kept whatever their distance; `max_agents` is ignored.
- A social work residual is not a number when the robot drives at exactly half a metre per second straight at somebody
  who stands out of the force's way: the epsilon that prevents it is only in the prediction. The solve fails and
  the cycle falls back.
- Markers of people who are gone are never deleted, and the path published after a failure is the cut and
  blended one while the commands are the fallback.

With no text that promises otherwise: the remembered path is aligned
with the next cycle (its first pose is one step ahead), the remembered commands
are not; the initial value of block k is the guess for step k, not for the
block's first step. The rotations are limited around the speed measured at the start in every
step of the rollout (`path_trajectorizer.cpp:369, 371`), not around the last command: for a robot that is
turning the wrong way faster than it can brake in one step, the whole rollout turns the wrong way or
stands still (`NeverStuck` is stated, and proved, for a robot that turns more slowly than one step can stop, and fails for
one that turns away by exactly that much). The
same happens without an angular acceleration (0 means no limit to the motion model, no change to the rotation).

The conversions of a grid trust its message. On a grid of width zero `index2Cell` divides by zero; on one of
height zero the clamped index wraps, is divided as -1, and the cell answered is in no grid; with more cells than an
int counts (2^31 - 1) indices turn negative, and the least int divided by -1 overflows. `setAgentsFrameId` during a callback
may leave a grid whose header names another frame than its origin's, until the next message.

Two more come from reading, without a run: the path handler's reach is half the LONGER side of the costmap
(`path_handler.cpp:76`), so that poses outside a costmap that is not square are handed out, which
`path_handler.hpp:48-50` excludes; and the angle of the rotation to the goal's heading is not normalized
(`path_trajectorizer.cpp:368`), so that a difference of yaws beyond half a turn rotates a
resting robot the long way.

## 7. Not modelled

Real-valued data: exact cost values, the forces' exponentials, curvature, interpolation of the
costmap. Solver internals: any value may come out of a solve. Message wording, logging, publishers. `sfm.hpp`,
`AngleCost` and `CurvatureCost` (never instantiated), `isCollisionImminent` and
`findWaypointIndex` (never called), the cost scaling of pure pursuit (called without a cost), its answers to an
empty path (the controller has returned before) and to a robot in another frame than the path's (both are in the
costmap's), `test_path_trajectorizer.cpp` (not built, outdated). Real time: the
solver's time limit against the control period. How old the people's positions are: the code
has no check to state a property about.
