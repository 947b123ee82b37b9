-------------------------- MODULE SocialOptimizer --------------------------
(***************************************************************************)
(* Optimizer::optimize with what it computes: the parameters configure     *)
(* left it with, the people put into places, the predictions the solver    *)
(* asks for and the critics' residuals on them, the people's predicted     *)
(* trajectories, and the markers the controller publishes from these.      *)
(*                                                                         *)
(* A critic of step i rolls robot and people out from the start up to and  *)
(* including step i.  The rollouts to successive steps begin with the      *)
(* same steps, so one of them serves all critics here: Advance makes a     *)
(* step and evaluates the critics of that step.  Which blocks a critic     *)
(* depends on, and the commands handed out, are in HorizonBlocks; the      *)
(* blend with the remembered path is in TrajectoryMemory.                  *)
(***************************************************************************)
EXTENDS Parameters, SocialCritics, BlockIndex, Sequences

CONSTANTS
  Trajectories,  \* what the trajectorizer delivers: poses and commands
  People,        \* what the people interface delivers: sequences of persons
  Commands,      \* velocities the solver tries
  Goal           \* position of the global goal

ASSUME OptimizerAssumption ==
  /\ Commands \subseteq [v : Int, w : Int]
  /\ Goal \in Int \X Int
  /\ \A p \in People : p \in Seq([at : Int \X Int, v : Int \X Int])
  /\ \A t \in Trajectories :
       /\ t.poses \in Seq([at : Int \X Int, yaw : 0 .. 3]) /\ t.cmds \in Seq([v : Int, w : Int])
       /\ Len(t.poses) = Len(t.cmds) + 1
       /\ \A k \in DOMAIN t.cmds : t.poses[k + 1] = Drive(t.poses[k], t.cmds[k])

VARIABLES
  phase,      \* "idle", "solving", "rolling", "predicting", "answered", "crashed"
  given,      \* the trajectory of the call
  people,     \* its people
  path,       \* the poses the problem is built on
  slots,      \* init_people
  velocities, \* of the blocks, as the solver tries them
  step, robot, agents,  \* the rollout: the last step made, and where all are after it
  residuals,  \* of the critics of that step
  finite,     \* whether all residuals so far were numbers
  people_proj,          \* projected people: the places, step by step
  markers     \* what was published of them in this cycle

problem == <<given, people, path, slots>>
rollout == <<velocities, step, robot, agents, residuals, finite>>
vars == <<parameters, phase, problem, rollout, people_proj, markers>>

-----------------------------------------------------------------------------
MaxSteps == optimizer["max_time"]

\* Mutant: one pose less is kept.
CutShort(poses) ==
  IF Len(poses) > MaxSteps THEN SubSeq(poses, 1, MaxSteps - 2) ELSE poses

Cut(poses) == IF Len(poses) > MaxSteps THEN SubSeq(poses, 1, MaxSteps - 1) ELSE poses

NumVelocities == Len(path) - 1
Horizon == AtMost(optimizer["control_horizon"], NumVelocities)
Length  == AtMost(optimizer["parameter_block_length"], Horizon)

\* The velocity that drives the robot at step t.
Velocity(t) == velocities[BlockOf(t, Horizon, Length)]

NoResiduals ==
  [align |-> 0, follow |-> 0, goal_align |-> 0, goal_proximity |-> 0, velocity |-> 0,
   feasibility |-> 0, work |-> 0, angle |-> 0, crossing |-> 0, proxemics |-> 0]

Origin == [at |-> <<0, 0>>, yaw |-> 0]

\* A rollout starts with robot and people where they are.
RollFrom(r, a) ==
  step' = -1 /\ robot' = r /\ agents' = a /\ residuals' = NoResiduals /\ finite' = TRUE

\* Between calls there is neither a problem nor a rollout.
NoCall ==
  /\ people' = <<>> /\ path' = <<>> /\ slots' = PeopleToStatus(<<>>)
  /\ velocities' = <<>> /\ RollFrom(Origin, PeopleToStatus(<<>>))
  /\ people_proj' = <<>>

-----------------------------------------------------------------------------
(* A trajectory has at most max_steps commands. *)
CallBegins(t, p) ==
  /\ setup = "ready" /\ phase = "idle"
  /\ Len(t.cmds) <= trajectorizer["max_time"]
  /\ given' = t /\ people' = p /\ slots' = PeopleToStatus(p)
  /\ markers' = <<>>
  /\ UNCHANGED <<parameters, rollout, people_proj>>

Reject(t, p) ==
  /\ CallBegins(t, p)
  /\ Len(t.poses) < 2
  /\ path' = t.poses
  /\ phase' = "answered"

(* What has no outcome in C++: the last of no positions, a division by a   *)
(* block length of zero.                                                   *)
NoOutcome == Len(path') < 2 \/ Horizon' = 0 \/ Length' = 0

Call(t, p) ==
  /\ CallBegins(t, p)
  /\ Len(t.poses) >= 2
  /\ path' = Cut(t.poses)
  /\ phase' = IF NoOutcome THEN "crashed" ELSE "solving"

(* The solver evaluates the problem for some velocities. *)
Evaluate ==
  /\ phase = "solving" \/ (phase = "rolling" /\ step = NumVelocities - 1)
  /\ velocities' \in [0 .. BlockOf(NumVelocities - 1, Horizon, Length) -> Commands]
  /\ RollFrom(path[1], slots)
  /\ phase' = "rolling"
  /\ UNCHANGED <<parameters, problem, people_proj, markers>>

(* The robot first, then everybody in turn, each against the robot alone.  *)
Roll ==
  /\ step' = step + 1
  /\ robot' = Drive(robot, Velocity(step'))
  /\ agents' = [s \in 1 .. 3 |-> Predict(agents[s], AsAgent(robot', Velocity(step')))]

-----------------------------------------------------------------------------
\* Mutant: the point the step starts from.
PointOfBehind(t) == path[t + 1].at

(* The poses are the ones before the steps, and the one after the last.    *)
PointOf(t) == path[t + 2].at

(* A critic that is switched off, or has nobody to look at, costs nothing. *)
Social(flag, value)  == IF optimizer[flag] = 1 /\ people # <<>> THEN value ELSE 0
Enabled(flag, value) == IF optimizer[flag] = 1 THEN value ELSE 0

(* A velocity is tied to the one of the block before, if its block is full. *)
BlockStarts(t) ==
  t > 0 /\ BlockOf(t, Horizon, Length) # BlockOf(t - 1, Horizon, Length)
    /\ BlockOf(t, Horizon, Length) < NumBlocks(Horizon, Length)

(* The residuals of step t, with the robot at r and the people as in a.    *)
Residuals(t, r, a) ==
  [align |-> Enabled("enable_path_align", DistanceCost(r, PointOf(t))),
   follow |-> Enabled("enable_path_follow", DistanceCost(r, path[Len(path)].at)),
   goal_align |-> GoalAlignCost(r, path[Len(path)].yaw),
   goal_proximity |-> IF optimizer["goal_proximity_weight"] > 0
                      THEN GoalProximityCost(r, Goal) ELSE 0,
   velocity |-> VelocityCost(optimizer["desired_linear_vel"], Velocity(t), t < Horizon),
   feasibility |-> IF BlockStarts(t) THEN VelocityFeasibilityCost(Velocity(t), Velocity(t - 1))
                   ELSE 0,
   work |-> Social("enable_social_work", SocialWorkCost(r, Velocity(t), a)),
   angle |-> Social("enable_angle", AgentAngleCost(r, a)),
   crossing |-> Social("enable_crossing", CrossingCost(r, Velocity(t), a)),
   proxemics |-> Social("enable_proxemics", ProxemicsCost(r, a))]

Advance ==
  /\ phase = "rolling" /\ step < NumVelocities - 1
  /\ Roll
  /\ residuals' = Residuals(step', robot', agents')
  /\ finite' = (finite /\ residuals'.work # Undefined)
  /\ UNCHANGED <<parameters, phase, problem, velocities, people_proj, markers>>

-----------------------------------------------------------------------------
(* The solver ends with the velocities it evaluated last.  Ceres takes a   *)
(* residual that is not a number for a failed evaluation, so they are no   *)
(* solution unless all were numbers.                                       *)
SolveUsable ==
  /\ phase = "rolling" /\ step = NumVelocities - 1
  /\ finite
  /\ RollFrom(path[1], slots)
  /\ phase' = "predicting"
  /\ UNCHANGED <<parameters, problem, velocities, people_proj, markers>>

SolveUnusable ==
  /\ phase = "rolling" /\ step = NumVelocities - 1
  /\ phase' = "answered"
  /\ UNCHANGED <<parameters, problem, rollout, people_proj, markers>>

(* One entry per command handed out, which is one more than velocities.    *)
Project ==
  /\ phase = "predicting" /\ people # <<>> /\ step < NumVelocities
  /\ Roll
  /\ people_proj' = Append(people_proj, agents')
  /\ UNCHANGED <<parameters, phase, problem, velocities, residuals, finite, markers>>

Succeed ==
  /\ phase = "predicting" /\ (people = <<>> \/ step = NumVelocities)
  /\ phase' = "answered"
  /\ UNCHANGED <<parameters, problem, rollout, people_proj, markers>>

-----------------------------------------------------------------------------
\* The n-th of the places in use (mi counts them from zero).
NthPlace(places, n) ==
  CHOOSE s \in Places(places) : Cardinality({r \in Places(places) : r < s}) = n - 1

\* Mutant: a line for each place, whether it is in use or not.
LinesForAll(steps) ==
  [m \in 1 .. 3 |-> [id |-> m - 1, points |-> [k \in DOMAIN steps |-> steps[k][m].at]]]

(* A line for each place in use at the first step, its points those of the *)
(* place that comes as the same in order at each step.                     *)
Lines(steps) ==
  [m \in 1 .. Cardinality(Places(steps[1])) |->
     [id |-> NthPlace(steps[1], m) - 1,
      points |-> [k \in DOMAIN steps |-> steps[k][NthPlace(steps[k], m)].at]]]

(* Without a prediction nothing is published, and the old lines remain.    *)
Publish ==
  /\ phase = "answered"
  /\ markers' = IF people_proj = <<>> THEN markers ELSE Lines(people_proj)
  /\ phase' = "idle" /\ NoCall
  /\ UNCHANGED <<parameters, given>>

ConfigureStep ==
  /\ phase = "idle"
  /\ Configure
  /\ markers' = <<>>
  /\ UNCHANGED <<phase, problem, rollout, people_proj>>

(* A crashed process is started again, perhaps with another file. *)
RestartProcess ==
  /\ phase = "crashed"
  /\ Restart
  /\ phase' = "idle" /\ NoCall /\ markers' = <<>>
  /\ UNCHANGED given

Init ==
  /\ Start
  /\ phase = "idle" /\ given \in Trajectories
  /\ people = <<>> /\ path = <<>> /\ slots = PeopleToStatus(<<>>)
  /\ velocities = <<>> /\ step = -1 /\ robot = Origin /\ agents = slots
  /\ residuals = NoResiduals /\ finite = TRUE
  /\ people_proj = <<>> /\ markers = <<>>

Next ==
  \/ ConfigureStep
  \/ \E t \in Trajectories, p \in People : Reject(t, p) \/ Call(t, p)
  \/ Evaluate
  \/ Advance
  \/ SolveUsable
  \/ SolveUnusable
  \/ Project
  \/ Succeed
  \/ Publish
  \/ RestartProcess

Spec == Init /\ [][Next]_vars

-----------------------------------------------------------------------------
Vectors == (Int \X Int) \union {NaN}
Persons == [at : Vectors, v : Vectors, t : {-1, 0}]
Poses   == [at : Int \X Int, yaw : 0 .. 3]

ParametersTypeOK ==
  /\ file \in Files
  /\ \A n \in DOMAIN store : store[n] \in Int
  /\ controller \in [DOMAIN ControllerDefaults -> Int \union {Unset}]
  /\ trajectorizer \in [DOMAIN TrajectorizerDefaults -> Int \union {Unset}]
  /\ optimizer \in [OptimizerReads -> Int \union {Unset}]
  /\ setup \in {"none", "controller", "trajectorizer", "read", "ready", "failed"}

CountsUnsigned ==
  setup = "ready" =>
    {optimizer["control_horizon"], optimizer["parameter_block_length"]} \subseteq 0 .. Modulus - 1

CallTypeOK ==
  /\ phase \in {"idle", "solving", "rolling", "predicting", "answered", "crashed"}
  /\ given \in Trajectories /\ people \in People \union {<<>>}
  /\ path \in Seq(Poses) /\ slots \in [1 .. 3 -> Persons]

RolloutTypeOK ==
  /\ robot \in Poses /\ agents \in [1 .. 3 -> Persons]
  /\ DOMAIN residuals = DOMAIN NoResiduals /\ finite \in BOOLEAN
  /\ step \in Int /\ (phase = "rolling" => step \in -1 .. NumVelocities - 1)
  /\ phase \in {"rolling", "predicting"} =>
       velocities \in [0 .. BlockOf(NumVelocities - 1, Horizon, Length) -> Commands]
  /\ people_proj \in Seq([1 .. 3 -> Persons])

(* Type correctness of the parameters, the call and the rollout: a horizon *)
(* or a block length below zero has become a large one, and a rollout ends *)
(* with the path (optimizer.cpp:192-193, 337).                             *)
TypeOK == ParametersTypeOK /\ CountsUnsigned /\ CallTypeOK /\ RolloutTypeOK

(* A call that has no outcome in C++ needs a configuration that the        *)
(* optimizer does not reject but cannot work with: less than three time    *)
(* steps, no horizon, or empty blocks.  With any other, every trajectory   *)
(* the trajectorizer can deliver is optimized or rejected                  *)
(* (optimizer.cpp:249, 331-340, 643-648).                                  *)
ConfiguredCallsDefined ==
  phase = "crashed" =>
    optimizer["max_time"] < 3 \/ 0 \in {optimizer["control_horizon"],
                                        optimizer["parameter_block_length"]}

(* The places no person of the message fills stay what they are through    *)
(* every rollout and the projection, and the others stay people: a place   *)
(* that became valid would repel the robot from the origin of the frame    *)
(* (optimizer.cpp:619-630, update_state.hpp:218-224, 241).                 *)
InUse(places) ==
  \A s \in 1 .. 3 : IF s \in DOMAIN people THEN Valid(places[s]) ELSE places[s] = Padding

PaddingInert ==
  /\ phase \in {"rolling", "predicting"} => InUse(agents)
  /\ \A k \in DOMAIN people_proj : InUse(people_proj[k])

(* Where people are predicted to be is always a number, also when the      *)
(* robot drives at half a metre per second straight at somebody who        *)
(* stands, or starts where somebody is; and however long the horizon,      *)
(* nobody gets faster than they were detected to be, or than the speed at  *)
(* which braking outweighs the push (update_state.hpp:87-126, 224-239).    *)
Defined(places) == \A s \in 1 .. 3 : places[s].at # NaN /\ places[s].v # NaN

Balance == 10 * Push + 4

NoFaster(places) ==
  \A s \in 1 .. 3, i \in 1 .. 2 :
    \E top \in {Balance, slots[s].v[i], -slots[s].v[i]} : places[s].v[i] \in -top .. top

PredictionDefined ==
  /\ Defined(agents) /\ NoFaster(agents)
  /\ \A k \in DOMAIN people_proj : Defined(people_proj[k]) /\ NoFaster(people_proj[k])

(* Robot and problem count steps alike: as long as the solver tries the    *)
(* commands that led to the poses of the path, path alignment costs        *)
(* nothing, and at the end neither do following and alignment to the goal  *)
(* (optimizer.cpp:427-453, 398-400, update_state.hpp:157-172).             *)
Tracks == \A t \in 0 .. step : Velocity(t) = given.cmds[t + 1]

TrackedPathFree ==
  phase = "rolling" /\ step >= 0 /\ Tracks =>
    /\ residuals.align = 0
    /\ step = NumVelocities - 1 => residuals.follow = 0 /\ residuals.goal_align = 0

(* The agent angle and crossing critics look at the nearest of the people  *)
(* who walk, whoever stands nearer, and cost nothing when there is none    *)
(* within their range.  People who stand near enough are pushed, and walk  *)
(* from the next step on (agent_angle_cost_function.hpp:141-161,           *)
(* crossing_cost_function.hpp:112-136).                                    *)
Walkers == {s \in Places(agents) : Moving(agents[s])}

Nearest ==
  {s \in Walkers : \A r \in Walkers :
     SquareDist(agents[s].at, robot.at) <= SquareDist(agents[r].at, robot.at)}

Within(range2) == {s \in Nearest : SquareDist(agents[s].at, robot.at) <= range2}

NearestMovingPenalised ==
  phase = "rolling" /\ step >= 0 =>
    /\ optimizer["enable_angle"] = 1 =>
         IF Within(40000) = {} THEN residuals.angle = 0
         ELSE \E s \in Nearest : residuals.angle = AnglePenalty(robot, agents[s])
    /\ optimizer["enable_crossing"] = 1 =>
         IF Within(160000) = {} THEN residuals.crossing = 0
         ELSE \E s \in Nearest :
                residuals.crossing = CrossingPenalty(robot, Velocity(step), agents[s])

(* A line that is published belongs to one person of the message, bears    *)
(* its number and leads through a point for every pose of the path that    *)
(* optimize returns, whatever people are added or dropped between calls    *)
(* (social_mpc_controller.cpp:137-181, optimizer.cpp:572-596).             *)
LinesOfPeople(lines) ==
  /\ Len(lines) = AtMost(3, Len(people))
  /\ \A m \in DOMAIN lines :
       /\ lines[m].id = m - 1
       /\ lines[m].points = [k \in 1 .. Len(path) |-> people_proj[k][m].at]

MarkersFollowPeople ==
  [][phase = "answered" /\ people_proj # <<>> => LinesOfPeople(markers')]_vars

(* Expected of the force, which methodology and comments call repulsive:   *)
(* in the first step, nobody who stands is drawn to a robot that stands    *)
(* (update_state.hpp:85-86, 126; docs/mpc_critics_methodology.md).         *)
PeopleRepelled ==
  phase = "rolling" /\ step = 0 /\ Velocity(0).v = 0 =>
    \A s \in DOMAIN people \intersect 1 .. 3 : people[s].v = <<0, 0>> =>
      SquareDist(agents[s].at, robot.at) >= SquareDist(people[s].at, path[1].at)
=============================================================================
