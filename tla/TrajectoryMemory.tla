-------------------------- MODULE TrajectoryMemory --------------------------
(***************************************************************************)
(* Optimizer::optimize from one control cycle to the next: the process-    *)
(* wide TrajectoryMemory (trajectory_memory.hpp:48-65), the initial guess  *)
(* that format_to_optimize blends from it and from the new trajectory      *)
(* (optimizer.cpp:635-700), and what a call stores and gives back.         *)
(*                                                                         *)
(* Poses are positions on a line the robot drives along, one unit of       *)
(* velocity for one time step moves it by one, and a blend is rounded      *)
(* down.  What the solver does inside a call is HorizonBlocks; here its    *)
(* result is any velocity for each block.                                  *)
(***************************************************************************)
EXTENDS BlockIndex, Sequences, Functions

CONSTANTS
  MaxSteps,     \* max_time / time_step, rounded
  Trajectories, \* what the trajectorizer delivers: a pose and commands from it
  Speeds,       \* measured velocities of the robot
  Velocities,   \* velocities the solver may return
  Garbage,      \* what a read past the end of a vector may find
  Weight, Scale,\* current_path_weight = current_cmds_weight = Weight / Scale
  Horizon,      \* control_horizon
  Length        \* parameter_block_length

ASSUME MemoryAssumption ==
  /\ MaxSteps \in Nat /\ MaxSteps >= 3
  /\ \A t \in Trajectories : t.robot \in Int /\ t.cmds \in Seq(Int)
                             /\ Len(t.cmds) <= MaxSteps
  /\ Speeds \subseteq Int /\ Velocities \subseteq Int /\ Garbage \subseteq Int
  /\ Scale \in Nat \ {0} /\ Weight \in 0 .. Scale
  /\ Horizon \in Nat \ {0} /\ Length \in Nat \ {0}

VARIABLES
  previous_path, previous_cmds,   \* the memory
  given,      \* history: the trajectory the call was made with
  path, cmds, \* the caller's path and commands, changed in place
  guess,      \* optim_velocities
  start,      \* evolving_poses[0]
  result      \* "none", "solving", "true" or "false"

memory == <<previous_path, previous_cmds>>
vars == <<memory, given, path, cmds, guess, start, result>>

-----------------------------------------------------------------------------
\* Positions after each of the commands v, driven from p.
Rollout(p, v) ==
  LET at[k \in 1 .. Len(v)] == IF k = 1 THEN p + v[1] ELSE at[k - 1] + v[k] IN at

\* A trajectory's poses: where it starts, then one per command.
Poses(t) == <<t.robot>> \o Rollout(t.robot, t.cmds)

Blend(current, previous) ==
  (Weight * current + (Scale - Weight) * previous) \div Scale

\* Mutant: a path one pose too long is not cut.
CutLate(p) == IF Len(p) > MaxSteps + 1 THEN SubSeq(p, 1, MaxSteps - 1) ELSE p

\* Too long a path is cut, to one pose less than the maximum.
Cut(p) == IF Len(p) > MaxSteps THEN SubSeq(p, 1, MaxSteps - 1) ELSE p

\* Mutant: each pose is blended with the remembered one after it.
BlendPathShifted(p, previous) ==
  [i \in DOMAIN p |-> IF i < Len(previous) THEN Blend(p[i], previous[i + 1]) ELSE p[i]]

BlendPath(p, previous) ==
  [i \in DOMAIN p |-> IF i <= Len(previous) THEN Blend(p[i], previous[i]) ELSE p[i]]

\* The last element of the blend is popped: one velocity less than poses.
BlendCmds(n, speed, current, previous, wild) ==
  [i \in 1 .. n - 1 |->
     IF i = 1 THEN speed
     ELSE Blend(current[i - 1],
                IF i - 1 <= Len(previous) THEN previous[i - 1] ELSE wild)]

Seed(p, c) ==
  IF previous_path = <<>>
  THEN previous_path' = p /\ previous_cmds' = c ELSE UNCHANGED memory

-----------------------------------------------------------------------------
Reject(t) ==
  /\ result # "solving"
  /\ Len(Poses(t)) < 2
  /\ given' = t /\ path' = Poses(t) /\ cmds' = t.cmds
  /\ result' = "false"
  /\ UNCHANGED <<memory, guess, start>>

Format(t, speed, wild) ==
  /\ result # "solving"
  /\ Len(Poses(t)) >= 2
  /\ given' = t /\ cmds' = t.cmds
  /\ Seed(Poses(t), t.cmds)
  /\ path' = BlendPath(Cut(Poses(t)), previous_path')
  /\ guess' = BlendCmds(Len(path'), speed, t.cmds, previous_cmds', wild)
  /\ start' = path'[1]
  /\ result' = "solving"

Blocks == LET h == AtMost(Horizon, Len(guess)) IN 0 .. (h - 1) \div AtMost(Length, h)

\* One command per pose, as HorizonBlocks hands them out.
Commands(solution) ==
  LET h == AtMost(Horizon, Len(guess))
  IN  [k \in 1 .. Len(guess) + 1 |-> solution[BlockOf(k - 1, h, AtMost(Length, h))]]

\* Mutant: the new path is remembered with the old commands.
SolveUsableKeepsCmds ==
  /\ result = "solving"
  /\ \E solution \in [Blocks -> Velocities] : cmds' = Commands(solution)
  /\ path' = Rollout(start, cmds')
  /\ previous_path' = path' /\ UNCHANGED previous_cmds
  /\ result' = "true"
  /\ UNCHANGED <<given, guess, start>>

SolveUsable ==
  /\ result = "solving"
  /\ \E solution \in [Blocks -> Velocities] : cmds' = Commands(solution)
  /\ path' = Rollout(start, cmds')
  /\ previous_path' = path' /\ previous_cmds' = cmds'
  /\ result' = "true"
  /\ UNCHANGED <<given, guess, start>>

\* Mutant: the unsolved velocities are remembered when the solution is unusable.
SolveUnusableStoresGuess ==
  /\ result = "solving"
  /\ result' = "false"
  /\ previous_path' = path /\ previous_cmds' = guess
  /\ UNCHANGED <<given, path, cmds, guess, start>>

SolveUnusable ==
  /\ result = "solving"
  /\ result' = "false"
  /\ UNCHANGED <<memory, given, path, cmds, guess, start>>

Init ==
  /\ previous_path = <<>> /\ previous_cmds = <<>>
  /\ given \in Trajectories /\ path = Poses(given) /\ cmds = given.cmds
  /\ guess = <<>> /\ start = given.robot
  /\ result = "none"

Next ==
  \/ \E t \in Trajectories : Reject(t)
  \/ \E t \in Trajectories, s \in Speeds, w \in Garbage : Format(t, s, w)
  \/ SolveUsable
  \/ SolveUnusable

Spec == Init /\ [][Next]_vars

-----------------------------------------------------------------------------
\* What a command may be: solved, or computed by the trajectorizer.
Command == Velocities \union UNION {Range(t.cmds) : t \in Trajectories}

(* Type correctness: no blend and nothing read past the end of a vector    *)
(* ever reaches the memory or the commands handed out, only the guess.     *)
TypeOK ==
  /\ previous_path \in Seq(Int) /\ previous_cmds \in Seq(Command)
  /\ path \in Seq(Int) /\ cmds \in Seq(Command) /\ guess \in Seq(Int)
  /\ given \in Trajectories
  /\ start \in Int
  /\ result \in {"none", "solving", "true", "false"}

Optimised == Len(previous_cmds) = Len(previous_path)

(* What is remembered hangs together: the remembered commands drive along  *)
(* the remembered path, whether both are a raw trajectory that seeded the  *)
(* memory or the outcome of a solve, whatever calls failed in between      *)
(* (optimizer.cpp:269-273, 546-572, 599-600).                              *)
MemoryIsRollout ==
  /\ previous_path = <<>> => previous_cmds = <<>>
  /\ previous_path # <<>> => Len(previous_path) - Len(previous_cmds) \in {0, 1}
  /\ \A k \in 1 .. Len(previous_path) - 1 :
       previous_path[k + 1] - previous_path[k] =
         previous_cmds[IF Optimised THEN k + 1 ELSE k]

(* Every solve has a velocity to optimise and hands out at least two and   *)
(* never more than MaxSteps commands, one per pose, although a raw         *)
(* trajectory may be one pose longer (optimizer.cpp:643-648, 536).         *)
HorizonBounded ==
  /\ result = "solving" => Len(guess) \in 1 .. MaxSteps - 1
  /\ result = "true" => Len(cmds) \in 2 .. MaxSteps /\ Len(path) = Len(cmds)

(* However old the memory is, and whoever left it, the path that is        *)
(* tracked lies pose by pose between the new trajectory and the remembered *)
(* path, as far as that reaches, and so does the start of all predictions; *)
(* a robot that has followed the remembered path exactly finds its new     *)
(* trajectory unchanged, so a perfectly tracked plan is not distorted from *)
(* cycle to cycle (optimizer.cpp:649-673).                                 *)
Between(a, x, b) == (a <= x /\ x <= b) \/ (b <= x /\ x <= a)

TrackedBetween ==
  [][result' = "solving" /\ result # "solving" /\ previous_path # <<>> =>
       LET raw == Cut(Poses(given'))
       IN  /\ Between(given'.robot, start', previous_path[1])
           /\ Len(path') = Len(raw)
           /\ \A i \in DOMAIN raw :
                IF i <= Len(previous_path) THEN Between(raw[i], path'[i], previous_path[i])
                ELSE path'[i] = raw[i]]_vars

(* What optimizer.cpp:263-265 says: the previous commands, which are kept, *)
(* are the starting point of the optimisation.  Every velocity of the      *)
(* guess but the measured one blends in a command that is in the memory.   *)
GuessFromMemory ==
  result = "solving" => Len(guess) - 1 <= Len(previous_cmds)
=============================================================================
