-------------------------- MODULE SocialController --------------------------
(***************************************************************************)
(* The controller plugin (social_mpc_controller.cpp): its lifecycle, and   *)
(* computeVelocityCommands step by step, in the thread of the controller   *)
(* server, while an executor thread delivers people (PeopleInterface) and  *)
(* the costmap's thread moves the rolling window of the costmap.           *)
(*                                                                         *)
(* The components a cycle calls appear with what they promise: the path    *)
(* handler throws or gives a plan that is not empty (PathHandler); the     *)
(* trajectorizer gives no command exactly when the goal is in tolerance;   *)
(* the optimizer rejects that case, fails and leaves the commands alone,   *)
(* or gives commands whose first lies within its bounds (HorizonBlocks).   *)
(* So the answers for an empty plan (198-204) and for a trajectorizer that *)
(* fails (210-216) cannot occur.  Of the commands only the first is kept.  *)
(***************************************************************************)
EXTENDS PeopleInterface, FiniteSetsExt

CONSTANTS
  PlanFrame,              \* the costmap's frame, which the local plan is in
  MaxLin, MinLin, MaxAng, \* max_linear_vel, min_linear_vel, max_angular_vel
  PursuitCmds,            \* first commands of the trajectorizer
  SolverCmds,             \* first commands of the optimizer
  Windows,                \* positions of the costmap's window
  SpeedLimits             \* limits setSpeedLimit may be called with

ASSUME ControllerAssumption ==
  /\ MaxLin \in Nat /\ MinLin \in Int /\ MinLin <= MaxLin /\ MaxAng \in Nat
  /\ PursuitCmds \subseteq [lin : Int, ang : Int]
  /\ SolverCmds \subseteq [lin : MinLin .. MaxLin, ang : -MaxAng .. MaxAng]
  /\ Windows # {} /\ SpeedLimits \subseteq Nat

VARIABLES
  lifecycle,  \* "created", "inactive", "active", "cleaned"
  has_plan,   \* the path handler has a plan
  window,     \* the costmap's window
  pc,         \* where the cycle is, "idle" between cycles
  init_cmds, cmds,  \* the commands, cut to the first
  optimized,  \* what the optimizer returned
  next,       \* the person to be transformed
  origins,    \* window positions captured by the obstacle costs of this solve
  answer,     \* how the last cycle ended
  solved,     \* history: the commands of this cycle's solve, if it was usable
  asked       \* history: the last speed limit asked for

locals == <<init_cmds, cmds, optimized, next, origins, solved>>
vars == <<interface, people, lifecycle, has_plan, window, pc, locals, answer, asked>>

Cycle == INSTANCE ControlCycle
  WITH active <- lifecycle = "active", calling <- pc # "idle", answer <- answer

-----------------------------------------------------------------------------
(* Lifecycle.  The controller server has no transition, plan or call begin *)
(* before a cycle has ended, and its executor runs a transition and the    *)
(* people callback one after the other.                                    *)
Between == pc = "idle" /\ callback = "idle"

Configure ==
  /\ lifecycle \in {"created", "cleaned"} /\ Between
  /\ lifecycle' = "inactive" /\ has_plan' = FALSE
  /\ Construct
  /\ UNCHANGED <<people, window, pc, locals, answer, asked>>

Transition(from, to) ==
  /\ lifecycle = from /\ Between
  /\ lifecycle' = to
  /\ UNCHANGED <<interface, people, has_plan, window, pc, locals, answer, asked>>

Activate   == Transition("inactive", "active")
Deactivate == Transition("active", "inactive")
Cleanup    == Transition("inactive", "cleaned")   \* the interface lives on

SetPlan ==
  /\ lifecycle = "active" /\ pc = "idle"
  /\ has_plan' = TRUE
  /\ UNCHANGED <<interface, people, lifecycle, window, pc, locals, answer, asked>>

(* Everything setSpeedLimit computes is local to it. *)
SetSpeedLimit ==
  /\ lifecycle = "active" /\ pc = "idle"
  /\ asked' \in SpeedLimits
  /\ UNCHANGED <<interface, people, lifecycle, has_plan, window, pc, locals, answer>>

-----------------------------------------------------------------------------
(* Other threads. *)
PeopleCallback ==
  /\ lifecycle # "created"
  /\ \/ \E m \in Messages : CallbackLock(m)
     \/ CallbackHeader
     \/ CallbackPersons
  /\ UNCHANGED <<lifecycle, has_plan, window, pc, locals, answer, asked>>

MoveWindow ==
  /\ window' \in Windows
  /\ UNCHANGED <<interface, people, lifecycle, has_plan, pc, locals, answer, asked>>

-----------------------------------------------------------------------------
(* The cycle. *)
others == <<lifecycle, has_plan, window, asked>>

Call ==
  /\ lifecycle = "active" /\ pc = "idle"
  /\ pc' = "plan" /\ answer' = Cycle!NoAnswer
  /\ people' = Content(Empty) /\ init_cmds' = <<>> /\ cmds' = <<>>
  /\ optimized' = FALSE /\ next' = 1 /\ origins' = {} /\ solved' = <<>>
  /\ UNCHANGED <<interface, others>>

\* Mutant: the exception is swallowed and nothing is returned.
ThrowSwallowed == pc' = "idle" /\ UNCHANGED <<interface, people, others, locals, answer>>

Throw ==
  /\ pc' = "idle" /\ answer' = Cycle!Exception
  /\ UNCHANGED <<interface, people, others, locals>>

PlanThrows == pc = "plan" /\ Throw

Trajectorize ==
  /\ pc = "plan" /\ has_plan
  /\ \E c \in {<<>>} \union {<<p>> : p \in PursuitCmds} : cmds' = c /\ init_cmds' = c
  /\ pc' = "people"
  /\ UNCHANGED <<interface, people, others, optimized, next, origins, solved, answer>>

PeopleLock ==
  /\ pc = "people" /\ GetLock /\ pc' = "header"
  /\ UNCHANGED <<others, locals, answer>>

PeopleHeader ==
  /\ pc = "header" /\ GetHeader /\ pc' = "persons"
  /\ UNCHANGED <<others, locals, answer>>

PeoplePersons ==
  /\ pc = "persons" /\ GetPersons /\ pc' = "frame"
  /\ UNCHANGED <<others, locals, answer>>

\* Mutant: the last person is left where it is.
PersonLeftButLast == people.frame # PlanFrame /\ next < Len(people.persons)

PersonLeft == people.frame # PlanFrame /\ next <= Len(people.persons)

TransformPerson ==
  /\ pc = "frame" /\ PersonLeft
  /\ people' = [people EXCEPT !.persons[next].at = PlanFrame]
  /\ next' = next + 1
  /\ UNCHANGED <<interface, others, pc, init_cmds, cmds, optimized, origins, solved, answer>>

PersonThrows == pc = "frame" /\ PersonLeft /\ Throw

PeopleInFrame ==
  /\ pc = "frame" /\ ~ PersonLeft
  /\ people' = [people EXCEPT !.frame = PlanFrame]
  /\ pc' = "optimize"
  /\ UNCHANGED <<interface, others, locals, answer>>

(* A path of fewer than two poses: no command. *)
OptimizerRejects ==
  /\ pc = "optimize" /\ cmds = <<>>
  /\ optimized' = FALSE /\ pc' = "answer"
  /\ UNCHANGED <<interface, people, others, init_cmds, cmds, next, origins, solved, answer>>

(* Each obstacle cost reads the window's origin when it is constructed.    *)
AddObstacleCost ==
  /\ pc \in {"optimize", "build"} /\ cmds # <<>>
  /\ origins' = origins \union {window} /\ pc' = "build"
  /\ UNCHANGED <<interface, people, others, init_cmds, cmds, optimized, next, solved, answer>>

StartSolve ==
  /\ pc = "build" /\ pc' = "solve"
  /\ UNCHANGED <<interface, people, others, locals, answer>>

SolveUsable ==
  /\ pc = "solve"
  /\ \E c \in SolverCmds : cmds' = <<c>> /\ solved' = <<c>>
  /\ optimized' = TRUE /\ pc' = "answer"
  /\ UNCHANGED <<interface, people, others, init_cmds, next, origins, answer>>

SolveUnusable ==
  /\ pc = "solve"
  /\ optimized' = FALSE /\ pc' = "answer"
  /\ UNCHANGED <<interface, people, others, init_cmds, cmds, next, origins, solved, answer>>

-----------------------------------------------------------------------------
Clamp(v, limit) == IF v > limit THEN limit ELSE IF v < -limit THEN -limit ELSE v

Magnitude(v) == IF v < 0 THEN -v ELSE v

\* Mutant: the minimum speed loses the sign.
FloorForward(v) == IF v # 0 /\ Magnitude(v) < MinLin THEN MinLin ELSE v

\* Mutant: a zero command is raised to the minimum as well.
FloorZero(v) == IF Magnitude(v) < MinLin THEN (IF v < 0 THEN -MinLin ELSE MinLin) ELSE v

(* A speed too low to drive is raised to the minimum, zero is not. *)
Floor(v) ==
  IF v # 0 /\ Magnitude(v) < MinLin THEN (IF v < 0 THEN -MinLin ELSE MinLin) ELSE v

\* Mutant: the speed is raised to the minimum and not cut to the maximum.
TwistUncut(c) == [kind |-> "twist", lin |-> Floor(c.lin), ang |-> Clamp(c.ang, MaxAng)]

Twist(c) == [kind |-> "twist", lin |-> Floor(Clamp(c.lin, MaxLin)), ang |-> Clamp(c.ang, MaxAng)]

Chosen == IF optimized THEN cmds ELSE init_cmds

Answer ==
  /\ pc = "answer" /\ pc' = "idle"
  /\ cmds' = Chosen
  /\ answer' = IF Chosen = <<>> THEN [kind |-> "twist", lin |-> 0, ang |-> 0]
               ELSE Twist(Chosen[1])
  /\ UNCHANGED <<interface, people, others, init_cmds, optimized, next, origins, solved>>

Init ==
  /\ lifecycle = "created" /\ has_plan = FALSE
  /\ people_ = Content(Empty) /\ mutex_ = "free" /\ incoming = Empty
  /\ callback = "idle" /\ received = {Empty} /\ people = Content(Empty)
  /\ window \in Windows /\ pc = "idle" /\ answer = Cycle!NoAnswer
  /\ init_cmds = <<>> /\ cmds = <<>> /\ solved = <<>>
  /\ optimized = FALSE /\ next = 1 /\ origins = {} /\ asked = MaxLin

CycleStep ==
  \/ PlanThrows \/ Trajectorize
  \/ PeopleLock \/ PeopleHeader \/ PeoplePersons
  \/ TransformPerson \/ PersonThrows \/ PeopleInFrame
  \/ OptimizerRejects \/ AddObstacleCost \/ StartSolve \/ SolveUsable \/ SolveUnusable
  \/ Answer

Next ==
  \/ Configure \/ Activate \/ Deactivate \/ Cleanup \/ SetPlan \/ SetSpeedLimit
  \/ PeopleCallback \/ MoveWindow
  \/ Call \/ CycleStep

(* The controller's thread and the executor's are scheduled, and a waiting *)
(* reader gets the mutex when it is free again and again.  A loop over the *)
(* obstacle costs ends, and so does the solver, by its iteration limit.    *)
(* Nothing obliges the server, the topic or the costmap to act.            *)
Fairness ==
  /\ WF_vars(CycleStep) /\ WF_vars(StartSolve)
  /\ SF_vars(PeopleLock)
  /\ WF_vars(PeopleCallback /\ callback # "idle")

Spec == Init /\ [][Next]_vars
FairSpec == Spec /\ Fairness

-----------------------------------------------------------------------------
First == {<<>>} \union {<<c>> : c \in PursuitCmds \union SolverCmds}

Person == [of : {m.id : m \in Messages \union {Empty}},
           at : {PlanFrame, NoFrame} \union {m.frame : m \in Messages},
           towards : {NoFrame} \union {m.frame : m \in Messages}]

People == [id : {m.id : m \in Messages \union {Empty}},
           frame : {PlanFrame, NoFrame} \union {m.frame : m \in Messages},
           persons : Seq(Person)]

PeopleType ==
  /\ people_ \in People /\ people \in People
  /\ mutex_ \in {"free", "callback", "cycle"} /\ callback \in {"idle", "locked", "header"}
  /\ incoming \in Messages \union {Empty} /\ received \subseteq Messages \union {Empty}

ControlType ==
  /\ lifecycle \in {"created", "inactive", "active", "cleaned"} /\ has_plan \in BOOLEAN
  /\ window \in Windows /\ origins \subseteq Windows
  /\ pc \in {"idle", "plan", "people", "header", "persons", "frame", "optimize", "build",
             "solve", "answer"}
  /\ optimized \in BOOLEAN /\ next \in Nat \ {0}
  /\ asked \in SpeedLimits \union {MaxLin}

CommandType ==
  /\ init_cmds \in {<<>>} \union {<<c>> : c \in PursuitCmds} /\ cmds \in First
  /\ solved \in {<<>>} \union {<<c>> : c \in SolverCmds}
  /\ answer \in Cycle!Twists \union {Cycle!NoAnswer, Cycle!Exception}

(* Type correctness: in particular, what a cycle answers is a twist within *)
(* the limits or an exception.                                             *)
TypeOK == PeopleType /\ ControlType /\ CommandType

(* The people a cycle goes on with are one whole message that arrived      *)
(* since the plugin was configured: its header, its persons, all of them,  *)
(* each with the velocity it was sent with, whatever arrives while they    *)
(* are copied and transformed                                              *)
(* (people_interface.cpp:34-44, social_mpc_controller.cpp:79, 221-243).    *)
WholeMessage ==
  pc \in {"frame", "optimize", "build", "solve", "answer"} =>
    \E m \in received :
      /\ people.id = m.id
      /\ Len(people.persons) = m.count
      /\ \A i \in DOMAIN people.persons :
           people.persons[i].of = m.id /\ people.persons[i].towards = m.frame

(* The optimizer never sees a position that is not in the plan's frame,    *)
(* whether the message came in that frame, in another one or was never     *)
(* filled (social_mpc_controller.cpp:219-243).                             *)
PositionsInPlanFrame ==
  pc \in {"optimize", "build", "solve"} =>
    /\ people.frame = PlanFrame
    /\ \A i \in DOMAIN people.persons : people.persons[i].at = PlanFrame

(* The robot is sent the nearest speed it may be sent that does not turn   *)
(* the chosen command round, start a robot told to stop or stop one told   *)
(* to go; chosen is the solver's command of this very cycle, else the      *)
(* pursuit's, else zero (social_mpc_controller.cpp:217, 248-274).          *)
Away(v) == {s \in Cycle!AllowedSpeeds : (v > 0 => s > 0) /\ (v < 0 => s < 0) /\ (v = 0 => s = 0)}

NearestAllowedSpeed ==
  answer.kind = "twist" =>
    LET first == IF solved # <<>> THEN solved ELSE init_cmds
        v     == IF first = <<>> THEN 0 ELSE first[1].lin
    IN  \A s \in Away(v) : answer.lin \in Away(v) /\ Magnitude(answer.lin - v) <= Magnitude(s - v)

(* Every call ends, with a command or an exception, however many people    *)
(* messages compete for the mutex (people_interface.cpp:32-45).            *)
CallAnswered == pc # "idle" ~> pc = "idle"

(* The plugin keeps the abstract promise: calls while active, each         *)
(* answered by an allowed twist or an exception.                           *)
ImplementsCycle == Cycle!Spec

(* The people of a cycle are those of the latest message at one moment of  *)
(* the cycle, although a message is written and copied in several steps:   *)
(* nobody meets one that is half written, a cycle never goes on with an    *)
(* older one than the last before it asked, and the transform changes      *)
(* neither who the people are nor the frame of their velocities            *)
(* (people_interface.cpp:34-44, social_mpc_controller.cpp:79, 221-243).    *)
Said(p) == [id |-> p.id,
            persons |-> [i \in DOMAIN p.persons |->
                           [of |-> p.persons[i].of, towards |-> p.persons[i].towards]]]

Copying == pc \in {"plan", "people", "header", "persons"}

Latest == INSTANCE LatestMessage
  WITH Contents <- {Said(Content(m)) : m \in Messages},
       Nobody   <- Said(Content(Empty)),
       latest   <- Said(IF callback = "idle" THEN people_ ELSE Content(incoming)),
       taken    <- IF pc = "idle" \/ Copying THEN <<>> ELSE <<Said(people)>>

ImplementsLatest == Latest!Spec

(* What social_mpc_controller.cpp:219 asks for: path and people in the     *)
(* same frame, the velocities of the people included.                      *)
VelocitiesInPlanFrame ==
  pc = "solve" => \A i \in DOMAIN people.persons : people.persons[i].towards = PlanFrame

(* What obstacle_cost_function.hpp:31-34 says: the costmap's value at a    *)
(* position is evaluated, so during a solve the window is where the costs  *)
(* believe it to be.                                                       *)
CostOfThatPosition == pc = "solve" => origins = {window}
=============================================================================
