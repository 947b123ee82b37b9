----------------------- MODULE SocialControllerProofs -----------------------
(***************************************************************************)
(* The controller's invariants and its refinement of ControlCycle, for     *)
(* every set of messages, frames, commands and limits.                     *)
(***************************************************************************)
EXTENDS SocialController, TLAPS, SequenceTheorems

(***************************************************************************)
(* The limits: for any command, what is sent is an allowed twist and the   *)
(* nearest one in the direction of the command.                            *)
(***************************************************************************)
LEMMA TwistAllowed ==
  ASSUME NEW c \in [lin : Int, ang : Int]
  PROVE  Twist(c) \in Cycle!Twists
<1>1. MaxLin \in Nat /\ MinLin \in Int /\ MinLin <= MaxLin /\ MaxAng \in Nat
  BY ControllerAssumption
<1>2. c.lin \in Int /\ c.ang \in Int
  OBVIOUS
<1>3. Floor(Clamp(c.lin, MaxLin)) \in Cycle!AllowedSpeeds
  BY <1>1, <1>2 DEF Floor, Clamp, Magnitude, Cycle!AllowedSpeeds
<1>4. Clamp(c.ang, MaxAng) \in -MaxAng .. MaxAng
  BY <1>1, <1>2 DEF Clamp
<1>. QED  BY <1>3, <1>4 DEF Twist, Cycle!Twists

LEMMA TwistNearest ==
  ASSUME NEW c \in [lin : Int, ang : Int], NEW s \in Away(c.lin)
  PROVE  /\ Twist(c).lin \in Away(c.lin)
         /\ Magnitude(Twist(c).lin - c.lin) <= Magnitude(s - c.lin)
<1>1. MaxLin \in Nat /\ MinLin \in Int /\ MinLin <= MaxLin
  BY ControllerAssumption
<1>2. c.lin \in Int
  OBVIOUS
<1>3. Twist(c).lin = Floor(Clamp(c.lin, MaxLin))
  BY DEF Twist
<1>4. s \in Cycle!AllowedSpeeds
      /\ (c.lin > 0 => s > 0) /\ (c.lin < 0 => s < 0) /\ (c.lin = 0 => s = 0)
  BY DEF Away
<1>5. Floor(Clamp(c.lin, MaxLin)) \in Away(c.lin)
  BY <1>1, <1>2, <1>4 DEF Floor, Clamp, Magnitude, Away, Cycle!AllowedSpeeds
<1>6. Magnitude(Floor(Clamp(c.lin, MaxLin)) - c.lin) <= Magnitude(s - c.lin)
  BY <1>1, <1>2, <1>4 DEF Floor, Clamp, Magnitude, Cycle!AllowedSpeeds
<1>. QED  BY <1>3, <1>5, <1>6

-----------------------------------------------------------------------------
(***************************************************************************)
(* Type correctness.                                                       *)
(***************************************************************************)
LEMMA PersonsType ==
  ASSUME NEW m \in Messages \union {Empty}
  PROVE  /\ Persons(m) \in Seq(Person) /\ Len(Persons(m)) = m.count
         /\ Content(m) \in People
<1>1. m.count \in Nat
  BY MessagesAssumption DEF Empty
<1>2. \A i \in 1 .. m.count : [of |-> m.id, at |-> m.frame, towards |-> m.frame] \in Person
  BY DEF Person, Empty
<1>3. Persons(m) \in [1 .. m.count -> Person]
  BY <1>2 DEF Persons
<1>4. Persons(m) \in Seq(Person) /\ Len(Persons(m)) = m.count
  BY <1>1, <1>3
<1>5. m.id \in {n.id : n \in Messages \union {Empty}}
      /\ m.frame \in {PlanFrame, NoFrame} \union {n.frame : n \in Messages}
  BY DEF Empty
<1>. QED  BY <1>4, <1>5 DEF Content, People

LEMMA TypeInit == Init => TypeOK
<1>. SUFFICES ASSUME Init PROVE TypeOK
  OBVIOUS
<1>1. people_ \in People /\ people \in People
  BY PersonsType DEF Init
<1>2. PeopleType
  BY <1>1 DEF Init, PeopleType
<1>3. ControlType
  <2>1. next \in Nat \ {0} /\ optimized \in BOOLEAN /\ has_plan \in BOOLEAN
    <3>1. 1 \in Nat \ {0} /\ FALSE \in BOOLEAN
      OBVIOUS
    <3>. QED  BY <3>1, Zenon DEF Init
  <2>2. window \in Windows /\ origins \subseteq Windows /\ asked \in SpeedLimits \union {MaxLin}
    BY DEF Init
  <2>3. /\ lifecycle \in {"created", "inactive", "active", "cleaned"}
        /\ pc \in {"idle", "plan", "people", "header", "persons", "frame", "optimize", "build",
                   "solve", "answer"}
    BY DEF Init
  <2>. QED  BY <2>1, <2>2, <2>3 DEF ControlType
<1>4. CommandType
  BY DEF Init, CommandType, First
<1>. QED  BY <1>2, <1>3, <1>4 DEF TypeOK

(* What the messages do to the types. *)
LEMMA PeopleTypeStep == ASSUME TypeOK, [Next]_vars PROVE PeopleType'
<1>. USE DEF TypeOK, PeopleType, interface
<1>1. CASE Configure
  <2>1. people_' \in People
    BY <1>1, PersonsType DEF Configure, Construct
  <2>. QED  BY <1>1, <2>1 DEF Configure, Construct
<1>2. CASE PeopleCallback
  <2>1. \A m \in Messages : CallbackLock(m) => PeopleType'
    BY DEF CallbackLock
  <2>2. CASE CallbackHeader
    <3>1. incoming.id \in {m.id : m \in Messages \union {Empty}}
          /\ incoming.frame \in {PlanFrame, NoFrame} \union {m.frame : m \in Messages}
      BY DEF Empty
    <3>2. people_' = [id |-> incoming.id, frame |-> incoming.frame, persons |-> people_.persons]
      BY <2>2 DEF CallbackHeader, People
    <3>3. people_' \in People
      BY <3>1, <3>2 DEF People
    <3>. QED  BY <2>2, <3>3 DEF CallbackHeader
  <2>3. CASE CallbackPersons
    <3>1. Persons(incoming) \in Seq(Person)
      BY PersonsType
    <3>2. people_' \in People
      BY <2>3, <3>1 DEF CallbackPersons, People
    <3>. QED  BY <2>3, <3>2 DEF CallbackPersons
  <2>. QED  BY <1>2, <2>1, <2>2, <2>3 DEF PeopleCallback
<1>3. CASE Call
  BY <1>3, PersonsType DEF Call
<1>4. CASE PeopleHeader
  <2>1. people' \in People
    BY <1>4 DEF PeopleHeader, GetHeader, People
  <2>. QED  BY <1>4, <2>1 DEF PeopleHeader, GetHeader
<1>5. CASE PeoplePersons
  <2>1. people' \in People
    BY <1>5 DEF PeoplePersons, GetPersons, People
  <2>. QED  BY <1>5, <2>1 DEF PeoplePersons, GetPersons
<1>6. CASE TransformPerson
  <2>1. people.persons \in Seq(Person) /\ next \in 1 .. Len(people.persons)
    BY <1>6 DEF TransformPerson, PersonLeft, People, ControlType
  <2>2. people.persons[next] \in Person
    BY <2>1, ElementOfSeq
  <2>3. [people.persons[next] EXCEPT !.at = PlanFrame] \in Person
    BY <2>2 DEF Person
  <2>4. [people.persons EXCEPT ![next] = [people.persons[next] EXCEPT !.at = PlanFrame]]
          \in Seq(Person)
    BY <2>1, <2>3, ExceptSeq
  <2>5. people' = [people EXCEPT !.persons =
          [people.persons EXCEPT ![next] = [people.persons[next] EXCEPT !.at = PlanFrame]]]
    BY <1>6 DEF TransformPerson
  <2>6. people' \in People
    BY <2>4, <2>5 DEF People
  <2>. QED  BY <1>6, <2>6 DEF TransformPerson
<1>7. CASE PeopleInFrame
  <2>1. people' \in People
    BY <1>7 DEF PeopleInFrame, People
  <2>. QED  BY <1>7, <2>1 DEF PeopleInFrame
<1>8. CASE PeopleLock
  BY <1>8 DEF PeopleLock, GetLock
<1>9. CASE UNCHANGED <<interface, people>>
  BY <1>9
<1>10. CASE CycleStep
  BY <1>4, <1>5, <1>6, <1>7, <1>8, <1>9, <1>10 DEF CycleStep, PlanThrows, PersonThrows, Throw,
     Trajectorize, OptimizerRejects, AddObstacleCost, StartSolve, SolveUsable, SolveUnusable,
     Answer
<1>11. CASE Activate \/ Deactivate \/ Cleanup \/ SetPlan \/ SetSpeedLimit \/ MoveWindow
            \/ UNCHANGED vars
  BY <1>9, <1>11 DEF Activate, Deactivate, Cleanup, Transition, SetPlan, SetSpeedLimit,
     MoveWindow, vars
<1>. QED  BY <1>1, <1>2, <1>3, <1>10, <1>11 DEF Next

LEMMA ControlTypeStep == ASSUME TypeOK, [Next]_vars PROVE ControlType'
<1>. USE DEF TypeOK, ControlType, locals, others
<1>1. CASE CycleStep
  <2>1. CASE PlanThrows \/ PersonThrows
    BY <2>1 DEF PlanThrows, PersonThrows, Throw
  <2>2. CASE Trajectorize \/ PeopleLock \/ PeopleHeader \/ PeoplePersons \/ PeopleInFrame
    BY <2>2 DEF Trajectorize, PeopleLock, PeopleHeader, PeoplePersons, PeopleInFrame
  <2>3. CASE TransformPerson
    BY <2>3 DEF TransformPerson
  <2>4. CASE OptimizerRejects \/ StartSolve \/ SolveUsable \/ SolveUnusable \/ Answer
    BY <2>4 DEF OptimizerRejects, StartSolve, SolveUsable, SolveUnusable, Answer
  <2>5. CASE AddObstacleCost
    BY <2>5 DEF AddObstacleCost
  <2>. QED  BY <1>1, <2>1, <2>2, <2>3, <2>4, <2>5 DEF CycleStep
<1>2. CASE Configure \/ Activate \/ Deactivate \/ Cleanup
  BY <1>2 DEF Configure, Activate, Deactivate, Cleanup, Transition
<1>3. CASE SetPlan \/ SetSpeedLimit \/ MoveWindow
  BY <1>3 DEF SetPlan, SetSpeedLimit, MoveWindow
<1>4. CASE PeopleCallback \/ UNCHANGED vars
  BY <1>4 DEF PeopleCallback, vars
<1>5. CASE Call
  <2>1. next' \in Nat \ {0} /\ optimized' \in BOOLEAN /\ origins' \subseteq Windows
    <3>1. next' = 1 /\ optimized' = FALSE /\ origins' = {}
      BY <1>5 DEF Call
    <3>2. 1 \in Nat \ {0} /\ FALSE \in BOOLEAN
      OBVIOUS
    <3>. QED  BY <3>1, <3>2, Zenon
  <2>2. /\ pc' \in {"idle", "plan", "people", "header", "persons", "frame", "optimize", "build",
                    "solve", "answer"}
        /\ UNCHANGED <<lifecycle, has_plan, window, asked>>
    BY <1>5 DEF Call
  <2>. QED  BY <2>1, <2>2
<1>. QED  BY <1>1, <1>2, <1>3, <1>4, <1>5 DEF Next

LEMMA AnswerType == ASSUME TypeOK, Answer PROVE answer' \in Cycle!Twists /\ CommandType'
<1>1. Chosen = <<>> \/ \E c \in PursuitCmds \union SolverCmds : Chosen = <<c>>
  BY DEF TypeOK, CommandType, Chosen, First
<1>2. \A c \in PursuitCmds \union SolverCmds : c \in [lin : Int, ang : Int]
  BY ControllerAssumption
<1>3. [kind |-> "twist", lin |-> 0, ang |-> 0] \in Cycle!Twists
  BY ControllerAssumption DEF Cycle!Twists, Cycle!AllowedSpeeds
<1>4. answer' \in Cycle!Twists
  <2>1. CASE Chosen = <<>>
    BY <1>3, <2>1 DEF Answer
  <2>2. CASE Chosen # <<>>
    <3>1. PICK c \in PursuitCmds \union SolverCmds : Chosen = <<c>>
      BY <1>1, <2>2
    <3>2. answer' = Twist(c)
      BY <2>2, <3>1 DEF Answer
    <3>. QED  BY <1>2, <3>2, TwistAllowed
  <2>. QED  BY <2>1, <2>2
<1>5. cmds' \in First
  BY <1>1 DEF Answer, First
<1>. QED  BY <1>4, <1>5 DEF Answer, TypeOK, CommandType

LEMMA CommandTypeStep == ASSUME TypeOK, [Next]_vars PROVE CommandType'
<1>. USE DEF TypeOK, CommandType, locals
<1>1. CASE CycleStep
  <2>1. CASE Answer
    BY <2>1, AnswerType
  <2>2. CASE PlanThrows \/ PersonThrows
    BY <2>2 DEF PlanThrows, PersonThrows, Throw
  <2>3. CASE Trajectorize
    BY <2>3 DEF Trajectorize, First
  <2>4. CASE SolveUsable
    BY <2>4 DEF SolveUsable, First
  <2>5. CASE UNCHANGED <<init_cmds, cmds, solved, answer>>
    BY <2>5
  <2>. QED  BY <1>1, <2>1, <2>2, <2>3, <2>4, <2>5 DEF CycleStep, PeopleLock, PeopleHeader,
     PeoplePersons, TransformPerson, PeopleInFrame, OptimizerRejects, AddObstacleCost,
     StartSolve, SolveUnusable
<1>2. CASE Call
  BY <1>2 DEF Call, First
<1>3. CASE UNCHANGED <<init_cmds, cmds, solved, answer>>
  BY <1>3
<1>. QED  BY <1>1, <1>2, <1>3 DEF Next, Configure, Activate, Deactivate, Cleanup, Transition,
   SetPlan, SetSpeedLimit, PeopleCallback, MoveWindow, vars

LEMMA TypeInductive == TypeOK /\ [Next]_vars => TypeOK'
<1>. QED  BY PeopleTypeStep, ControlTypeStep, CommandTypeStep DEF TypeOK

(* TypeOK of SocialController: whatever messages, commands and calls come, *)
(* in particular the answer is an allowed twist or an exception.           *)
THEOREM TypeCorrect == Spec => []TypeOK
<1>. QED  BY TypeInit, TypeInductive, PTL DEF Spec

-----------------------------------------------------------------------------
(***************************************************************************)
(* The answer.  Until the solver has answered nothing is solved; then the  *)
(* command the cycle chooses is the solver's, or else the pursuit's.       *)
(***************************************************************************)
ChoiceInv ==
  /\ pc \notin {"idle", "answer"} => solved = <<>>
  /\ pc # "idle" => answer = Cycle!NoAnswer
  /\ pc = "answer" => Chosen = IF solved # <<>> THEN solved ELSE init_cmds

LEMMA ChoiceInitially == Init => ChoiceInv /\ NearestAllowedSpeed
<1>. QED  BY DEF Init, ChoiceInv, NearestAllowedSpeed, Cycle!NoAnswer

LEMMA ChoiceStep == ASSUME TypeOK, ChoiceInv, [Next]_vars PROVE ChoiceInv'
<1>. USE DEF ChoiceInv, locals
<1>1. CASE UNCHANGED <<pc, cmds, init_cmds, optimized, solved, answer>>
  BY <1>1 DEF Chosen
<1>2. CASE Call
  BY <1>2 DEF Call
<1>3. CASE SolveUsable
  <2>1. PICK c \in SolverCmds : cmds' = <<c>> /\ solved' = <<c>>
    BY <1>3 DEF SolveUsable
  <2>2. <<c>> # <<>>
    OBVIOUS
  <2>. QED  BY <1>3, <2>1, <2>2 DEF SolveUsable, Chosen
<1>4. CASE SolveUnusable \/ OptimizerRejects
  BY <1>4 DEF SolveUnusable, OptimizerRejects, Chosen
<1>5. CASE PlanThrows \/ PersonThrows \/ Answer
  BY <1>5 DEF PlanThrows, PersonThrows, Throw, Answer
<1>6. CASE Trajectorize \/ PeopleLock \/ PeopleHeader \/ PeoplePersons \/ TransformPerson
           \/ PeopleInFrame \/ AddObstacleCost \/ StartSolve
  BY <1>6 DEF Trajectorize, PeopleLock, PeopleHeader, PeoplePersons, TransformPerson,
     PeopleInFrame, AddObstacleCost, StartSolve
<1>. QED  BY <1>1, <1>2, <1>3, <1>4, <1>5, <1>6 DEF Next, CycleStep, Configure, Activate,
   Deactivate, Cleanup, Transition, SetPlan, SetSpeedLimit, PeopleCallback, MoveWindow, vars

LEMMA NearestStep ==
  ASSUME TypeOK, ChoiceInv, NearestAllowedSpeed, [Next]_vars
  PROVE  NearestAllowedSpeed'
<1>1. CASE UNCHANGED <<init_cmds, solved, answer>>
  BY <1>1 DEF NearestAllowedSpeed
<1>2. CASE answer'.kind # "twist"
  BY <1>2 DEF NearestAllowedSpeed
<1>3. CASE Answer
  <2>1. Chosen = <<>> \/ \E c \in PursuitCmds \union SolverCmds : Chosen = <<c>>
    BY DEF TypeOK, CommandType, Chosen, First
  <2>2. Chosen = (IF solved # <<>> THEN solved ELSE init_cmds)'
    BY <1>3 DEF Answer, ChoiceInv
  <2>3. CASE Chosen = <<>>
    <3>1. answer'.lin = 0
      BY <1>3, <2>3 DEF Answer
    <3>2. \A s \in Away(0) : s = 0
      BY ControllerAssumption DEF Away, Cycle!AllowedSpeeds
    <3>3. 0 \in Away(0) /\ Magnitude(0 - 0) <= Magnitude(0 - 0)
      BY DEF Away, Cycle!AllowedSpeeds, Magnitude
    <3>. QED  BY <2>2, <2>3, <3>1, <3>2, <3>3 DEF NearestAllowedSpeed, Away
  <2>4. CASE Chosen # <<>>
    <3>1. PICK c \in PursuitCmds \union SolverCmds : Chosen = <<c>>
      BY <2>1, <2>4
    <3>2. c \in [lin : Int, ang : Int]
      BY ControllerAssumption
    <3>3. answer' = Twist(c)
      BY <1>3, <2>4, <3>1 DEF Answer
    <3>4. \A s \in Away(c.lin) : Twist(c).lin \in Away(c.lin)
                               /\ Magnitude(Twist(c).lin - c.lin) <= Magnitude(s - c.lin)
      BY <3>2, TwistNearest
    <3>5. Chosen[1].lin = c.lin
      BY <3>1
    <3>. QED  BY <2>2, <2>4, <3>3, <3>4, <3>5 DEF NearestAllowedSpeed, Away
  <2>. QED  BY <2>3, <2>4
<1>4. CASE Call \/ PlanThrows \/ PersonThrows
  BY <1>2, <1>4 DEF Call, PlanThrows, PersonThrows, Throw, Cycle!NoAnswer, Cycle!Exception
<1>5. CASE Trajectorize \/ SolveUsable
  <2>1. answer' = Cycle!NoAnswer
    BY <1>5 DEF Trajectorize, SolveUsable, ChoiceInv
  <2>. QED  BY <1>2, <2>1 DEF Cycle!NoAnswer
<1>. QED  BY <1>1, <1>3, <1>4, <1>5 DEF Next, CycleStep, Configure, Activate, Deactivate,
   Cleanup, Transition, SetPlan, SetSpeedLimit, PeopleCallback, MoveWindow, PeopleLock,
   PeopleHeader, PeoplePersons, TransformPerson, PeopleInFrame, OptimizerRejects,
   AddObstacleCost, StartSolve, SolveUnusable, locals, vars

(* NearestAllowedSpeed: what is sent is the allowed speed nearest to the   *)
(* command the cycle chose, whatever the limits and the commands are.      *)
THEOREM SpeedNearest == Spec => []NearestAllowedSpeed
<1>1. TypeOK /\ ChoiceInv /\ NearestAllowedSpeed /\ [Next]_vars
      => (TypeOK /\ ChoiceInv /\ NearestAllowedSpeed)'
  BY TypeInductive, ChoiceStep, NearestStep
<1>. QED  BY <1>1, TypeInit, ChoiceInitially, PTL DEF Spec

-----------------------------------------------------------------------------
(***************************************************************************)
(* The refinement: a call begins a cycle, a throw or an answer ends it,    *)
(* activation and deactivation switch, everything else is silent.          *)
(***************************************************************************)
LEMMA CycleStepRefines ==
  ASSUME TypeOK, CycleStep
  PROVE  Cycle!End \/ UNCHANGED <<lifecycle = "active", pc # "idle", answer>>
<1>. USE DEF others
<1>1. CASE Answer
  <2>1. answer' \in Cycle!Twists
    BY <1>1, AnswerType
  <2>. QED  BY <1>1, <2>1 DEF Answer, Cycle!End
<1>2. CASE PlanThrows \/ PersonThrows
  BY <1>2 DEF PlanThrows, PersonThrows, Throw, Cycle!End
<1>3. CASE Trajectorize \/ PeopleLock \/ PeopleHeader \/ PeoplePersons
  BY <1>3 DEF Trajectorize, PeopleLock, PeopleHeader, PeoplePersons
<1>4. CASE TransformPerson \/ PeopleInFrame \/ OptimizerRejects
  BY <1>4 DEF TransformPerson, PeopleInFrame, OptimizerRejects
<1>5. CASE AddObstacleCost \/ StartSolve \/ SolveUsable \/ SolveUnusable
  BY <1>5 DEF AddObstacleCost, StartSolve, SolveUsable, SolveUnusable
<1>. QED  BY <1>1, <1>2, <1>3, <1>4, <1>5 DEF CycleStep

LEMMA StepRefines ==
  ASSUME TypeOK, [Next]_vars
  PROVE  [Cycle!Next]_<<lifecycle = "active", pc # "idle", answer>>
<1>1. CASE CycleStep
  BY <1>1, CycleStepRefines DEF Cycle!Next
<1>2. CASE Call
  BY <1>2 DEF Call, others, Cycle!Next, Cycle!Begin
<1>3. CASE Activate \/ Deactivate
  BY <1>3 DEF Activate, Deactivate, Transition, Between, Cycle!Next, Cycle!Switch
<1>4. CASE Configure \/ Cleanup
  BY <1>4 DEF Configure, Cleanup, Transition
<1>5. CASE SetPlan \/ SetSpeedLimit \/ PeopleCallback \/ MoveWindow \/ UNCHANGED vars
  BY <1>5 DEF SetPlan, SetSpeedLimit, PeopleCallback, MoveWindow, vars
<1>. QED  BY <1>1, <1>2, <1>3, <1>4, <1>5 DEF Next

(* ImplementsCycle: the plugin is called only while it is active, and each *)
(* call ends with an allowed twist or an exception.                        *)
THEOREM Refinement == Spec => ImplementsCycle
<1>1. Init => Cycle!Init
  BY DEF Init, Cycle!Init
<1>. QED  BY <1>1, StepRefines, TypeCorrect, PTL DEF Spec, ImplementsCycle, Cycle!Spec

-----------------------------------------------------------------------------
(***************************************************************************)
(* The people.  The mutex is held by who is copying, so nobody meets a     *)
(* message half written (LockInv); the stored message is one that arrived, *)
(* with the next one's header while its persons are due (StoredInv); the   *)
(* copy's header belongs to it until its persons come (CopyInv), and the   *)
(* persons are then transformed from the first on (FrameInv).              *)
(***************************************************************************)
LockInv ==
  /\ mutex_ = "callback" <=> callback # "idle"
  /\ mutex_ = "cycle" <=> pc \in {"header", "persons"}

StoredInv ==
  /\ incoming \in received
  /\ callback # "header" => \E m \in received : people_ = Content(m)
  /\ callback = "header" => people_.id = incoming.id /\ people_.frame = incoming.frame

CopyInv == pc = "persons" => people.id = people_.id /\ people.frame = people_.frame

FrameInv ==
  /\ pc \in {"plan", "people", "header", "persons"} => next = 1
  /\ pc = "frame" =>
       \A i \in DOMAIN people.persons :
         people.frame = PlanFrame \/ i < next => people.persons[i].at = PlanFrame

CopyingInv == LockInv /\ StoredInv /\ CopyInv

LEMMA CopyingInitially == Init => CopyingInv
<1>. QED  BY DEF Init, CopyingInv, LockInv, StoredInv, CopyInv

LEMMA CopyingStep == ASSUME TypeOK, CopyingInv, [Next]_vars PROVE CopyingInv'
<1>. USE DEF CopyingInv, LockInv, StoredInv, CopyInv, interface
<1>1. CASE UNCHANGED <<interface, people, pc>>
  BY <1>1
<1>2. CASE Configure
  <2>1. Empty \in received' /\ people_' = Content(Empty)
    BY <1>2 DEF Configure, Construct
  <2>. QED  BY <1>2, <2>1 DEF Configure, Construct, Between
<1>3. CASE PeopleCallback
  <2>1. ASSUME NEW m \in Messages, CallbackLock(m) PROVE CopyingInv'
    BY <1>3, <2>1 DEF PeopleCallback, CallbackLock
  <2>2. CASE CallbackHeader
    <3>1. people_'.id = incoming.id /\ people_'.frame = incoming.frame
      BY <2>2 DEF CallbackHeader, TypeOK, PeopleType, People
    <3>. QED  BY <1>3, <2>2, <3>1 DEF PeopleCallback, CallbackHeader
  <2>3. CASE CallbackPersons
    <3>1. people_' = Content(incoming)
      BY <2>3 DEF CallbackPersons, Content, TypeOK, PeopleType, People
    <3>. QED  BY <1>3, <2>3, <3>1 DEF PeopleCallback, CallbackPersons
  <2>. QED  BY <1>3, <2>1, <2>2, <2>3 DEF PeopleCallback
<1>4. CASE PeopleLock
  BY <1>4 DEF PeopleLock, GetLock
<1>5. CASE PeopleHeader
  <2>1. people'.id = people_.id /\ people'.frame = people_.frame
    BY <1>5 DEF PeopleHeader, GetHeader, TypeOK, PeopleType, People
  <2>. QED  BY <1>5, <2>1 DEF PeopleHeader, GetHeader
<1>6. CASE PeoplePersons
  BY <1>6 DEF PeoplePersons, GetPersons
<1>7. CASE Call
  BY <1>7 DEF Call
<1>8. CASE PlanThrows \/ PersonThrows \/ Trajectorize \/ TransformPerson \/ PeopleInFrame
  BY <1>8 DEF PlanThrows, PersonThrows, Throw, Trajectorize, TransformPerson, PeopleInFrame
<1>9. CASE OptimizerRejects \/ AddObstacleCost \/ StartSolve \/ SolveUsable \/ SolveUnusable
           \/ Answer
  BY <1>9 DEF OptimizerRejects, AddObstacleCost, StartSolve, SolveUsable, SolveUnusable, Answer
<1>. QED  BY <1>1, <1>2, <1>3, <1>4, <1>5, <1>6, <1>7, <1>8, <1>9 DEF Next, CycleStep, Activate,
   Deactivate, Cleanup, Transition, SetPlan, SetSpeedLimit, MoveWindow, vars

(* What getPeople leaves in the copy. *)
LEMMA Copied ==
  ASSUME TypeOK, CopyingInv, PeoplePersons
  PROVE  /\ people' = people_ /\ callback = "idle"
         /\ \E m \in received : people' = Content(m)
<1>1. people' = [people EXCEPT !.persons = people_.persons]
  BY DEF PeoplePersons, GetPersons
<1>2. people.id = people_.id /\ people.frame = people_.frame
  BY DEF PeoplePersons, CopyingInv, CopyInv
<1>3. people' = people_
  BY <1>1, <1>2 DEF TypeOK, PeopleType, People
<1>4. callback = "idle"
  BY DEF PeoplePersons, CopyingInv, LockInv
<1>. QED  BY <1>3, <1>4 DEF CopyingInv, StoredInv

(* One person's transformation touches that person's position. *)
LEMMA Transformed ==
  ASSUME TypeOK, TransformPerson
  PROVE  /\ people'.id = people.id /\ people'.frame = people.frame
         /\ Len(people'.persons) = Len(people.persons)
         /\ DOMAIN people'.persons = DOMAIN people.persons
         /\ \A i \in DOMAIN people.persons :
              /\ people'.persons[i].of = people.persons[i].of
              /\ people'.persons[i].towards = people.persons[i].towards
              /\ people'.persons[i].at = IF i = next THEN PlanFrame ELSE people.persons[i].at
<1>1. people \in People /\ people.persons \in Seq(Person)
  BY DEF TypeOK, PeopleType, People
<1>2. next \in 1 .. Len(people.persons)
  BY <1>1 DEF TypeOK, ControlType, TransformPerson, PersonLeft
<1>. DEFINE moved == [people.persons[next] EXCEPT !.at = PlanFrame]
            persons == [people.persons EXCEPT ![next] = moved]
<1>3. people.persons[next] \in Person
  BY <1>1, <1>2, ElementOfSeq
<1>4. /\ moved \in Person /\ moved.at = PlanFrame
      /\ moved.of = people.persons[next].of /\ moved.towards = people.persons[next].towards
  BY <1>3 DEF Person
<1>5. persons \in Seq(Person) /\ Len(persons) = Len(people.persons)
      /\ DOMAIN persons = DOMAIN people.persons
  BY <1>1, <1>2, <1>4
<1>6. \A i \in DOMAIN people.persons : persons[i] = IF i = next THEN moved ELSE people.persons[i]
  BY <1>1
<1>7. people' = [people EXCEPT !.persons = persons]
  BY DEF TransformPerson
<1>8. people'.persons = persons /\ people'.id = people.id /\ people'.frame = people.frame
  BY <1>1, <1>7 DEF People
<1>. HIDE DEF moved, persons
<1>. QED  BY <1>4, <1>5, <1>6, <1>8

LEMMA WholeStep ==
  ASSUME TypeOK, CopyingInv, WholeMessage, [Next]_vars
  PROVE  WholeMessage'
<1>. USE DEF WholeMessage
<1>1. CASE PeoplePersons
  <2>1. PICK m \in received : people' = Content(m)
    BY <1>1, Copied
  <2>2. m \in Messages \union {Empty} /\ received' = received
    BY <1>1 DEF TypeOK, PeopleType, PeoplePersons, GetPersons
  <2>3. /\ Len(Persons(m)) = m.count
        /\ \A i \in DOMAIN Persons(m) : Persons(m)[i].of = m.id /\ Persons(m)[i].towards = m.frame
    BY <2>2, PersonsType DEF Persons
  <2>. QED  BY <2>1, <2>2, <2>3 DEF Content
<1>2. CASE TransformPerson
  BY <1>2, Transformed DEF TransformPerson, interface
<1>3. CASE PeopleInFrame
  <2>1. people'.id = people.id /\ people'.persons = people.persons /\ pc = "frame"
    BY <1>3 DEF PeopleInFrame, TypeOK, PeopleType, People
  <2>. QED  BY <1>3, <2>1 DEF PeopleInFrame, interface
<1>4. CASE PeopleCallback
  <2>1. received \subseteq received' /\ UNCHANGED <<people, pc>>
    BY <1>4 DEF PeopleCallback, CallbackLock, CallbackHeader, CallbackPersons
  <2>. QED  BY <2>1
<1>5. CASE pc' \in {"idle", "plan", "people", "header", "persons"}
  BY <1>5
<1>6. CASE UNCHANGED <<people, pc, received>>
  BY <1>6
<1>7. CASE OptimizerRejects \/ AddObstacleCost \/ StartSolve \/ SolveUsable \/ SolveUnusable
  BY <1>7 DEF OptimizerRejects, AddObstacleCost, StartSolve, SolveUsable, SolveUnusable, interface
<1>8. CASE Call \/ PlanThrows \/ PersonThrows \/ Trajectorize \/ PeopleLock \/ PeopleHeader
           \/ Answer \/ Configure
  BY <1>5, <1>8 DEF Call, PlanThrows, PersonThrows, Throw, Trajectorize, PeopleLock,
     PeopleHeader, Answer, Configure, Between
<1>. QED  BY <1>1, <1>2, <1>3, <1>4, <1>6, <1>7, <1>8 DEF Next, CycleStep, Activate, Deactivate,
   Cleanup, Transition, SetPlan, SetSpeedLimit, MoveWindow, interface, vars

(* WholeMessage: however many people arrive and whenever, the people a     *)
(* cycle works with are one message, complete.                             *)
THEOREM PeopleWhole == Spec => []WholeMessage
<1>1. Init => WholeMessage
  BY DEF Init, WholeMessage
<1>2. TypeOK /\ CopyingInv /\ WholeMessage /\ [Next]_vars
      => (TypeOK /\ CopyingInv /\ WholeMessage)'
  BY TypeInductive, CopyingStep, WholeStep
<1>. QED  BY <1>1, <1>2, TypeInit, CopyingInitially, PTL DEF Spec

-----------------------------------------------------------------------------
(***************************************************************************)
(* The latest message: a callback's lock is the moment its message arrives *)
(* for a cycle, and the end of a copy the moment the cycle takes one; the  *)
(* steps before and after them show no reader anything new.                *)
(***************************************************************************)
AtHand == Said(IF callback = "idle" THEN people_ ELSE Content(incoming))

InUse == IF pc = "idle" \/ Copying THEN <<>> ELSE <<Said(people)>>

LEMMA SaidSame ==
  ASSUME NEW p, NEW q, p.id = q.id, DOMAIN p.persons = DOMAIN q.persons,
         \A i \in DOMAIN p.persons : /\ p.persons[i].of = q.persons[i].of
                                     /\ p.persons[i].towards = q.persons[i].towards
  PROVE  Said(p) = Said(q)
<1>. QED  BY DEF Said

LEMMA CallbackRefines ==
  ASSUME TypeOK, CopyingInv, PeopleCallback
  PROVE  Latest!Arrive \/ UNCHANGED <<AtHand, InUse>>
<1>1. UNCHANGED InUse
  BY DEF PeopleCallback, CallbackLock, CallbackHeader, CallbackPersons, InUse, Copying
<1>2. ASSUME NEW m \in Messages, CallbackLock(m) PROVE Latest!Arrive
  <2>1. AtHand' = Said(Content(m))
    BY <1>2 DEF CallbackLock, AtHand
  <2>2. AtHand' \in {Said(Content(n)) : n \in Messages}
    BY <2>1
  <2>. QED  BY <1>1, <2>2 DEF Latest!Arrive, AtHand, InUse
<1>3. CASE CallbackHeader
  BY <1>1, <1>3 DEF CallbackHeader, AtHand
<1>4. CASE CallbackPersons
  <2>1. people_.id = incoming.id /\ people_.frame = incoming.frame
    BY <1>4 DEF CallbackPersons, CopyingInv, StoredInv
  <2>2. people_' = Content(incoming)
    BY <1>4, <2>1 DEF CallbackPersons, Content, TypeOK, PeopleType, People
  <2>. QED  BY <1>1, <1>4, <2>2 DEF CallbackPersons, AtHand
<1>. QED  BY <1>1, <1>2, <1>3, <1>4 DEF PeopleCallback

LEMMA CopyRefines ==
  ASSUME TypeOK, CopyingInv, CycleStep
  PROVE  Latest!Take \/ Latest!Release \/ UNCHANGED <<AtHand, InUse>>
<1>1. UNCHANGED AtHand
  BY DEF CycleStep, PlanThrows, PersonThrows, Throw, Trajectorize, PeopleLock, GetLock,
     PeopleHeader, GetHeader, PeoplePersons, GetPersons, TransformPerson, PeopleInFrame,
     OptimizerRejects, AddObstacleCost, StartSolve, SolveUsable, SolveUnusable, Answer,
     interface, AtHand
<1>2. CASE PeoplePersons
  <2>1. InUse = <<>> /\ InUse' = <<Said(people')>> /\ AtHand = Said(people')
    BY <1>2, Copied DEF PeoplePersons, InUse, Copying, AtHand
  <2>. QED  BY <1>1, <2>1 DEF Latest!Take, InUse, AtHand
<1>3. CASE PlanThrows \/ PersonThrows \/ Answer
  <2>1. InUse' = <<>>
    BY <1>3 DEF PlanThrows, PersonThrows, Throw, Answer, InUse
  <2>. QED  BY <1>1, <2>1 DEF Latest!Release, InUse, AtHand
<1>4. CASE Trajectorize \/ PeopleLock \/ PeopleHeader
  BY <1>1, <1>4 DEF Trajectorize, PeopleLock, PeopleHeader, InUse, Copying
<1>5. CASE TransformPerson
  <2>1. Said(people') = Said(people)
    BY <1>5, Transformed, SaidSame
  <2>. QED  BY <1>1, <1>5, <2>1 DEF TransformPerson, InUse, Copying
<1>6. CASE PeopleInFrame
  <2>1. people'.id = people.id /\ people'.persons = people.persons
    BY <1>6 DEF PeopleInFrame, TypeOK, PeopleType, People
  <2>2. Said(people') = Said(people)
    BY <2>1 DEF Said
  <2>. QED  BY <1>1, <1>6, <2>2 DEF PeopleInFrame, InUse, Copying
<1>7. CASE OptimizerRejects \/ AddObstacleCost \/ StartSolve \/ SolveUsable \/ SolveUnusable
  BY <1>1, <1>7 DEF OptimizerRejects, AddObstacleCost, StartSolve, SolveUsable, SolveUnusable,
     InUse, Copying
<1>. QED  BY <1>2, <1>3, <1>4, <1>5, <1>6, <1>7 DEF CycleStep

LEMMA LatestStep ==
  ASSUME TypeOK, CopyingInv, [Next]_vars
  PROVE  [Latest!Next]_<<AtHand, InUse>>
<1>1. CASE PeopleCallback
  BY <1>1, CallbackRefines DEF Latest!Next
<1>2. CASE CycleStep
  BY <1>2, CopyRefines DEF Latest!Next
<1>3. CASE Configure
  <2>1. AtHand' = Said(Content(Empty)) /\ InUse = <<>> /\ UNCHANGED InUse
    BY <1>3 DEF Configure, Construct, Between, AtHand, InUse
  <2>. QED  BY <2>1 DEF Latest!Next, Latest!Restart, AtHand, InUse
<1>4. CASE Call
  BY <1>4 DEF Call, interface, AtHand, InUse, Copying
<1>5. CASE Activate \/ Deactivate \/ Cleanup \/ SetPlan \/ SetSpeedLimit \/ MoveWindow
           \/ UNCHANGED vars
  BY <1>5 DEF Activate, Deactivate, Cleanup, Transition, SetPlan, SetSpeedLimit, MoveWindow,
     vars, interface, AtHand, InUse, Copying
<1>. QED  BY <1>1, <1>2, <1>3, <1>4, <1>5 DEF Next

(* ImplementsLatest: however many messages arrive and whenever, a cycle    *)
(* works with the latest one, taken at one moment and kept to its end.     *)
THEOREM LatestTaken == Spec => ImplementsLatest
<1>1. Init => Latest!Init
  BY DEF Init, Latest!Init
<1>2. TypeOK /\ CopyingInv /\ [Next]_vars => [Latest!Next]_<<AtHand, InUse>>
  BY LatestStep
<1>3. TypeOK /\ CopyingInv /\ [Next]_vars => (TypeOK /\ CopyingInv)'
  BY TypeInductive, CopyingStep
<1>. QED  BY <1>1, <1>2, <1>3, TypeInit, CopyingInitially, PTL
          DEF Spec, ImplementsLatest, Latest!Spec, AtHand, InUse

LEMMA FrameStep ==
  ASSUME TypeOK, CopyingInv, FrameInv, PositionsInPlanFrame, [Next]_vars
  PROVE  FrameInv' /\ PositionsInPlanFrame'
<1>. USE DEF FrameInv, PositionsInPlanFrame, locals
<1>1. CASE PeoplePersons
  <2>1. PICK m \in received : people' = Content(m)
    BY <1>1, Copied
  <2>2. m \in Messages \union {Empty}
    BY DEF TypeOK, PeopleType
  <2>3. \A i \in DOMAIN Persons(m) : Persons(m)[i].at = m.frame /\ ~ (i < 1)
    BY <2>2, MessagesAssumption DEF Persons, Empty
  <2>4. next' = 1 /\ pc' = "frame"
    BY <1>1 DEF PeoplePersons
  <2>. QED  BY <2>1, <2>3, <2>4 DEF Content
<1>2. CASE TransformPerson
  <2>1. next \in Nat /\ next' = next + 1 /\ pc' = "frame" /\ pc = "frame"
    BY <1>2 DEF TransformPerson, TypeOK, ControlType
  <2>2. \A i \in DOMAIN people.persons : i \in Nat
    BY DEF TypeOK, PeopleType, People
  <2>. QED  BY <1>2, <2>1, <2>2, Transformed
<1>3. CASE PeopleInFrame
  <2>1. people'.frame = PlanFrame /\ people'.persons = people.persons /\ pc = "frame"
        /\ pc' = "optimize"
    BY <1>3 DEF PeopleInFrame, TypeOK, PeopleType, People
  <2>2. \A i \in DOMAIN people.persons : people.frame = PlanFrame \/ i < next
    BY <1>3 DEF PeopleInFrame, PersonLeft, TypeOK, PeopleType, ControlType, People
  <2>. QED  BY <2>1, <2>2
<1>4. CASE UNCHANGED <<people, pc, next>>
  BY <1>4
<1>5. CASE Call \/ PlanThrows \/ PersonThrows \/ Trajectorize \/ PeopleLock \/ PeopleHeader
           \/ Answer
  BY <1>5 DEF Call, PlanThrows, PersonThrows, Throw, Trajectorize, PeopleLock, PeopleHeader,
     Answer
<1>6. CASE OptimizerRejects \/ AddObstacleCost \/ StartSolve \/ SolveUsable \/ SolveUnusable
  BY <1>6 DEF OptimizerRejects, AddObstacleCost, StartSolve, SolveUsable, SolveUnusable
<1>. QED  BY <1>1, <1>2, <1>3, <1>4, <1>5, <1>6 DEF Next, CycleStep, Configure, Activate,
   Deactivate, Cleanup, Transition, SetPlan, SetSpeedLimit, PeopleCallback, CallbackLock,
   CallbackHeader, CallbackPersons, MoveWindow, vars

(* PositionsInPlanFrame: the optimizer sees positions of the plan's frame  *)
(* only, however many persons there are and whatever frame they came in.   *)
THEOREM PositionsInFrame == Spec => []PositionsInPlanFrame
<1>1. Init => FrameInv /\ PositionsInPlanFrame
  BY DEF Init, FrameInv, PositionsInPlanFrame
<1>2. TypeOK /\ CopyingInv /\ FrameInv /\ PositionsInPlanFrame /\ [Next]_vars
      => (TypeOK /\ CopyingInv /\ FrameInv /\ PositionsInPlanFrame)'
  BY TypeInductive, CopyingStep, FrameStep
<1>. QED  BY <1>1, <1>2, TypeInit, CopyingInitially, PTL DEF Spec

-----------------------------------------------------------------------------
(***************************************************************************)
(* How far two of the violations reach: not to a detector that publishes   *)
(* in the frame the controller plans in, and not to a window that rests    *)
(* from the first obstacle cost to the end of the solve.                   *)
(***************************************************************************)
LEMMA VelocitiesOfWhole ==
  ASSUME TypeOK, WholeMessage, \A m \in Messages : m.frame = PlanFrame
  PROVE  VelocitiesInPlanFrame
<1>. SUFFICES ASSUME pc = "solve", NEW i \in DOMAIN people.persons
              PROVE  people.persons[i].towards = PlanFrame
  BY DEF VelocitiesInPlanFrame
<1>1. PICK m \in received : Len(people.persons) = m.count
                            /\ people.persons[i].towards = m.frame
  BY DEF WholeMessage
<1>2. m # Empty
  <2>1. Len(people.persons) # 0
    BY DEF TypeOK, PeopleType, People
  <2>. QED  BY <1>1, <2>1 DEF Empty
<1>. QED  BY <1>1, <1>2 DEF TypeOK, PeopleType

(* VelocitiesInPlanFrame, which fails in general, holds when all people    *)
(* messages come in the frame the controller plans in.                     *)
THEOREM VelocitiesWhenSentInPlanFrame ==
  ASSUME \A m \in Messages : m.frame = PlanFrame
  PROVE  Spec => []VelocitiesInPlanFrame
<1>1. TypeOK /\ WholeMessage => VelocitiesInPlanFrame
  BY VelocitiesOfWhole
<1>. QED  BY <1>1, TypeCorrect, PeopleWhole, PTL

WindowRests == pc \in {"build", "solve"} => UNCHANGED window

(* Before its first obstacle cost a cycle has read no origin.              *)
OriginsInv ==
  /\ pc \in {"plan", "people", "header", "persons", "frame", "optimize"} => origins = {}
  /\ pc \in {"build", "solve"} => origins = {window}

LEMMA OriginsStep ==
  ASSUME OriginsInv, [Next]_vars, WindowRests
  PROVE  OriginsInv'
<1>. USE DEF OriginsInv, WindowRests, locals
<1>1. CASE MoveWindow
  BY <1>1 DEF MoveWindow
<1>2. CASE Call
  BY <1>2 DEF Call
<1>3. CASE AddObstacleCost
  BY <1>3 DEF AddObstacleCost, others
<1>4. CASE PlanThrows \/ PersonThrows \/ Answer
  BY <1>4 DEF PlanThrows, PersonThrows, Throw, Answer
<1>5. CASE OptimizerRejects \/ SolveUsable \/ SolveUnusable
  BY <1>5 DEF OptimizerRejects, SolveUsable, SolveUnusable
<1>6. CASE Trajectorize \/ PeopleLock \/ PeopleHeader \/ PeoplePersons \/ TransformPerson
           \/ PeopleInFrame \/ StartSolve
  BY <1>6 DEF Trajectorize, PeopleLock, PeopleHeader, PeoplePersons, TransformPerson,
     PeopleInFrame, StartSolve, others
<1>7. CASE UNCHANGED <<pc, origins, window>>
  BY <1>7
<1>. QED  BY <1>1, <1>2, <1>3, <1>4, <1>5, <1>6, <1>7 DEF Next, CycleStep, Configure, Activate,
   Deactivate, Cleanup, Transition, SetPlan, SetSpeedLimit, PeopleCallback, vars

(* CostOfThatPosition, which fails in general, holds when the costmap's    *)
(* window rests while a problem is built and solved.                       *)
THEOREM CostsWhenWindowRests == Spec /\ [][WindowRests]_vars => []CostOfThatPosition
<1>1. Init => OriginsInv
  BY DEF Init, OriginsInv
<1>2. OriginsInv /\ [Next]_vars /\ [WindowRests]_vars => OriginsInv'
  BY OriginsStep DEF WindowRests, vars
<1>3. OriginsInv => CostOfThatPosition
  BY DEF OriginsInv, CostOfThatPosition
<1>. QED  BY <1>1, <1>2, <1>3, PTL DEF Spec

-----------------------------------------------------------------------------
(***************************************************************************)
(* Progress.  A cycle goes through its phases in one direction and through *)
(* the people one by one; only it moves itself, and it waits for nothing   *)
(* but the mutex, which its holder gives back without waiting.             *)
(***************************************************************************)
Phase ==
  CASE pc = "plan"     -> 9
    [] pc = "people"   -> 8
    [] pc = "header"   -> 7
    [] pc = "persons"  -> 6
    [] pc = "frame"    -> 5
    [] pc = "optimize" -> 4
    [] pc = "build"    -> 3
    [] pc = "solve"    -> 2
    [] pc = "answer"   -> 1
    [] pc = "idle"     -> 0

PersonsLeft == IF pc = "frame" THEN 1 + Len(people.persons) - next ELSE 0

Closer ==
  \/ Phase' < Phase
  \/ Phase' = Phase /\ 0 <= PersonsLeft' /\ PersonsLeft' < PersonsLeft

(* The one step that does not end a cycle's phase or a person: one more    *)
(* obstacle cost in the loop over the path (optimizer.cpp:352-487).        *)
OneMoreCost == pc = "build" /\ AddObstacleCost

LEMMA StepsCloser ==
  ASSUME TypeOK, CycleStep
  PROVE  Closer \/ OneMoreCost
<1>1. CASE TransformPerson
  <2>1. pc = "frame" /\ pc' = "frame" /\ next' = next + 1 /\ next \in Nat
        /\ next <= Len(people.persons)
    BY <1>1 DEF TransformPerson, PersonLeft, TypeOK, ControlType
  <2>2. Len(people'.persons) = Len(people.persons)
    BY <1>1, Transformed
  <2>3. Len(people.persons) \in Nat
    BY DEF TypeOK, PeopleType, People
  <2>4. Phase = 5 /\ Phase' = 5
    BY <2>1 DEF Phase
  <2>5. PersonsLeft = 1 + Len(people.persons) - next
        /\ PersonsLeft' = 1 + Len(people.persons) - (next + 1)
    BY <2>1, <2>2 DEF PersonsLeft
  <2>. QED  BY <2>1, <2>3, <2>4, <2>5 DEF Closer
<1>2. CASE CycleStep /\ ~ TransformPerson /\ ~ OneMoreCost
  <2>1. Phase' < Phase
    BY <1>2 DEF CycleStep, PlanThrows, PersonThrows, Throw, Trajectorize, PeopleLock,
       PeopleHeader, PeoplePersons, PeopleInFrame, OptimizerRejects, AddObstacleCost,
       OneMoreCost, StartSolve, SolveUsable, SolveUnusable, Answer, Phase
  <2>. QED  BY <2>1 DEF Closer
<1>. QED  BY <1>1, <1>2

(* LockInv: the mutex is held by nobody but who is in the middle of a      *)
(* copy, which waits for nothing; in particular the cycle never waits for  *)
(* itself, and no way out of a copy leaves it locked                       *)
(* (people_interface.cpp:34-44).                                           *)
THEOREM MutexHeldByCopier == Spec => []LockInv
<1>1. TypeOK /\ CopyingInv /\ [Next]_vars => (TypeOK /\ CopyingInv)'
  BY TypeInductive, CopyingStep
<1>2. CopyingInv => LockInv
  BY DEF CopyingInv
<1>. QED  BY <1>1, <1>2, TypeInit, CopyingInitially, PTL DEF Spec

(* Every step brings a cycle closer to its end or is one more cost of the  *)
(* loop over the path, and no step of another thread throws it back.       *)
CycleAdvances ==
  [][pc # "idle" => Closer \/ OneMoreCost \/ UNCHANGED <<Phase, PersonsLeft>>]_vars

THEOREM AlwaysAdvances == Spec => CycleAdvances
<1>1. ASSUME TypeOK, [Next]_vars, pc # "idle"
      PROVE  Closer \/ OneMoreCost \/ UNCHANGED <<Phase, PersonsLeft>>
  <2>1. CASE CycleStep
    BY <1>1, <2>1, StepsCloser
  <2>2. CASE UNCHANGED <<pc, people, next>>
    BY <2>2 DEF Phase, PersonsLeft
  <2>. QED  BY <1>1, <2>1, <2>2 DEF Next, Configure, Activate, Deactivate, Cleanup, Transition,
     SetPlan, SetSpeedLimit, PeopleCallback, CallbackLock, CallbackHeader, CallbackPersons,
     MoveWindow, Call, Between, locals, vars
<1>. QED  BY <1>1, TypeCorrect, PTL DEF Spec, CycleAdvances

=============================================================================
