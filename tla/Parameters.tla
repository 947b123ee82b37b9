----------------------------- MODULE Parameters -----------------------------
(***************************************************************************)
(* How the controller, the trajectorizer and the optimizer come by their   *)
(* parameters.  All three declare them in one node, each with defaults of  *)
(* its own, and copy the values into members while configure runs.  The    *)
(* first to declare a parameter decides its value: what the file says, or  *)
(* its own default.  To read one that nobody has declared changes nothing. *)
(*                                                                         *)
(* Values are integers: speeds in tenths of m/s or rad/s, times in tenths  *)
(* of a second, one time step.  linear_solver_type is 1 for a name in      *)
(* solver_types and 0 for any other, a flag is 1 or 0.  Weights and        *)
(* tolerances are left out but for the weight that switches a critic.      *)
(***************************************************************************)
EXTENDS Integers

CONSTANTS
  Files,    \* parameter files: names with values
  Changes,  \* parameters a user sets: records of a name and a value
  Unset,    \* what a member holds before anything is copied into it
  Modulus   \* one more than the largest unsigned int

ASSUME ParametersAssumption ==
  /\ \A f \in Files : \A n \in DOMAIN f : f[n] \in Int
  /\ \A c \in Changes : c.value \in Int
  /\ Unset \notin Int
  /\ Modulus \in Nat \ {0}

VARIABLES
  file,              \* the parameter file the process was started with
  store,             \* the node's declared parameters
  controller, trajectorizer, optimizer,   \* their members
  setup              \* how far configure is

parameters == <<file, store, controller, trajectorizer, optimizer, setup>>

-----------------------------------------------------------------------------
ControllerDefaults ==
  [max_linear_vel |-> 6, min_linear_vel |-> 0, max_angular_vel |-> 14]

TrajectorizerDefaults ==
  [desired_linear_vel |-> 2, max_linear_vel |-> 8, max_angular_vel |-> 14,
   max_linear_accel |-> 25, max_time |-> 30]

OptimizerDefaults ==
  [linear_solver_type |-> 1, control_horizon |-> 5, parameter_block_length |-> 5,
   desired_linear_vel |-> 3, max_linear_vel |-> 6, min_linear_vel |-> 0,
   max_angular_vel |-> 14, goal_proximity_weight |-> 0,
   enable_social_work |-> 1, enable_angle |-> 1, enable_crossing |-> 0,
   enable_proxemics |-> 1, enable_path_follow |-> 1, enable_path_align |-> 1]

OptimizerReads == DOMAIN OptimizerDefaults \union {"max_time"}

\* Mutant: a declaration replaces an earlier one.
DeclareAgain(defaults) ==
  [n \in DOMAIN store \union DOMAIN defaults |->
     IF n \in DOMAIN file THEN file[n]
     ELSE IF n \in DOMAIN defaults THEN defaults[n] ELSE store[n]]

(* declare_parameter_if_not_declared, for all parameters of a component.   *)
Declare(defaults) ==
  [n \in DOMAIN store \union DOMAIN defaults |->
     IF n \in DOMAIN store THEN store[n]
     ELSE IF n \in DOMAIN file THEN file[n] ELSE defaults[n]]

(* get_parameter, for all the members of a component. *)
Get(declared, members) ==
  [n \in DOMAIN members |-> IF n \in DOMAIN declared THEN declared[n] ELSE members[n]]

NotNegative(v) == IF v < 0 THEN 0 ELSE v

\* Mutant: a negative count stays negative.
SignedCount(v) == v

(* int to unsigned int. *)
Unsigned(v) == v % Modulus

-----------------------------------------------------------------------------
ControllerParameters ==
  /\ setup \in {"none", "ready", "failed"}
  /\ store' = Declare(ControllerDefaults)
  /\ controller' = Get(store', controller)
  /\ setup' = "controller"
  /\ UNCHANGED <<file, trajectorizer, optimizer>>

(* The trajectorizer is built anew; max_steps_ is its max_time in steps. *)
TrajectorizerConfigure ==
  /\ setup = "controller"
  /\ store' = Declare(TrajectorizerDefaults)
  /\ trajectorizer' = [n \in DOMAIN TrajectorizerDefaults |->
                         IF n = "max_linear_accel" THEN NotNegative(store'[n]) ELSE store'[n]]
  /\ setup' = "trajectorizer"
  /\ UNCHANGED <<file, controller, optimizer>>

\* Mutant: max_time is not read, and the member stays what it was.
OptimizerGetNoTime ==
  /\ setup = "trajectorizer"
  /\ store' = Declare(OptimizerDefaults)
  /\ optimizer' = [Get(store', optimizer) EXCEPT !["max_time"] = optimizer["max_time"]]
  /\ setup' = "read"
  /\ UNCHANGED <<file, controller, trajectorizer>>

OptimizerGet ==
  /\ setup = "trajectorizer"
  /\ Declare(OptimizerDefaults)["linear_solver_type"] = 1
  /\ store' = Declare(OptimizerDefaults)
  /\ optimizer' = Get(store', optimizer)
  /\ setup' = "read"
  /\ UNCHANGED <<file, controller, trajectorizer>>

(* A solver type of another name throws before anything else is declared.  *)
OptimizerGetThrows ==
  /\ setup = "trajectorizer"
  /\ LET solver == [linear_solver_type |-> OptimizerDefaults.linear_solver_type]
     IN  /\ Declare(solver)["linear_solver_type"] # 1
         /\ store' = Declare(solver)
         /\ optimizer' = [optimizer EXCEPT !["linear_solver_type"] = store'["linear_solver_type"]]
  /\ setup' = "failed"
  /\ UNCHANGED <<file, controller, trajectorizer>>

(* The members of the new Optimizer; the two counts become unsigned.       *)
OptimizerInitialize ==
  /\ setup = "read"
  /\ optimizer' = [optimizer EXCEPT !["control_horizon"] = Unsigned(@),
                                    !["parameter_block_length"] = Unsigned(@)]
  /\ setup' = "ready"
  /\ UNCHANGED <<file, store, controller, trajectorizer>>

(* ros2 param set on a declared parameter: no component listens to it.     *)
SetParameter ==
  /\ setup \in {"ready", "failed"}
  /\ \E c \in Changes :
       c.name \in DOMAIN store /\ store' = [store EXCEPT ![c.name] = c.value]
  /\ UNCHANGED <<file, controller, trajectorizer, optimizer, setup>>

(* The process starts: nothing is declared, members hold anything. *)
Start ==
  /\ file \in Files
  /\ store = [n \in {} |-> 0]
  /\ controller = [n \in DOMAIN ControllerDefaults |-> Unset]
  /\ trajectorizer = [n \in DOMAIN TrajectorizerDefaults |-> Unset]
  /\ optimizer = [n \in OptimizerReads |-> Unset]
  /\ setup = "none"

Restart ==
  /\ file' \in Files
  /\ store' = [n \in {} |-> 0]
  /\ controller' = [n \in DOMAIN ControllerDefaults |-> Unset]
  /\ trajectorizer' = [n \in DOMAIN TrajectorizerDefaults |-> Unset]
  /\ optimizer' = [n \in OptimizerReads |-> Unset]
  /\ setup' = "none"

Configure ==
  \/ ControllerParameters
  \/ TrajectorizerConfigure
  \/ OptimizerGet
  \/ OptimizerGetThrows
  \/ OptimizerInitialize
  \/ SetParameter

-----------------------------------------------------------------------------
(* Each component declares the shared parameters with defaults of its own  *)
(* (0.6 and 0.8 m/s, 0.2 and 0.3 m/s), and the optimizer never declares    *)
(* max_time: still, once configured, they all hold the same, initialised   *)
(* values, the first time, after a failed attempt, after a change by the   *)
(* user and a second configure (optimizer.cpp:125-146,                     *)
(* path_trajectorizer.cpp:109-140, social_mpc_controller.cpp:56-68).       *)
ComponentsAgree ==
  setup = "ready" =>
    /\ \A n \in DOMAIN optimizer : optimizer[n] # Unset
    /\ \A n \in DOMAIN controller : controller[n] = optimizer[n]
    /\ \A n \in DOMAIN trajectorizer \intersect DOMAIN optimizer :
         trajectorizer[n] = optimizer[n]
=============================================================================
