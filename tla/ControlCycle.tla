---------------------------- MODULE ControlCycle ----------------------------
(***************************************************************************)
(* What the controller plugin promises to the controller server: it is     *)
(* called while it is active, and each call ends with a twist the robot    *)
(* may be sent or with an exception.                                       *)
(***************************************************************************)
EXTENDS Integers

CONSTANTS MaxLin, MinLin, MaxAng   \* the controller's velocity parameters

VARIABLES
  active,   \* the plugin may be called
  calling,  \* a call is in progress
  answer    \* how the last call ended

NoAnswer  == [kind |-> "none"]
Exception == [kind |-> "exception"]

(* Speeds up to the maximum; the slow ones the robot cannot drive are out. *)
AllowedSpeeds == {0} \union {v \in -MaxLin .. MaxLin : v >= MinLin \/ -v >= MinLin}

Twists == [kind : {"twist"}, lin : AllowedSpeeds, ang : -MaxAng .. MaxAng]

Init == active = FALSE /\ calling = FALSE /\ answer = NoAnswer

Begin == active /\ ~ calling /\ calling' = TRUE /\ answer' = NoAnswer /\ UNCHANGED active

End == calling /\ calling' = FALSE /\ answer' \in Twists \union {Exception} /\ UNCHANGED active

Switch == ~ calling /\ active' = ~ active /\ UNCHANGED <<calling, answer>>

Next == Begin \/ End \/ Switch

Spec == Init /\ [][Next]_<<active, calling, answer>>
=============================================================================
