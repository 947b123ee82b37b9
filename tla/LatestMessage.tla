--------------------------- MODULE LatestMessage ---------------------------
(***************************************************************************)
(* What a control cycle relies on when it asks for the people: at one      *)
(* moment of the cycle it takes what is then the latest message, and that  *)
(* stays what it works with until the cycle ends.  Messages arrive at any  *)
(* moment and at once; a new interface starts with an empty one.           *)
(***************************************************************************)
EXTENDS Sequences

CONSTANTS
  Contents,   \* what a message may say
  Nobody      \* what the empty message says

VARIABLES
  latest,     \* what the latest message says
  taken       \* <<>>, or what the cycle in progress has taken

Init == latest = Nobody /\ taken = <<>>

Arrive == latest' \in Contents /\ UNCHANGED taken

Take == taken = <<>> /\ taken' = <<latest>> /\ UNCHANGED latest

Release == taken' = <<>> /\ UNCHANGED latest

Restart == taken = <<>> /\ latest' = Nobody /\ UNCHANGED taken

Next == Arrive \/ Take \/ Release \/ Restart

Spec == Init /\ [][Next]_<<latest, taken>>
=============================================================================
