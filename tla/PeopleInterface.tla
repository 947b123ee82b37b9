-------------------------- MODULE PeopleInterface --------------------------
(***************************************************************************)
(* PeopleInterface (people_interface.cpp): the last message of the people  *)
(* topic, written by the callback in an executor thread and copied by      *)
(* getPeople in the controller's thread.  Copying a message takes two      *)
(* steps, its header and its persons, and a mutex keeps them together.     *)
(*                                                                         *)
(* A person carries the message it came with, and the frames its position  *)
(* and its velocity are expressed in; where it is does not matter here.    *)
(***************************************************************************)
EXTENDS Integers, Sequences

CONSTANTS
  Messages,   \* messages that may arrive: an id, a frame and how many persons
  NoFrame     \* the frame of a message that was never filled

ASSUME MessagesAssumption ==
  \A m \in Messages : m = [id |-> m.id, frame |-> m.frame, count |-> m.count]
                      /\ m.count \in Nat

VARIABLES
  people_,    \* the last message
  mutex_,     \* who holds it: "free", "callback" or "cycle"
  incoming,   \* the message the callback was called with
  callback,   \* how far the callback is: "idle", "locked", "header"
  people,     \* the copy getPeople makes
  received    \* history: the messages that arrived since the interface exists

interface == <<people_, mutex_, incoming, callback, received>>

Empty == [id |-> 0, frame |-> NoFrame, count |-> 0]

Persons(m) == [i \in 1 .. m.count |-> [of |-> m.id, at |-> m.frame, towards |-> m.frame]]

Content(m) == [id |-> m.id, frame |-> m.frame, persons |-> Persons(m)]

(* A new interface, with a default message. *)
Construct ==
  /\ people_' = Content(Empty) /\ mutex_' = "free"
  /\ incoming' = Empty /\ callback' = "idle" /\ received' = {Empty}

-----------------------------------------------------------------------------
CallbackLock(m) ==
  /\ callback = "idle" /\ mutex_ = "free"
  /\ callback' = "locked" /\ mutex_' = "callback"
  /\ incoming' = m /\ received' = received \union {m}
  /\ UNCHANGED <<people_, people>>

CallbackHeader ==
  /\ callback = "locked"
  /\ people_' = [people_ EXCEPT !.id = incoming.id, !.frame = incoming.frame]
  /\ callback' = "header"
  /\ UNCHANGED <<mutex_, incoming, received, people>>

\* Mutant: a message without persons is left with the mutex held.
CallbackPersonsEarlyReturn ==
  /\ callback = "header"
  /\ people_' = [people_ EXCEPT !.persons = Persons(incoming)]
  /\ callback' = "idle"
  /\ IF incoming.count = 0 THEN UNCHANGED mutex_ ELSE mutex_' = "free"
  /\ UNCHANGED <<incoming, received, people>>

CallbackPersons ==
  /\ callback = "header"
  /\ people_' = [people_ EXCEPT !.persons = Persons(incoming)]
  /\ callback' = "idle" /\ mutex_' = "free"
  /\ UNCHANGED <<incoming, received, people>>

\* Mutant: the reader does not wait for the mutex.
GetLockAtOnce == mutex_' = "cycle" /\ UNCHANGED <<people_, incoming, callback, received, people>>

GetLock ==
  /\ mutex_ = "free" /\ mutex_' = "cycle"
  /\ UNCHANGED <<people_, incoming, callback, received, people>>

GetHeader ==
  /\ people' = [people EXCEPT !.id = people_.id, !.frame = people_.frame]
  /\ UNCHANGED interface

GetPersons ==
  /\ people' = [people EXCEPT !.persons = people_.persons]
  /\ mutex_' = "free"
  /\ UNCHANGED <<people_, incoming, callback, received>>
=============================================================================
