---------------------------- MODULE ObstacleGrid ----------------------------
(***************************************************************************)
(* ObstacleDistInterface (obstacle_distance_interface.cpp): the last grid  *)
(* of distances to obstacles, put into the agents' frame by the callback   *)
(* of its topic, and the conversions between points, cells and indices,    *)
(* each of which takes the mutex for itself.  computeObstacle of the       *)
(* optimizer works on a copy of the grid.  The controller creates the      *)
(* interface and, at present, asks it for nothing: who uses it here is any *)
(* client that converts a point to an index and back.                      *)
(*                                                                         *)
(* A grid's origin is a pair of integers, its rotation is left out as it   *)
(* is in the code, and frames differ by an offset.  "in" is not part of    *)
(* the message: it tells which frame the origin really is expressed in.    *)
(* distances is as long as indexes and never used otherwise.               *)
(***************************************************************************)
EXTENDS Integers, Sequences

CONSTANTS
  Grids,    \* messages that may arrive
  Frames,   \* names of frames
  Offset,   \* where the origin of each frame is
  NoFrame,  \* the frame of a message that was never filled
  Points,   \* points clients ask about
  Modulus   \* one more than the largest unsigned int

Vectors == Int \X Int

GridType ==
  [frame : Frames \union {NoFrame}, in : Frames \union {NoFrame}, origin : Vectors,
   resolution : Nat, width : 0 .. Modulus - 1, height : 0 .. Modulus - 1,
   indexes : Seq(0 .. Modulus - 1)]

ASSUME GridAssumption ==
  /\ Grids \subseteq GridType
  /\ \A g \in Grids : g.in = g.frame /\ g.frame \in Frames
  /\ Offset \in [Frames -> Vectors] /\ NoFrame \notin Frames
  /\ Points \subseteq Vectors
  /\ Modulus \in Nat \ {0}

VARIABLES
  agents_frame_id_,
  obs_,       \* the grid the conversions use
  callback,   \* "idle", "transform", "name", "store"
  incoming,   \* the callback's copy of its message
  raced,      \* history: the frame's name changed while this callback ran
  stored,     \* history: obs_ came from a callback whose frame was the "agents'"
              \* and still is, was and is a "former" one, or that was "raced"
  reader,     \* "idle", "cell", "index", "back", "done", "asked", "crashed"
  point, cell, index, corner,   \* the client's question and the answers so far
  steady,     \* history: obs_ is the grid of the client's first conversion
  od, obstacle   \* the copy computeObstacle is given, and its outcome

interface == <<agents_frame_id_, obs_, callback, incoming, raced, stored>>
client    == <<reader, point, cell, index, corner, od, obstacle>>
vars      == <<interface, client, steady>>

NoGrid ==
  [frame |-> NoFrame, in |-> NoFrame, origin |-> <<0, 0>>, resolution |-> 0,
   width |-> 0, height |-> 0, indexes |-> <<>>]

\* Outcomes of computeObstacle besides a vector.
Throws      == [kind |-> "throws", diff |-> <<0, 0>>]
OutOfBounds == [kind |-> "undefined", diff |-> <<0, 0>>]   \* behind the array's end

-----------------------------------------------------------------------------
(* The topic's callback.                                                   *)

Receive(m) ==
  /\ callback = "idle"
  /\ incoming' = m
  /\ callback' = IF m.frame = agents_frame_id_ THEN "store" ELSE "transform"
  /\ UNCHANGED <<agents_frame_id_, obs_, raced, stored, client, steady>>

Moved(p, from, to) ==
  <<p[1] + Offset[from][1] - Offset[to][1], p[2] + Offset[from][2] - Offset[to][2]>>

(* transformPose is given the frame's name by value ... *)
Transform ==
  /\ callback = "transform"
  /\ incoming' = [incoming EXCEPT !.origin = Moved(@, incoming.frame, agents_frame_id_),
                                  !.in = agents_frame_id_]
  /\ callback' = "name"
  /\ UNCHANGED <<agents_frame_id_, obs_, raced, stored, client, steady>>

\* Mutant: the message is kept although it could not be transformed.
TransformFailsKept ==
  /\ callback = "transform" /\ incoming.frame # agents_frame_id_
  /\ callback' = "store"
  /\ UNCHANGED <<agents_frame_id_, obs_, incoming, raced, stored, client, steady>>

TransformFails ==
  /\ callback = "transform" /\ incoming.frame # agents_frame_id_
  /\ callback' = "idle" /\ incoming' = NoGrid /\ raced' = FALSE
  /\ UNCHANGED <<agents_frame_id_, obs_, stored, client, steady>>

(* ... and transformObstacleDistance the member itself, by reference.      *)
Name ==
  /\ callback = "name"
  /\ incoming' = [incoming EXCEPT !.frame = agents_frame_id_]
  /\ callback' = "store"
  /\ UNCHANGED <<agents_frame_id_, obs_, raced, stored, client, steady>>

Store ==
  /\ callback = "store"
  /\ obs_' = incoming /\ steady' = FALSE
  /\ callback' = "idle" /\ incoming' = NoGrid
  /\ stored' = IF raced THEN "raced" ELSE "agents"
  /\ raced' = FALSE
  /\ UNCHANGED <<agents_frame_id_, client>>

(* The setter takes no lock. *)
SetAgentsFrameId(f) ==
  /\ f # agents_frame_id_ /\ agents_frame_id_' = f
  /\ raced' = (callback # "idle")
  /\ stored' = IF stored = "raced" THEN "raced" ELSE "former"
  /\ UNCHANGED <<obs_, callback, incoming, client, steady>>

-----------------------------------------------------------------------------
(* The conversions.                                                        *)

(* What a whole double becomes as an unsigned int: below zero it wraps or  *)
(* becomes zero, depending on the processor.                               *)
ToUnsigned(n) == IF n >= 0 THEN {n % Modulus} ELSE {n % Modulus, 0}

(* A resolution of zero makes it infinite, which becomes either end. *)
CellsOf(grid, p) ==
  LET Along(d) == IF grid.resolution = 0 THEN {0, Modulus - 1}
                  ELSE ToUnsigned((p[d] - grid.origin[d]) \div grid.resolution)
  IN  Along(1) \X Along(2)

CornerOf(grid, c) ==
  <<c[1] * grid.resolution + grid.origin[1], c[2] * grid.resolution + grid.origin[2]>>

\* Mutant: the last row and column are refused by one too few.
ClampLoose(i, size) == IF i > size THEN (size - 1) % Modulus ELSE i

(* The largest of a size of zero wraps. *)
Clamped(i, size) == IF i >= size THEN (size - 1) % Modulus ELSE i

\* The product of two unsigned numbers is one.
Area(grid) == (grid.width * grid.height) % Modulus

\* The place of a cell in an array of row after row.
PlaceOf(grid, c) == (c[1] + c[2] * grid.width) % Modulus

\* Mutant: the array is taken to hold column after column.
IndexOfColumns(grid, c) ==
  (Clamped(c[1], grid.width) * grid.height + Clamped(c[2], grid.height)) % Modulus

IndexOf(grid, c) == PlaceOf(grid, <<Clamped(c[1], grid.width), Clamped(c[2], grid.height)>>)

(* index2Cell casts to int, where the upper half is negative, divides as C *)
(* does, towards zero, and assigns the results to unsigned references.     *)
Signed(n) == IF 2 * n < Modulus THEN n ELSE n - Modulus

Magnitude(n) == IF n < 0 THEN -n ELSE n

Quot(n, d) ==
  LET q == Magnitude(n) \div Magnitude(d) IN IF (n < 0) = (d < 0) THEN q ELSE -q

Rem(n, d) == n - d * Quot(n, d)

\* div has no answer: nothing to divide by, or a quotient that is no int.
Undivided(n, d) == d = 0 \/ (2 * n = -Modulus /\ d = -1)

Dividend(grid, i) == Signed(Clamped(i, Area(grid)))

\* Mutant: the results of div are kept as they are.
CellAtSigned(grid, i) ==
  LET k == Dividend(grid, i)
      w == Signed(grid.width)
  IN  <<Rem(k, w), Quot(k, w)>>

CellAt(grid, i) ==
  LET k == Dividend(grid, i)
      w == Signed(grid.width)
  IN  <<Rem(k, w) % Modulus, Quot(k, w) % Modulus>>

(* A client asks for one point after the other and keeps its last answer.  *)
Asks(p) == reader \in {"idle", "done", "asked"} /\ point' = p

Keeps(c, i, k) == cell' = c /\ index' = i /\ corner' = k

Worldpoint2Cell(p) ==
  /\ Asks(p)
  /\ \E c \in CellsOf(obs_, p) : Keeps(c, 0, <<0, 0>>)
  /\ steady' = TRUE /\ reader' = "cell"
  /\ od' = NoGrid /\ obstacle' = Throws
  /\ UNCHANGED interface

Cell2Index ==
  /\ reader = "cell"
  /\ Keeps(<<0, 0>>, IndexOf(obs_, cell), <<0, 0>>) /\ reader' = "index"
  /\ UNCHANGED <<interface, steady, point, od, obstacle>>

Index2Cell ==
  /\ reader = "index" /\ ~ Undivided(Dividend(obs_, index), Signed(obs_.width))
  /\ Keeps(CellAt(obs_, index), 0, <<0, 0>>) /\ reader' = "back"
  /\ UNCHANGED <<interface, steady, point, od, obstacle>>

Index2CellCrashes ==
  /\ reader = "index" /\ Undivided(Dividend(obs_, index), Signed(obs_.width))
  /\ reader' = "crashed"
  /\ UNCHANGED <<interface, steady, point, cell, index, corner, od, obstacle>>

Cell2Worldpoint ==
  /\ reader = "back"
  /\ Keeps(<<0, 0>>, 0, CornerOf(obs_, cell)) /\ reader' = "done"
  /\ UNCHANGED <<interface, steady, point, od, obstacle>>

-----------------------------------------------------------------------------
(* computeObstacle on a copy of the grid.                                  *)

Cells(grid) == (0 .. grid.width - 1) \X (0 .. grid.height - 1)

\* The cell that an element of the array names, divided without a cast.
NamedCell(grid, n) == <<n % grid.width, n \div grid.width>>

WayTo(grid, n, p) ==
  LET o == CornerOf(grid, NamedCell(grid, n)) IN <<p[1] - o[1], p[2] - o[2]>>

\* Mutant: the cell is not compared with the grid's size.
ObstacleUnchecked(grid, p, c) ==
  LET i == PlaceOf(grid, c) + 1
  IN  IF i \notin DOMAIN grid.indexes THEN OutOfBounds
      ELSE IF grid.indexes[i] >= Area(grid) THEN Throws
      ELSE [kind |-> "vector", diff |-> WayTo(grid, grid.indexes[i], p)]

(* For the cell c that holds p. *)
ObstacleAt(grid, p, c) ==
  LET i == PlaceOf(grid, c) + 1
  IN  IF c \notin Cells(grid) THEN Throws
      ELSE IF i \notin DOMAIN grid.indexes THEN OutOfBounds
      ELSE IF grid.indexes[i] >= Area(grid) THEN Throws
      ELSE [kind |-> "vector", diff |-> WayTo(grid, grid.indexes[i], p)]

Outcomes(grid, p) ==
  IF grid.indexes = <<>> \/ 0 \in {grid.width, grid.height, grid.resolution} THEN {Throws}
  ELSE {ObstacleAt(grid, p, c) : c \in CellsOf(grid, p)}

(* getDistanceTransform copies under the mutex, the rest needs no lock.    *)
ComputeObstacle(p) ==
  /\ Asks(p)
  /\ od' = obs_ /\ obstacle' \in Outcomes(obs_, p)
  /\ Keeps(<<0, 0>>, 0, <<0, 0>>) /\ steady' = FALSE /\ reader' = "asked"
  /\ UNCHANGED interface

-----------------------------------------------------------------------------
Init ==
  /\ agents_frame_id_ \in Frames /\ raced = FALSE /\ stored = "agents"
  /\ obs_ = NoGrid /\ callback = "idle" /\ incoming = NoGrid
  /\ reader = "idle" /\ point = <<0, 0>> /\ cell = <<0, 0>> /\ index = 0 /\ corner = <<0, 0>>
  /\ steady = FALSE /\ od = NoGrid /\ obstacle = Throws

Next ==
  \/ \E m \in Grids : Receive(m)
  \/ Transform \/ TransformFails \/ Name \/ Store
  \/ \E f \in Frames : SetAgentsFrameId(f)
  \/ \E p \in Points : Worldpoint2Cell(p) \/ ComputeObstacle(p)
  \/ Cell2Index \/ Index2Cell \/ Index2CellCrashes \/ Cell2Worldpoint

Spec == Init /\ [][Next]_vars

-----------------------------------------------------------------------------
(* Type correctness: whatever grid, even one that is empty or has more     *)
(* cells than an int counts, whatever point and however grids are          *)
(* exchanged between two conversions, all that a client gets are unsigned  *)
(* numbers and points, and nothing is divided that C cannot divide; on a   *)
(* grid of height zero index2Cell divides -1 and still answers             *)
(* (obstacle_distance_interface.cpp:67-117).                               *)
TypeOK ==
  /\ agents_frame_id_ \in Frames /\ obs_ \in GridType /\ incoming \in GridType
  /\ callback \in {"idle", "transform", "name", "store"}
  /\ raced \in BOOLEAN /\ stored \in {"agents", "former", "raced"}
  /\ reader \in {"idle", "cell", "index", "back", "done", "asked", "crashed"}
  /\ point \in Vectors /\ corner \in Vectors
  /\ cell \in (0 .. Modulus - 1) \X (0 .. Modulus - 1) /\ index \in 0 .. Modulus - 1
  /\ steady \in BOOLEAN /\ od \in GridType
  /\ obstacle \in [kind : {"throws", "undefined", "vector"}, diff : Vectors]

(* The grid that clients see has its origin in the frame its header names, *)
(* and that is the agents' until its name is changed: a message that       *)
(* cannot be transformed leaves the grid before it, and a name changed     *)
(* while a callback runs spoils the grid of that callback alone; the next  *)
(* one that is left in peace puts things right, whatever came before       *)
(* (obstacle_distance_interface.cpp:41-57, 130-146, .hpp:64-67).           *)
GridInAgentsFrame ==
  /\ stored # "raced" => obs_.in = obs_.frame
  /\ stored = "agents" => obs_.frame \in {agents_frame_id_, NoFrame}

\* An int counts the grid's cells.
Countable(grid) == 2 * (grid.width * grid.height) < Modulus

(* On a grid whose cells an int counts, from a point to its index and back *)
(* to a point, with no other grid in between, a client is led to the       *)
(* corner of the cell that holds its point, if one does; from elsewhere to *)
(* the corner of some cell (obstacle_distance_interface.cpp:67-117).       *)
Holds(grid, c, p) ==
  \A d \in 1 .. 2 : c[d] <= p[d] /\ p[d] < c[d] + grid.resolution

RoundTrip ==
  reader = "done" /\ steady /\ Cells(obs_) # {} /\ Countable(obs_) =>
    /\ \E c \in Cells(obs_) : corner = CornerOf(obs_, c)
    /\ (\E c \in Cells(obs_) : Holds(obs_, CornerOf(obs_, c), point)) =>
         Holds(obs_, corner, point)

(* A grid exchanged between two conversions does not lead out of the one   *)
(* the second uses: both clamp; index2Cell needs an int to count its cells *)
(* (obstacle_distance_interface.cpp:85-117).                               *)
ClampedToItsGrid ==
  [][Cells(obs_) # {} =>
       /\ reader = "cell" /\ reader' = "index" => index' < obs_.width * obs_.height
       /\ reader = "index" /\ reader' = "back" /\ Countable(obs_) =>
            cell' \in Cells(obs_)]_vars

(* On a grid whose array is complete computeObstacle either throws or      *)
(* answers with the way from the corner of a cell of the grid, one that    *)
(* the grid names at some cell; for a point that a cell of the grid holds  *)
(* it is the one named there, if that is one.  A point in no cell is       *)
(* refused, or taken for the first row or column where negative numbers    *)
(* become zero (optimizer.cpp:703-758).                                    *)
Complete(grid) ==
  grid.width * grid.height < Modulus /\ Len(grid.indexes) >= grid.width * grid.height

NamedAt(grid, c)   == grid.indexes[c[1] + c[2] * grid.width + 1]
NamesCell(grid, c) == NamedAt(grid, c) \in 0 .. grid.width * grid.height - 1

WayFrom(grid, n, p, o) ==
  /\ o.kind = "vector"
  /\ NamedCell(grid, n) \in Cells(grid)
  /\ CornerOf(grid, NamedCell(grid, n)) = <<p[1] - o.diff[1], p[2] - o.diff[2]>>

ObstacleNamedAtPoint ==
  reader = "asked" /\ Complete(od) =>
    /\ obstacle.kind # "undefined"
    /\ obstacle.kind = "vector" =>
         \E c \in Cells(od) : NamesCell(od, c) /\ WayFrom(od, NamedAt(od, c), point, obstacle)
    /\ \A c \in Cells(od) :
         Holds(od, CornerOf(od, c), point) /\ NamesCell(od, c)
         => WayFrom(od, NamedAt(od, c), point, obstacle)
=============================================================================
