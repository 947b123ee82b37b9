----------------------------- MODULE BlockIndex -----------------------------
(***************************************************************************)
(* Which velocity block drives which time step.  The horizon h is cut into *)
(* blocks of length b; steps at or beyond h use the last block.  Steps and *)
(* blocks are numbered from 0, as in optimizer.cpp and update_state.hpp.   *)
(***************************************************************************)
EXTENDS Integers

AtMost(configured, limit) == IF configured <= limit THEN configured ELSE limit

\* The block that the rollouts apply at step t.
BlockOf(t, h, b) == IF t < h THEN t \div b ELSE (h - 1) \div b

\* The blocks a rollout up to and including step t reads.
RolloutReads(t, h, b) == {BlockOf(j, h, b) : j \in 0 .. t}

\* Parameter blocks that a cost function of step t declares.
NumParamBlocks(t, h, b) ==
  IF t < h THEN (t \div b) + 1 ELSE ((h - 1) \div b) + 1

\* Mutant of NumBlocks: a block that ends with the horizon is not counted.
NumBlocksBelow(h, b) == (h - 1) \div b

\* num_blocks of optimize(): whole blocks only.
NumBlocks(h, b) == h \div b
=============================================================================
