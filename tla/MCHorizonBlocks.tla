-------------------------- MODULE MCHorizonBlocks --------------------------
(***************************************************************************)
(* Every path length up to 7 steps against horizons and block lengths that *)
(* are longer, equal and shorter, that divide and that do not.             *)
(***************************************************************************)
EXTENDS HorizonBlocks

MCSteps    == 1 .. 7
MCHorizons == {1, 4, 5, 6, 9}
MCLengths  == {1, 2, 3, 6}

\* The shipped parameters: 18 steps in blocks of 6, shorter near the goal.
ShippedSteps    == 5 .. 18
ShippedHorizons == {18}
ShippedLengths  == {6}
=============================================================================
