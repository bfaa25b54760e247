------------------------------ MODULE MCLadder ------------------------------
(* Three words; ticks on both sides of every word boundary and at both ends *)
(* of the band.                                                             *)
EXTENDS Ladder
BoundaryTicks == {2, 3, 64, 65, 66, 129, 130, 141}
=============================================================================
