---------------------------- MODULE MCPooledBook ----------------------------
(* A small instance of the pooled engines for TLC: two ticks, a pool of one *)
(* slot that grows to three.                                                *)
EXTENDS PooledBook, TLC

Prices == 1 .. 2
Qtys == 1 .. 2

\* Both loops with kills, the one of v4 also with stops.
MCInit == BookInit /\ stp_ # "None" /\ (version = 2 => stp_ = "CancelResting")

MCSpec == MCInit /\ [][BookNext]_book_vars

\* Ids are opaque to the engine: it only compares them for equality.
IdSymmetry == Permutations(OrderId)
=============================================================================
