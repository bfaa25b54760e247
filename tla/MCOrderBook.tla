---------------------------- MODULE MCOrderBook ----------------------------
(* Small instances of the matching engine for TLC. *)
EXTENDS Differential, TLC

\* Ids are opaque to the engine: it only compares them for equality.
IdSymmetry == Permutations(OrderId)
=============================================================================
