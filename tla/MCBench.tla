------------------------------ MODULE MCBench ------------------------------
(* The benchmark with one, two and three shards of four operations; the mid *)
(* price starts one tick above its lower limit.                             *)
EXTENDS Bench

Passive == {1, 8}
Aggressive == {0, 2}
=============================================================================
