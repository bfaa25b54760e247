----------------------------- MODULE MCSession -----------------------------
(***************************************************************************)
(* A session of two order clients.  In the auto mode, where a subscriber   *)
(* listens, they send one order each; in the others client 2 sends up to   *)
(* three, the last of which may kill the two before it.                    *)
(***************************************************************************)
EXTENDS Session

Orders == [c \in Client |-> 1]
Ops == [c \in Client |-> IF c = 1 THEN 1 ELSE 3]
=============================================================================
