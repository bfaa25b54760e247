----------------------------- MODULE MCGateway -----------------------------
(* Small instances of the gateway for TLC. *)
EXTENDS Gateway, TLC

\* The gateway compares client ids for equality only.
ClientSymmetry == Permutations(ClientId)

\* Kills take three orders, other calls two; two connections do for orders to
\* meet, and RejectIncoming has room for one that replaces a dead one.
Budget ==
    /\ stp_ # "CancelResting" => last_' < MaxId
    /\ stp_ # "RejectIncoming" => next_owner' <= MaxOwner

MCSpec == Init /\ [][Next /\ Budget]_vars
=============================================================================
