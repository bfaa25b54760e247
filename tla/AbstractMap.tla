---------------------------- MODULE AbstractMap ----------------------------
(***************************************************************************)
(* What IdMap promises: a partial function from keys to values with        *)
(* insert, erase and find, each of which takes effect at one moment        *)
(* between its call and its return.                                        *)
(***************************************************************************)
CONSTANTS Key, Val, null

VARIABLES
    map,  \* the partial function
    op,   \* the call being answered
    ret   \* its answer, once it has one

vars == <<map, op, ret>>

Call == [kind : {"find", "erase"}, k : Key, v : {null}]
            \cup [kind : {"insert"}, k : Key, v : Val]
NoCall == [kind |-> "none", k |-> null, v |-> null]
NoAnswer == "none"

Init == map = << >> /\ op = NoCall /\ ret = NoAnswer

Invoke == op = NoCall /\ op' \in Call /\ UNCHANGED <<map, ret>>

Pending(kind) == op.kind = kind /\ ret = NoAnswer

\* A present key is not replaced.
Insert ==
    /\ Pending("insert")
    /\ ret' = IF op.k \in DOMAIN map THEN "false" ELSE "true"
    /\ map' = [k \in DOMAIN map \cup {op.k} |-> IF k \in DOMAIN map THEN map[k] ELSE op.v]
    /\ UNCHANGED op

Erase ==
    /\ Pending("erase")
    /\ ret' = IF op.k \in DOMAIN map THEN "true" ELSE "false"
    /\ map' = [k \in DOMAIN map \ {op.k} |-> map[k]]
    /\ UNCHANGED op

Find ==
    /\ Pending("find")
    /\ ret' = IF op.k \in DOMAIN map THEN map[op.k] ELSE null
    /\ UNCHANGED <<map, op>>

Return == ret # NoAnswer /\ op' = NoCall /\ ret' = NoAnswer /\ UNCHANGED map

Next == Invoke \/ Insert \/ Erase \/ Find \/ Return

Spec == Init /\ [][Next]_vars
=============================================================================
