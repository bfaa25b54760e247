------------------------------ MODULE MCIdMap ------------------------------
(***************************************************************************)
(* A small instance of the id map for TLC: 4 slots that grow to 8, instead *)
(* of 16 that grow on, with four keys.                                     *)
(***************************************************************************)
EXTENDS IdMap, TLC

Four == 1 .. 4

\* Every way the homes of the keys can lie around the end of the table, up to
\* the names of the keys: the map compares them for equality only.
WrapHashes ==
    {h \in [Key -> {6, 7, 0, 1}] : \A a, b \in Key : a < b => h[a] <= h[b]}
=============================================================================
