---------------------------- MODULE Differential ----------------------------
(***************************************************************************)
(* The optimised engine reproduces the simpler ones: what                  *)
(* tests/differential_test.cpp samples, for every sequence of calls.       *)
(* OrderBook implements NaiveBook when self-trade prevention is off, and   *)
(* BookV1 when market protection is off, step for step: same callbacks in  *)
(* the same order, same results, same book.                                *)
(*                                                                         *)
(* Some calls OrderBook refuses are outside the contract of the others,    *)
(* which know no id 0 and no upper end of the band; the reference engine   *)
(* does not look for duplicate ids either.  Such a call is no step at all  *)
(* of the simpler engine.                                                  *)
(***************************************************************************)
EXTENDS OrderBook

\* A level's list, walked from its head, as the simpler engines keep it.
naive_queue(s, p) ==
    LET walk[x \in Ptr] ==
          IF x = nil THEN << >>
          ELSE <<[id |-> x, qty |-> mem[x].qty]>> \o walk[mem[x].next]
    IN  walk[level[s][p].head]

v1_level(s, p) ==
    LET walk[x \in Ptr] ==
          IF x = nil THEN << >>
          ELSE <<[id |-> x, qty |-> mem[x].qty, owner |-> mem[x].owner]>> \o walk[mem[x].next]
    IN  [queue |-> walk[level[s][p].head],
         total_qty |-> level[s][p].total_qty,
         count |-> level[s][p].count]

\* OrderBook has refused a call that none of the simpler engines may get.
refused ==
    pc = "done" /\ (op.id = nil \/ (op.kind \in {"limit", "modify"} /\ op.px >= band_hi))
\* The same for one that repeats the id of a resting order.
refused_duplicate ==
    pc = "done" /\ op.kind \in {"limit", "market"} /\ op.id \in index /\ ~res.rested

\* The pre-check is no step of the simpler engines: they have taken the call
\* when OrderBook knows its answer.
prechecks == pc \in {"fok", "walk"}

shown(hide, shown_pc) ==
    IF hide \/ prechecks THEN [pc |-> "idle", op |-> NoCall, res |-> NoResult]
    ELSE [pc |-> IF shown_pc = "after" THEN "inner" ELSE shown_pc, op |-> op, res |-> res]

sweeping == pc \in {"outer", "inner", "after"}

Naive == INSTANCE NaiveBook WITH
    book   <- [s \in Side |-> [p \in bits[s] |-> naive_queue(s, p)]],
    pc     <- shown(refused \/ refused_duplicate, pc).pc,
    op     <- shown(refused \/ refused_duplicate, pc).op,
    res    <- shown(refused \/ refused_duplicate, pc).res,
    filled <- IF sweeping THEN op.qty - remaining ELSE 0,
    it     <- IF prechecks THEN kNoPrice ELSE lvl,
    PriceArg <- (band_lo - 1) .. (band_hi - 1),
    QtyArg <- Qty

\* Every step of the engine is a step of the reference engine, or none: the
\* trades, the results and the queues agree at every moment of every call.
ReproducesNaive == Naive!Spec

V1 == INSTANCE BookV1 WITH
    book   <- [s \in Side |-> [p \in bits[s] |-> v1_level(s, p)]],
    orders_ <- [x \in index |-> [side |-> mem[x].side, price |-> mem[x].price]],
    pc     <- shown(refused, pc).pc,
    op     <- shown(refused, pc).op,
    res    <- shown(refused, pc).res,
    filled <- IF sweeping THEN op.qty - remaining ELSE 0,
    it     <- IF prechecks THEN kNoPrice ELSE lvl,
    PriceArg <- (band_lo - 1) .. (band_hi - 1),
    QtyArg <- Qty

\* With self-trade prevention too every step of the engine is a step of the
\* simplest engine that has it, or none: kills, stops, trades, cached totals,
\* results and the queues agree at every moment of every call.
ReproducesV1 == V1!Spec
=============================================================================
