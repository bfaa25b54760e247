------------------------------- MODULE BookV1 -------------------------------
(***************************************************************************)
(* Engine v1 of engines/book_v1.hpp, "the final engine's structure without *)
(* its optimizations": a tree map of levels per side with the best price   *)
(* at begin(), a FIFO with cached totals per level, an index from ids to   *)
(* orders, and self-trade prevention, which the reference engine NaiveBook *)
(* lacks.  It is the specification of OrderBook with self-trade prevention *)
(* on.  A queue is the sequence of its orders: the links of v1's lists are *)
(* those of OrderBook and are examined there.  An Order* is the side and   *)
(* the price of the level it points back to.                               *)
(***************************************************************************)
EXTENDS Integers, Sequences, SequencesExt, FiniteSetsExt

CONSTANTS OrderId, nil, Owner, Ungrouped, PriceArg, QtyArg

Side == {"Bid", "Ask"}
Tif == {"GTC", "IOC", "FOK"}
Stp == {"None", "CancelResting", "RejectIncoming"}
kNoPrice == 0
\* The most aggressive limits there are.
kMaxPrice == Max(PriceArg) + 1
kMinPrice == Min(PriceArg)

VARIABLES
    stp_,     \* the policy the book was built with
    book,     \* bids_ and asks_: price -> Level
    orders_,  \* id -> Order*
    pc, op,   \* the current call
    filled, stopped,   \* match: MatchOutcome
    it,       \* match: price of the level at opp.begin()
    tape,     \* the callbacks of the call
    res       \* what it returns

vars == <<stp_, book, orders_, pc, op, filled, stopped, it, tape, res>>

NoLevel == [queue |-> << >>, total_qty |-> 0, count |-> 0]
NoCall == [kind |-> "none", id |-> nil, side |-> "Bid", px |-> kNoPrice,
           qty |-> 0, tif |-> "GTC", owner |-> Ungrouped]
NoResult == [filled |-> 0, rested |-> FALSE, rejected |-> FALSE,
             ok |-> FALSE, found |-> FALSE]
Trade(taker, maker, px, qty) ==
    [what |-> "trade", taker |-> taker, maker |-> maker, px |-> px, qty |-> qty]
Cancelled(id) == [what |-> "cancel", id |-> id]

opposite_book(s) == IF s = "Bid" THEN "Ask" ELSE "Bid"
crosses(s, book_px, limit_px) == IF s = "Bid" THEN book_px <= limit_px ELSE book_px >= limit_px

\* The first price of P in the order of side s.
first(s, P) == IF P = {} THEN kNoPrice ELSE IF s = "Bid" THEN Max(P) ELSE Min(P)
begin(s) == first(s, DOMAIN book[s])

put(f, k, v) == [x \in DOMAIN f \cup {k} |-> IF x = k THEN v ELSE f[x]]
drop(f, k) == [x \in DOMAIN f \ {k} |-> f[x]]

unlink(lvl, i) ==
    [queue |-> RemoveAt(lvl.queue, i),
     total_qty |-> lvl.total_qty - lvl.queue[i].qty,
     count |-> lvl.count - 1]

\* The place of an order in its level.
place(id) ==
    LET w == orders_[id]  q == book[w.side][w.price].queue
    IN  CHOOSE i \in DOMAIN q : q[i].id = id

\* The order leaves the index and its level, and an emptied level the book.
remove_from_book(id) ==
    LET w == orders_[id]
        l == unlink(book[w.side][w.price], place(id))
    IN  /\ book' = [book EXCEPT ![w.side] = IF l.queue = << >> THEN drop(@, w.price)
                                            ELSE put(@, w.price, l)]
        /\ orders_' = drop(orders_, id)

rest(s, id, px, qty, owner) ==
    LET l == IF px \in DOMAIN book[s] THEN book[s][px] ELSE NoLevel
    IN  /\ book' = [book EXCEPT ![s] =
              put(@, px, [queue |-> Append(l.queue, [id |-> id, qty |-> qty, owner |-> owner]),
                          total_qty |-> l.total_qty + qty,
                          count |-> l.count + 1])]
        /\ orders_' = put(orders_, id, [side |-> s, price |-> px])

own(owner, o) == owner # Ungrouped /\ o.owner = owner

\* Quantity available with the queue q, added to avail; -1 if RejectIncoming
\* would stop the taker there.
fok_level(q, avail, qty, owner) ==
    LET walk[i \in 1 .. (Len(q) + 1), a \in Nat] ==
          IF i > Len(q) \/ a >= qty THEN a
          ELSE IF ~own(owner, q[i]) THEN walk[i + 1, a + q[i].qty]
          ELSE IF stp_ = "RejectIncoming" THEN -1 ELSE walk[i + 1, a]
    IN  walk[1, avail]

fok_fillable(s, px, qty, owner) ==
    LET b == book[opposite_book(s)]
        levels[P \in SUBSET DOMAIN b, avail \in Nat] ==
          LET p == first(opposite_book(s), P)
              a == IF stp_ = "None" THEN avail + b[p].total_qty
                   ELSE fok_level(b[p].queue, avail, qty, owner)
          IN  IF p = kNoPrice \/ ~crosses(s, p, px) THEN avail >= qty
              ELSE a # -1 /\ (a >= qty \/ levels[P \ {p}, a])
    IN  levels[DOMAIN b, 0]

-----------------------------------------------------------------------------
Init ==
    /\ stp_ \in Stp
    /\ book = [s \in Side |-> << >>] /\ orders_ = << >>
    /\ pc = "idle" /\ op = NoCall /\ res = NoResult
    /\ filled = 0 /\ stopped = FALSE /\ it = kNoPrice /\ tape = << >>

Return(o, r) ==
    op' = o /\ res' = r /\ pc' = "done" /\ UNCHANGED <<filled, stopped, it, tape>>

EnterMatch(o) ==
    op' = o /\ pc' = "outer" /\ UNCHANGED <<filled, stopped, it, tape, res>>

submit_limit(o) ==
    /\ pc = "idle"
    /\ UNCHANGED <<book, orders_>>
    /\ IF \/ o.qty = 0 \/ o.px <= 0 \/ o.id \in DOMAIN orders_
          \/ o.tif = "FOK" /\ ~fok_fillable(o.side, o.px, o.qty, o.owner)
       THEN Return(o, [NoResult EXCEPT !.rejected = TRUE])
       ELSE EnterMatch(o)

\* A market order is a limit order without a price constraint.
submit_market(o) ==
    /\ pc = "idle"
    /\ o.px = IF o.side = "Bid" THEN kMaxPrice ELSE kMinPrice
    /\ UNCHANGED <<book, orders_>>
    /\ IF o.qty = 0 \/ o.id \in DOMAIN orders_ THEN Return(o, NoResult) ELSE EnterMatch(o)

cancel(id) ==
    LET o == [NoCall EXCEPT !.kind = "cancel", !.id = id]
    IN  /\ pc = "idle" /\ op' = o
        /\ IF id \in DOMAIN orders_
           THEN remove_from_book(id) /\ Return(o, [NoResult EXCEPT !.ok = TRUE])
           ELSE UNCHANGED <<book, orders_>> /\ Return(o, NoResult)

\* modify of an order that is found, at place i of level w.
modify_found(o, w, i) ==
    LET x == book[w.side][w.price].queue[i]
    IN  IF o.qty = 0 \/ o.px <= 0
        THEN UNCHANGED <<book, orders_>> /\ Return(o, [NoResult EXCEPT !.found = TRUE])
        ELSE IF o.px = w.price /\ o.qty <= x.qty
        THEN /\ book' = [book EXCEPT ![w.side][w.price].total_qty = @ - (x.qty - o.qty),
                                     ![w.side][w.price].queue[i].qty = o.qty]
             /\ UNCHANGED orders_
             /\ Return(o, [NoResult EXCEPT !.found = TRUE, !.ok = TRUE, !.rested = TRUE])
        ELSE /\ remove_from_book(o.id)
             /\ EnterMatch([o EXCEPT !.side = w.side, !.owner = x.owner])

modify(id, new_px, new_qty) ==
    LET o == [NoCall EXCEPT !.kind = "modify", !.id = id, !.px = new_px, !.qty = new_qty]
    IN  /\ pc = "idle" /\ op'.id = id
        /\ IF id \in DOMAIN orders_ THEN modify_found(o, orders_[id], place(id))
           ELSE UNCHANGED <<book, orders_>> /\ Return(o, NoResult)

LimitCall ==
    [kind : {"limit"}, id : OrderId, side : Side, px : PriceArg, qty : QtyArg, tif : Tif, owner : Owner]
MarketCall ==
    [kind : {"market"}, id : OrderId, side : Side, px : {kMaxPrice, kMinPrice}, qty : QtyArg,
     tif : {"IOC"}, owner : Owner]

Call ==
    \/ op' \in LimitCall /\ submit_limit(op')
    \/ op' \in MarketCall /\ submit_market(op')
    \/ \E id \in OrderId : cancel(id)
    \/ \E id \in OrderId, new_px \in PriceArg, new_qty \in QtyArg : modify(id, new_px, new_qty)

-----------------------------------------------------------------------------
(* match and the rest of execute *)

want == op.qty
opp == opposite_book(op.side)
lvl == book[opp][it]
top == Head(lvl.queue)
level_ended == stopped \/ filled = want \/ lvl.queue = << >>
sweep_over ==
    stopped \/ filled = want \/ begin(opp) = kNoPrice \/ ~crosses(op.side, begin(opp), op.px)

NextLevel ==
    /\ pc = "outer" /\ ~sweep_over
    /\ it' = begin(opp) /\ pc' = "inner"
    /\ UNCHANGED <<book, orders_, op, filled, stopped, tape, res>>

self_trade == own(op.owner, top) /\ stp_ # "None"

Stop ==
    /\ pc = "inner" /\ ~level_ended
    /\ self_trade /\ stp_ = "RejectIncoming"
    /\ stopped' = TRUE
    /\ UNCHANGED <<book, orders_, pc, op, filled, it, tape, res>>

Kill ==
    /\ pc = "inner" /\ ~level_ended
    /\ self_trade /\ stp_ = "CancelResting"
    /\ tape' = Append(tape, Cancelled(top.id))
    /\ orders_' = drop(orders_, top.id)
    /\ book' = [book EXCEPT ![opp][it] = unlink(@, 1)]
    /\ UNCHANGED <<pc, op, filled, stopped, it, res>>

Fill ==
    LET take == Min({top.qty, want - filled})
        less == [lvl EXCEPT !.queue[1].qty = @ - take, !.total_qty = @ - take]
    IN  /\ pc = "inner" /\ ~level_ended
        /\ ~self_trade
        /\ filled' = filled + take
        /\ tape' = Append(tape, Trade(op.id, top.id, it, take))
        /\ book' = [book EXCEPT ![opp][it] = IF take = top.qty THEN unlink(less, 1) ELSE less]
        /\ orders_' = IF take = top.qty THEN drop(orders_, top.id) ELSE orders_
        /\ UNCHANGED <<pc, op, stopped, it, res>>

EndLevel ==
    /\ pc = "inner" /\ level_ended
    /\ book' = IF lvl.queue = << >> THEN [book EXCEPT ![opp] = drop(@, it)] ELSE book
    /\ pc' = "outer" /\ it' = kNoPrice
    /\ UNCHANGED <<orders_, op, filled, stopped, tape, res>>

rests == ~stopped /\ filled < want /\ op.tif = "GTC" /\ op.kind # "market"

\* Only submit_limit reports a rejection; modify drops it.
result ==
    [NoResult EXCEPT !.filled = filled, !.rested = rests,
       !.rejected = op.kind = "limit" /\ stopped /\ filled = 0,
       !.ok = op.kind = "modify", !.found = op.kind = "modify"]

Finish ==
    /\ pc = "outer" /\ sweep_over
    /\ IF rests THEN rest(op.side, op.id, op.px, want - filled, op.owner)
       ELSE UNCHANGED <<book, orders_>>
    /\ res' = result
    /\ pc' = "done" /\ filled' = 0
    /\ UNCHANGED <<op, stopped, it, tape>>

Returned ==
    /\ pc = "done" /\ pc' = "idle"
    /\ op' = NoCall /\ res' = NoResult /\ tape' = << >> /\ stopped' = FALSE
    /\ UNCHANGED <<book, orders_, filled, it>>

Next ==
    /\ Call \/ NextLevel \/ Stop \/ Kill \/ Fill \/ EndLevel \/ Finish \/ Returned
    /\ UNCHANGED stp_

Spec == Init /\ [][Next]_vars
=============================================================================
