----------------------------- MODULE NaiveBook -----------------------------
(***************************************************************************)
(* The reference engine of engines/naive_book.hpp, "whose semantics are    *)
(* what every other engine must reproduce": a sorted map of price levels   *)
(* per side, a plain list of orders per level, no index, no cached totals. *)
(* Here a side is a function from its occupied prices to sequences of      *)
(* orders.  The matching loop is cut into the same steps as in OrderBook,  *)
(* one per order consumed.  No self-trade prevention and no duplicate-id   *)
(* check, as in the code.                                                  *)
(***************************************************************************)
EXTENDS Integers, Sequences, SequencesExt, FiniteSetsExt

CONSTANTS OrderId, nil, Owner, Ungrouped, PriceArg, QtyArg, protection_

Side == {"Bid", "Ask"}
Tif == {"GTC", "IOC", "FOK"}
kNoPrice == 0

VARIABLES
    book,    \* bids_ and asks_
    pc, op,  \* the current call
    filled,  \* match: quantity traded so far
    it,      \* match: price of the level at opposite.begin()
    tape,    \* the on_trade callbacks of the call
    res      \* what it returns

vars == <<book, pc, op, filled, it, tape, res>>

NoCall == [kind |-> "none", id |-> nil, side |-> "Bid", px |-> kNoPrice,
           qty |-> 0, tif |-> "GTC", owner |-> Ungrouped]
NoResult == [filled |-> 0, rested |-> FALSE, rejected |-> FALSE,
             ok |-> FALSE, found |-> FALSE]
Trade(taker, maker, px, qty) ==
    [what |-> "trade", taker |-> taker, maker |-> maker, px |-> px, qty |-> qty]

opposite(s) == IF s = "Bid" THEN "Ask" ELSE "Bid"
crosses(s, b, px) == IF s = "Bid" THEN b <= px ELSE b >= px

\* begin()->first of a side: its comparator puts the best price first.
begin(s) ==
    IF DOMAIN book[s] = {} THEN kNoPrice
    ELSE IF s = "Bid" THEN Max(DOMAIN book[s]) ELSE Min(DOMAIN book[s])

\* The side with q as the level at px.
put(side, px, q) == [p \in DOMAIN side \cup {px} |-> IF p = px THEN q ELSE side[p]]
\* side.erase(it)
drop(side, px) == [p \in DOMAIN side \ {px} |-> side[p]]

rest(s, id, px, qty) ==
    LET lvl == IF px \in DOMAIN book[s] THEN book[s][px] ELSE << >>
    IN  [book EXCEPT ![s] = put(@, px, Append(lvl, [id |-> id, qty |-> qty]))]

\* Where an id rests: side, price and place in the level, by linear search.
find(id) ==
    UNION {UNION {{<<s, p, i>> : i \in {j \in DOMAIN book[s][p] : book[s][p][j].id = id}}
                     : p \in DOMAIN book[s]} : s \in Side}

erase_from(s, p, i) ==
    LET q == RemoveAt(book[s][p], i)
    IN  [book EXCEPT ![s] = IF q = << >> THEN drop(@, p) ELSE put(@, p, q)]

level_qty(q) == MapThenSumSet(LAMBDA i : q[i].qty, DOMAIN q)

crossable_qty(s, px) ==
    LET b == book[opposite(s)]
    IN  MapThenSumSet(LAMBDA p : level_qty(b[p]), {p \in DOMAIN b : crosses(s, p, px)})

-----------------------------------------------------------------------------
Init ==
    /\ book = [s \in Side |-> << >>]
    /\ pc = "idle" /\ op = NoCall /\ res = NoResult
    /\ filled = 0 /\ it = kNoPrice /\ tape = << >>

Return(o, r) ==
    op' = o /\ res' = r /\ pc' = "done" /\ UNCHANGED <<filled, it, tape>>

EnterMatch(o) ==
    op' = o /\ pc' = "outer" /\ UNCHANGED <<filled, it, tape, res>>

submit_limit(o) ==
    /\ pc = "idle"
    /\ UNCHANGED book
    /\ IF o.qty = 0 \/ o.px <= 0 \/ (o.tif = "FOK" /\ crossable_qty(o.side, o.px) < o.qty)
       THEN Return(o, [NoResult EXCEPT !.rejected = TRUE])
       ELSE EnterMatch(o)

\* The limit of a market order; without protection every price crosses.
market_limit(s) ==
    LET ref == begin(opposite(s))
    IN  IF protection_ > 0
        THEN IF s = "Bid" THEN ref + protection_ ELSE ref - protection_
        ELSE IF s = "Bid" THEN Max(PriceArg) + 1 ELSE Min(PriceArg)

submit_market(o) ==
    /\ pc = "idle"
    /\ o.px = market_limit(o.side)
    /\ UNCHANGED book
    /\ IF o.qty = 0 \/ (protection_ > 0 /\ begin(opposite(o.side)) = kNoPrice)
       THEN Return(o, NoResult)
       ELSE EnterMatch(o)

cancel(id) ==
    LET o == [NoCall EXCEPT !.kind = "cancel", !.id = id]
    IN  /\ pc = "idle" /\ op' = o
        /\ \/ find(id) = {} /\ UNCHANGED book /\ Return(o, NoResult)
           \/ \E w \in find(id) :
                 /\ book' = erase_from(w[1], w[2], w[3])
                 /\ Return(o, [NoResult EXCEPT !.ok = TRUE])

modify_found(o, s, p, i) ==
    IF o.px = p /\ o.qty <= book[s][p][i].qty
    THEN /\ book' = [book EXCEPT ![s][p][i].qty = o.qty]
         /\ Return(o, [NoResult EXCEPT !.found = TRUE, !.ok = TRUE, !.rested = TRUE])
    ELSE /\ book' = erase_from(s, p, i)
         /\ EnterMatch([o EXCEPT !.side = s])

modify(id, new_px, new_qty) ==
    LET o == [NoCall EXCEPT !.kind = "modify", !.id = id, !.px = new_px, !.qty = new_qty]
    IN  /\ pc = "idle" /\ op'.id = id
        /\ \/ find(id) = {} /\ UNCHANGED book /\ Return(o, NoResult)
           \/ \E w \in find(id) :
                 IF new_qty = 0 \/ new_px <= 0
                 THEN UNCHANGED book /\ Return(o, [NoResult EXCEPT !.found = TRUE])
                 ELSE modify_found(o, w[1], w[2], w[3])

LimitCall ==
    [kind : {"limit"}, id : OrderId, side : Side, px : PriceArg, qty : QtyArg, tif : Tif, owner : Owner]
MarketCall ==
    [kind : {"market"}, id : OrderId, side : Side, px : {market_limit(s) : s \in Side}, qty : QtyArg,
     tif : {"IOC"}, owner : Owner]

Call ==
    \/ op' \in LimitCall /\ submit_limit(op')
    \/ op' \in MarketCall /\ submit_market(op')
    \/ \E id \in OrderId : cancel(id)
    \/ \E id \in OrderId, new_px \in PriceArg, new_qty \in QtyArg : modify(id, new_px, new_qty)

-----------------------------------------------------------------------------
(* match *)

want == op.qty
opp == opposite(op.side)
level_ended == filled = want \/ book[opp][it] = << >>

\* while (filled < want && !opposite.empty()) { ... if (!crosses) break;
sweep_over == filled = want \/ begin(opp) = kNoPrice \/ ~crosses(op.side, begin(opp), op.px)

NextLevel ==
    /\ pc = "outer" /\ ~sweep_over
    /\ it' = begin(opp)
    /\ pc' = "inner"
    /\ UNCHANGED <<book, op, filled, tape, res>>

Fill ==
    /\ pc = "inner" /\ ~level_ended
    /\ LET q == book[opp][it]
           top == Head(q)
           take == Min({top.qty, want - filled})
       IN  /\ filled' = filled + take
           /\ tape' = Append(tape, Trade(op.id, top.id, it, take))
           /\ book' = [book EXCEPT ![opp] =
                 put(@, it, IF top.qty = take THEN Tail(q) ELSE [q EXCEPT ![1].qty = @ - take])]
    /\ UNCHANGED <<pc, op, it, res>>

EndLevel ==
    /\ pc = "inner" /\ level_ended
    /\ book' = IF book[opp][it] = << >> THEN [book EXCEPT ![opp] = drop(@, it)] ELSE book
    /\ pc' = "outer" /\ it' = kNoPrice
    /\ UNCHANGED <<op, filled, tape, res>>

Finish ==
    /\ pc = "outer" /\ sweep_over
    /\ LET rests == filled < want /\ op.tif = "GTC" /\ op.kind # "market"
       IN  /\ book' = IF rests THEN rest(op.side, op.id, op.px, want - filled) ELSE book
           /\ res' = [NoResult EXCEPT !.filled = filled, !.rested = rests,
                        !.ok = op.kind = "modify", !.found = op.kind = "modify"]
    /\ pc' = "done" /\ filled' = 0
    /\ UNCHANGED <<op, it, tape>>

Returned ==
    /\ pc = "done" /\ pc' = "idle"
    /\ op' = NoCall /\ res' = NoResult /\ tape' = << >>
    /\ UNCHANGED <<book, filled, it>>

Next == Call \/ NextLevel \/ Fill \/ EndLevel \/ Finish \/ Returned

Spec == Init /\ [][Next]_vars
=============================================================================
