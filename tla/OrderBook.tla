----------------------------- MODULE OrderBook -----------------------------
(***************************************************************************)
(* The matching engine of include/lob/order_book.hpp: price-time priority  *)
(* for one instrument, single-threaded.  A public call (submit_limit,      *)
(* submit_market, cancel, modify) is one action when it returns at once    *)
(* and a sequence of actions when it enters the matching loop: pc says     *)
(* where in OrderBookT::match the engine stands, so that every             *)
(* intermediate state of the intrusive lists, the level totals, the        *)
(* occupancy bitmap, the cached best tick and the id map is a state of the *)
(* model.                                                                  *)
(*                                                                         *)
(* An Order* is represented by the id of the order that lives there: the   *)
(* addresses are the business of Pool, the probe sequences behind `index'  *)
(* that of IdMap, the 64-bit words behind `bits' that of Ladder.           *)
(***************************************************************************)
EXTENDS Integers, Sequences, FiniteSets

CONSTANTS
    OrderId,      \* the ids clients use, all different from 0
    nil,          \* OrderId 0, and nullptr
    Owner,        \* the owner groups of self-trade prevention
    Ungrouped,    \* owner 0, exempt from self-trade prevention
    band_lo,      \* the band is [band_lo, band_hi)
    band_hi,
    MaxQty,       \* bound: the largest quantity a call may name
    stp_,         \* the self-trade policy the book was built with
    protection_   \* market_protection_ticks, 0 = off

Side  == {"Bid", "Ask"}
Tif   == {"GTC", "IOC", "FOK"}
Stp   == {"None", "CancelResting", "RejectIncoming"}
Price == band_lo .. (band_hi - 1)
Qty   == 0 .. MaxQty

\* Valid prices are positive, so 0 says "this side is empty".
kNoPrice == 0
\* The limits of an unprotected market order: every tick of the band crosses.
kMaxPrice == band_hi
kMinPrice == band_lo - 1

ASSUME NilAssumption == nil \notin OrderId
ASSUME OwnerAssumption == Ungrouped \in Owner
ASSUME BandAssumption ==
    band_lo \in Nat /\ band_hi \in Nat /\ 1 <= band_lo /\ band_lo < band_hi
ASSUME QtyAssumption == MaxQty \in Nat \ {0}
ASSUME PolicyAssumption == stp_ \in Stp /\ protection_ \in Nat

VARIABLES
    mem,       \* the Order fields in each slot
    pool,      \* the slots handed out by pool_ and not yet destroyed
    index,     \* the keys of the id map orders_
    level,     \* levels_ of bids_ and asks_
    bits,      \* words_: the occupancy bitmap
    best,      \* best_: the cached best tick
    older,     \* history: the orders of the same level that arrived earlier
    pc,        \* where the engine stands in the current call
    op,        \* the current call and its arguments
    avail,     \* fok_fillable: quantity found so far
    remaining, \* match: quantity still wanted
    lvl,       \* fok_fillable, match: price of the level being read or consumed
    cur,       \* fok_fillable, match: the pointer o
    stopped,   \* match: m.stp_stopped
    tape,      \* the listener callbacks of the current call
    res        \* what the call returns

book == <<mem, pool, index, level, bits, best, older>>
call == <<pc, op, avail, remaining, lvl, cur, stopped, tape, res>>
vars == <<book, call>>

Ptr   == OrderId \cup {nil}
Order == [qty : Qty, owner : Owner, next : Ptr, prev : Ptr,
          price : Price, side : Side]
Level == [head : Ptr, tail : Ptr, total_qty : Int, count : Int]
\* A destroyed slot.  What it really holds is undefined; the engine must not
\* look (ListsAreFifo, SweepSound), so one value stands for all.
Freed == [qty |-> 0, owner |-> Ungrouped, next |-> nil, prev |-> nil,
          price |-> band_lo, side |-> "Bid"]
EmptyLevel == [head |-> nil, tail |-> nil, total_qty |-> 0, count |-> 0]

Call == [kind : {"none", "limit", "market", "cancel", "modify"}, id : Ptr,
         side : Side, px : Int, qty : Qty, tif : Tif, owner : Owner]
NoCall == [kind |-> "none", id |-> nil, side |-> "Bid", px |-> kNoPrice,
           qty |-> 0, tif |-> "GTC", owner |-> Ungrouped]

\* on_trade(taker, maker, px, qty) and on_cancel(id, owner)
Trade(taker, maker, px, qty) ==
    [what |-> "trade", taker |-> taker, maker |-> maker, px |-> px, qty |-> qty]
Cancelled(id) == [what |-> "cancel", id |-> id]
Event == [what : {"trade"}, taker : Ptr, maker : Ptr, px : Int, qty : Int]
            \cup [what : {"cancel"}, id : Ptr]

\* The fields of SubmitResult and ModifyResult, and the bool cancel returns.
Result == [filled : Int, rested : BOOLEAN, rejected : BOOLEAN,
           ok : BOOLEAN, found : BOOLEAN]
NoResult == [filled |-> 0, rested |-> FALSE, rejected |-> FALSE,
             ok |-> FALSE, found |-> FALSE]

-----------------------------------------------------------------------------
(* Ladder *)

opposite(s) == IF s = "Bid" THEN "Ask" ELSE "Bid"
in_band(px) == px >= band_lo /\ px < band_hi
better(s, a, b) == IF s = "Bid" THEN a > b ELSE a < b

\* Mutant: equal prices do not trade.
Bug_crosses_strictly(s, book_px, limit_px) ==
    IF s = "Bid" THEN book_px < limit_px ELSE book_px > limit_px

\* crosses<S>(book_px, limit_px): S is the side of the taker.
crosses(s, book_px, limit_px) ==
    IF s = "Bid" THEN book_px <= limit_px ELSE book_px >= limit_px

\* The first occupied price strictly worse than `from', over the bitmap B.
scan_worse(s, from, B) ==
    LET worse == {p \in B : better(s, from, p)}
    IN  IF worse = {} THEN kNoPrice
        ELSE CHOOSE p \in worse : \A q \in worse : ~better(s, q, p)

\* Mutant: the newly occupied tick always becomes the best.
Bug_on_nonempty_takes_over(s, px) ==
    /\ bits' = [bits EXCEPT ![s] = @ \cup {px}]
    /\ best' = [best EXCEPT ![s] = px]

on_nonempty(s, px) ==
    /\ bits' = [bits EXCEPT ![s] = @ \cup {px}]
    /\ best' = [best EXCEPT ![s] =
                  IF @ = kNoPrice \/ better(s, px, @) THEN px ELSE @]

\* Mutant: the cached best is not rescanned.
Bug_on_empty_keeps_best(s, px) ==
    bits' = [bits EXCEPT ![s] = @ \ {px}] /\ UNCHANGED best

on_empty(s, px) ==
    /\ bits' = [bits EXCEPT ![s] = @ \ {px}]
    /\ best' = [best EXCEPT ![s] =
                  IF @ = px THEN scan_worse(s, px, bits[s] \ {px}) ELSE @]

-----------------------------------------------------------------------------
(* The intrusive FIFO of a level *)

\* Mutant: the successor keeps its link to the order that left.
Bug_unlink_one_way(o) ==
    [x \in OrderId |->
        IF x = o THEN Freed
        ELSE [mem[x] EXCEPT !.next = IF x = mem[o].prev THEN mem[o].next ELSE @]]

unlink_mem(o) ==
    [x \in OrderId |->
        IF x = o THEN Freed
        ELSE [mem[x] EXCEPT
                !.next = IF x = mem[o].prev THEN mem[o].next ELSE @,
                !.prev = IF x = mem[o].next THEN mem[o].prev ELSE @]]

unlink_level(l, o) ==
    [head |-> IF mem[o].prev = nil THEN mem[o].next ELSE l.head,
     tail |-> IF mem[o].next = nil THEN mem[o].prev ELSE l.tail,
     total_qty |-> l.total_qty - mem[o].qty,
     count |-> l.count - 1]

\* Mutant: the id map is not told.
Bug_take_off_keeps_id(s, p, o) ==
    /\ mem' = unlink_mem(o)
    /\ level' = [level EXCEPT ![s][p] = unlink_level(@, o)]
    /\ pool' = pool \ {o}
    /\ older' = [x \in OrderId |-> IF x = o THEN {} ELSE older[x] \ {o}]
    /\ UNCHANGED index

\* orders_.erase(o->id); unlink(lvl, o); pool_.destroy(o)
take_off(s, p, o) ==
    /\ mem' = unlink_mem(o)
    /\ level' = [level EXCEPT ![s][p] = unlink_level(@, o)]
    /\ index' = index \ {o}
    /\ pool' = pool \ {o}
    /\ older' = [x \in OrderId |-> IF x = o THEN {} ELSE older[x] \ {o}]

\* cancel and modify: take the order off and refresh the ladder if that
\* emptied its level.
remove_from_book(o) ==
    LET s == mem[o].side  p == mem[o].price
    IN  /\ take_off(s, p, o)
        /\ IF unlink_level(level[s][p], o).head = nil
           THEN on_empty(s, p)
           ELSE UNCHANGED <<bits, best>>

members(s, p) == {o \in pool : mem[o].side = s /\ mem[o].price = p}

rest_mem(id, s, px, qty, owner) ==
    LET tail == level[s][px].tail
    IN  [x \in OrderId |->
           IF x = id THEN [qty |-> qty, owner |-> owner, next |-> nil,
                           prev |-> tail, price |-> px, side |-> s]
           ELSE IF x = tail THEN [mem[x] EXCEPT !.next = id] ELSE mem[x]]

rest_level(l, id, qty) ==
    [head |-> IF l.tail = nil THEN id ELSE l.head,
     tail |-> id,
     total_qty |-> l.total_qty + qty,
     count |-> l.count + 1]

rest(id, s, px, qty, owner) ==
    /\ mem' = rest_mem(id, s, px, qty, owner)
    /\ level' = [level EXCEPT ![s][px] = rest_level(@, id, qty)]
    /\ index' = index \cup {id}
    /\ pool' = pool \cup {id}
    /\ older' = [older EXCEPT ![id] = members(s, px)]
    /\ IF level[s][px].head = nil
       THEN on_nonempty(s, px)
       ELSE UNCHANGED <<bits, best>>

\* The taker and a resting order belong to the same owner group.
own(owner, o) == owner # Ungrouped /\ mem[o].owner = owner

-----------------------------------------------------------------------------
(* The public calls *)

Init ==
    /\ mem = [o \in OrderId |-> Freed]
    /\ pool = {}
    /\ index = {}
    /\ level = [s \in Side |-> [p \in Price |-> EmptyLevel]]
    /\ bits = [s \in Side |-> {}]
    /\ best = [s \in Side |-> kNoPrice]
    /\ older = [o \in OrderId |-> {}]
    /\ pc = "idle"
    /\ op = NoCall
    /\ avail = 0
    /\ remaining = 0
    /\ lvl = kNoPrice
    /\ cur = nil
    /\ stopped = FALSE
    /\ tape = << >>
    /\ res = NoResult

\* The call returns r without having entered match.
Return(o, r) ==
    /\ op' = o
    /\ res' = r
    /\ pc' = "done"
    /\ UNCHANGED <<remaining, lvl, cur, stopped, tape>>

\* The call enters match<S>(id, px, qty, owner).
EnterMatch(o) ==
    /\ op' = o
    /\ remaining' = o.qty
    /\ pc' = "outer"
    /\ UNCHANGED <<lvl, cur, stopped, tape, res>>

\* The call enters fok_fillable<S>(px, qty, owner), at opp.best().
EnterFok(o) ==
    /\ op' = o
    /\ lvl' = best[opposite(o.side)]
    /\ pc' = "fok"
    /\ UNCHANGED <<remaining, cur, stopped, tape, res>>

Rejection == [NoResult EXCEPT !.rejected = TRUE]

\* Mutant: ids that alias a resting order are accepted.
Bug_limit_duplicates(o) == o.id # nil /\ o.qty # 0 /\ in_band(o.px)

limit_valid(o) == o.id # nil /\ o.qty # 0 /\ in_band(o.px) /\ o.id \notin index

submit_limit(id, side, px, qty, tif, owner) ==
    LET o == [kind |-> "limit", id |-> id, side |-> side, px |-> px, qty |-> qty,
              tif |-> tif, owner |-> owner]
    IN  /\ pc = "idle"
        /\ UNCHANGED book
        /\ IF ~limit_valid(o) THEN Return(o, Rejection)
           ELSE IF tif = "FOK" THEN EnterFok(o) ELSE EnterMatch(o)

\* Mutant: the cap is off by one.
Bug_market_limit_off_by_one(s) ==
    LET ref == best[opposite(s)]
    IN  IF s = "Bid" THEN ref + protection_ + 1 ELSE ref - protection_ - 1

\* The limit price of a market order on side s.
market_limit(s) ==
    LET ref == best[opposite(s)]
    IN  IF protection_ > 0
        THEN IF s = "Bid" THEN ref + protection_ ELSE ref - protection_
        ELSE IF s = "Bid" THEN kMaxPrice ELSE kMinPrice

market_valid(o) ==
    /\ o.id # nil /\ o.qty # 0 /\ o.id \notin index
    /\ protection_ > 0 => best[opposite(o.side)] # kNoPrice

submit_market(id, side, qty, owner) ==
    LET o == [kind |-> "market", id |-> id, side |-> side, px |-> market_limit(side),
              qty |-> qty, tif |-> "IOC", owner |-> owner]
    IN  /\ pc = "idle"
        /\ UNCHANGED book
        /\ IF market_valid(o) THEN EnterMatch(o) ELSE Return(o, NoResult)

cancel(id) ==
    LET o == [NoCall EXCEPT !.kind = "cancel", !.id = id]
    IN  /\ pc = "idle"
        /\ IF id \in index
           THEN remove_from_book(id) /\ Return(o, [NoResult EXCEPT !.ok = TRUE])
           ELSE UNCHANGED book /\ Return(o, NoResult)

amend_valid(o) == o.qty # 0 /\ in_band(o.px)

\* Mutant: a size increase keeps its place too.
Bug_increase_keeps_priority(o) == o.px = mem[o.id].price

keeps_priority(o) == o.px = mem[o.id].price /\ o.qty <= mem[o.id].qty

\* Mutant: the level total is not adjusted.
Bug_amend_forgets_total(o) ==
    /\ mem' = [mem EXCEPT ![o.id].qty = o.qty]
    /\ UNCHANGED <<pool, index, level, bits, best, older>>

amend_in_place(o) ==
    LET m == mem[o.id]
    IN  /\ level' = [level EXCEPT ![m.side][m.price].total_qty = @ - (m.qty - o.qty)]
        /\ mem' = [mem EXCEPT ![o.id].qty = o.qty]
        /\ UNCHANGED <<pool, index, bits, best, older>>

modify(id, new_px, new_qty) ==
    LET o == [NoCall EXCEPT !.kind = "modify", !.id = id, !.px = new_px, !.qty = new_qty]
    IN  /\ pc = "idle"
        /\ IF id \notin index
           THEN UNCHANGED book /\ Return(o, NoResult)
           ELSE IF ~amend_valid(o)
           THEN UNCHANGED book /\ Return(o, [NoResult EXCEPT !.found = TRUE])
           ELSE IF keeps_priority(o)
           THEN /\ amend_in_place(o)
                /\ Return(o, [NoResult EXCEPT !.found = TRUE, !.ok = TRUE, !.rested = TRUE])
           ELSE \* cancel plus a fresh GTC arrival
                /\ remove_from_book(id)
                /\ EnterMatch([o EXCEPT !.side = mem[id].side, !.owner = mem[id].owner])

opp_side == opposite(op.side)

-----------------------------------------------------------------------------
(* fok_fillable<S, StpOn>: the fill-or-kill pre-check *)

\* It returns, and execute goes on to match or rejects the order.
FokReturns(fillable) ==
    /\ IF fillable THEN pc' = "outer" /\ remaining' = op.qty /\ UNCHANGED res
       ELSE pc' = "done" /\ res' = Rejection /\ UNCHANGED remaining
    /\ avail' = 0 /\ lvl' = kNoPrice /\ cur' = nil
    /\ UNCHANGED <<op, stopped, tape>>

fok_in_reach == lvl # kNoPrice /\ crosses(op.side, lvl, op.px)

\* No level is left, or none within the limit.
FokEnd ==
    /\ pc = "fok" /\ ~fok_in_reach
    /\ FokReturns(avail >= op.qty)

\* Mutant: a pre-check of the best level only.
Bug_fok_best_level_only(found) == FokReturns(found >= op.qty)

\* `found' is what there is up to the end of this level.
fok_level_read(found) ==
    IF found >= op.qty THEN FokReturns(TRUE)
    ELSE /\ avail' = found
         /\ lvl' = scan_worse(opp_side, lvl, bits[opp_side])
         /\ cur' = nil /\ pc' = "fok"
         /\ UNCHANGED <<op, remaining, stopped, tape, res>>

\* Without self-trade prevention the cached total is enough.
FokTotal ==
    /\ pc = "fok" /\ fok_in_reach /\ stp_ = "None"
    /\ fok_level_read(avail + level[opp_side][lvl].total_qty)

\* Mutant: the instantiation without self-trade prevention is called.
Bug_fok_ignores_owners ==
    /\ pc = "fok" /\ fok_in_reach /\ stp_ # "None"
    /\ fok_level_read(avail + level[opp_side][lvl].total_qty)

FokWalk ==
    /\ pc = "fok" /\ fok_in_reach /\ stp_ # "None"
    /\ cur' = level[opp_side][lvl].head
    /\ pc' = "walk"
    /\ UNCHANGED <<op, avail, remaining, lvl, stopped, tape, res>>

\* RejectIncoming would stop the taker here.
fok_stops == stp_ = "RejectIncoming" /\ own(op.owner, cur)

FokOrder ==
    LET found == IF own(op.owner, cur) THEN avail ELSE avail + mem[cur].qty
    IN  /\ pc = "walk" /\ cur # nil
        /\ IF fok_stops THEN FokReturns(FALSE)
           ELSE IF found >= op.qty THEN FokReturns(TRUE)
           ELSE /\ avail' = found /\ cur' = mem[cur].next
                /\ UNCHANGED <<pc, op, remaining, lvl, stopped, tape, res>>

FokLevelEnd ==
    /\ pc = "walk" /\ cur = nil
    /\ fok_level_read(avail)

PreCheck == FokEnd \/ FokTotal \/ FokWalk \/ FokOrder \/ FokLevelEnd

-----------------------------------------------------------------------------
(* match<S, StpOn> *)

\* The conditions under which the outer loop ends.
sweep_over ==
    \/ stopped
    \/ remaining = 0
    \/ best[opp_side] = kNoPrice
    \/ ~crosses(op.side, best[opp_side], op.px)

NextLevel ==
    /\ pc = "outer"
    /\ ~sweep_over
    /\ lvl' = best[opp_side]
    /\ cur' = level[opp_side][lvl'].head
    /\ pc' = "inner"
    /\ UNCHANGED <<book, op, remaining, stopped, tape, res>>

\* Mutant: ownership is looked at once per taker, not once per fill.
Bug_self_trade_checked_once == stp_ # "None" /\ own(op.owner, cur) /\ remaining = op.qty

self_trade == stp_ # "None" /\ own(op.owner, cur)

\* RejectIncoming: the taker stops at its own resting order.
StpStop ==
    /\ pc = "inner" /\ cur # nil
    /\ self_trade
    /\ stp_ = "RejectIncoming"
    /\ stopped' = TRUE
    /\ pc' = "after"
    /\ UNCHANGED <<book, op, remaining, lvl, cur, tape, res>>

\* CancelResting: the resting order leaves unfilled and its owner is told.
StpKill ==
    /\ pc = "inner" /\ cur # nil
    /\ self_trade
    /\ stp_ = "CancelResting"
    /\ tape' = Append(tape, Cancelled(cur))
    /\ take_off(opp_side, lvl, cur)
    /\ cur' = mem[cur].next
    /\ UNCHANGED <<bits, best, pc, op, remaining, lvl, stopped, res>>

\* Mutant: one lot too many.
Bug_fully_fills_off_by_one == mem[cur].qty <= remaining + 1

\* The taker wants at least all of the maker.
fully_fills == mem[cur].qty <= remaining

PartialFill ==
    /\ pc = "inner" /\ cur # nil
    /\ ~self_trade
    /\ ~fully_fills
    /\ mem' = [mem EXCEPT ![cur].qty = @ - remaining]
    /\ level' = [level EXCEPT ![opp_side][lvl].total_qty = @ - remaining]
    /\ tape' = Append(tape, Trade(op.id, cur, lvl, remaining))
    /\ remaining' = 0
    /\ pc' = "after"
    /\ UNCHANGED <<pool, index, bits, best, older, op, lvl, cur, stopped, res>>

FullFill ==
    /\ pc = "inner" /\ cur # nil
    /\ ~self_trade
    /\ fully_fills
    /\ remaining' = remaining - mem[cur].qty
    /\ tape' = Append(tape, Trade(op.id, cur, lvl, mem[cur].qty))
    /\ take_off(opp_side, lvl, cur)
    /\ cur' = mem[cur].next
    /\ pc' = IF remaining' = 0 THEN "after" ELSE "inner"
    /\ UNCHANGED <<bits, best, op, lvl, stopped, res>>

\* The inner loop is over: refresh the ladder if the level was emptied.
EndLevel ==
    /\ pc = "after" \/ (pc = "inner" /\ cur = nil)
    /\ IF level[opp_side][lvl].head = nil
       THEN on_empty(opp_side, lvl)
       ELSE UNCHANGED <<bits, best>>
    /\ pc' = "outer"
    /\ lvl' = kNoPrice
    /\ cur' = nil
    /\ UNCHANGED <<mem, pool, index, level, older, op, remaining, stopped, tape, res>>

-----------------------------------------------------------------------------
(* The tail of execute, submit_market and modify *)

filled == op.qty - remaining

\* Mutant: the remainder of an IOC order rests.
Bug_ioc_rests == ~stopped /\ op.kind # "market" /\ remaining > 0 /\ op.tif # "FOK"

rests == ~stopped /\ op.kind # "market" /\ remaining > 0 /\ op.tif = "GTC"

\* Mutant: an STP stop after partial fills is reported as a rejection.
Bug_stop_is_rejection == stopped
stp_rejected == stopped /\ filled = 0

match_result(did_rest) ==
    CASE op.kind = "limit"  -> [NoResult EXCEPT !.filled = filled, !.rested = did_rest,
                                  !.rejected = stp_rejected]
      [] op.kind = "modify" -> [NoResult EXCEPT !.filled = filled, !.rested = did_rest,
                                  !.ok = TRUE, !.found = TRUE]
      [] OTHER              -> [NoResult EXCEPT !.filled = filled]

Finish ==
    /\ pc = "outer"
    /\ sweep_over
    /\ IF rests THEN rest(op.id, op.side, op.px, remaining, op.owner)
       ELSE UNCHANGED book
    /\ res' = match_result(rests)
    /\ pc' = "done"
    /\ UNCHANGED <<op, remaining, lvl, cur, stopped, tape>>

\* Control is back with the caller; the call's locals are gone.
Returned ==
    /\ pc = "done"
    /\ pc' = "idle"
    /\ op' = NoCall
    /\ remaining' = 0
    /\ stopped' = FALSE
    /\ tape' = << >>
    /\ res' = NoResult
    /\ UNCHANGED <<book, lvl, cur>>

Engine ==
    \/ NextLevel \/ StpStop \/ StpKill \/ PartialFill \/ FullFill \/ EndLevel
    \/ Finish \/ Returned

\* Prices a caller may name: the band and the ticks next to it.
CallPrice == (band_lo - 1) .. band_hi

Caller ==
    \/ \E id \in Ptr, side \in Side, px \in CallPrice, qty \in Qty, tif \in Tif, owner \in Owner :
          submit_limit(id, side, px, qty, tif, owner)
    \/ \E id \in Ptr, side \in Side, qty \in Qty, owner \in Owner :
          submit_market(id, side, qty, owner)
    \/ \E id \in Ptr : cancel(id)
    \/ \E id \in Ptr, new_px \in CallPrice, new_qty \in Qty : modify(id, new_px, new_qty)

Next ==
    \/ (Engine \/ Caller) /\ UNCHANGED avail
    \/ PreCheck /\ UNCHANGED book

Spec == Init /\ [][Next]_vars
-----------------------------------------------------------------------------
(* Properties *)

BookTypeOK ==
    /\ mem \in [OrderId -> Order]
    /\ pool \subseteq OrderId
    /\ index \subseteq OrderId
    /\ level \in [Side -> [Price -> Level]]
    /\ bits \in [Side -> SUBSET Price]
    /\ best \in [Side -> Price \cup {kNoPrice}]
    /\ older \in [OrderId -> SUBSET OrderId]

CallTypeOK ==
    /\ pc \in {"idle", "fok", "walk", "outer", "inner", "after", "done"}
    /\ op \in Call
    /\ remaining \in Qty
    /\ lvl \in Price \cup {kNoPrice}
    /\ cur \in Ptr
    /\ stopped \in BOOLEAN
    /\ tape \in Seq(Event)
    /\ res \in Result

\* The state has its type: an order's quantity stays in its range through
\* every fill and amend, and `remaining' never passes below zero.
TypeOK == BookTypeOK /\ CallTypeOK /\ avail \in Int

\* `older' orders the members of a level strictly and totally, by arrival.
ArrivalOrder ==
    /\ \A x \in pool : older[x] \subseteq members(mem[x].side, mem[x].price) \ {x}
    /\ \A x, y \in pool :
          x # y /\ y \in members(mem[x].side, mem[x].price)
            => (x \in older[y] <=> y \notin older[x])
    /\ \A x, y \in pool : y \in older[x] => older[y] \subseteq older[x]

\* head and tail of a level are the oldest and the newest order there.
ends_sound(s, p) ==
    LET l == level[s][p]  M == members(s, p)
    IN  IF M = {} THEN l.head = nil /\ l.tail = nil
        ELSE /\ l.head \in M /\ older[l.head] = {}
             /\ l.tail \in M /\ older[l.tail] = M \ {l.tail}

\* An order's links lead to its neighbours in arrival order.
node_sound(x) ==
    LET l == level[mem[x].side][mem[x].price]
        M == members(mem[x].side, mem[x].price)
        n == mem[x].next
        q == mem[x].prev
    IN  /\ IF n = nil THEN x = l.tail ELSE n \in M /\ older[n] = older[x] \cup {x}
        /\ IF q = nil THEN x = l.head ELSE q \in M /\ older[x] = older[q] \cup {q}
        /\ mem[x].qty > 0

\* Every level is a doubly linked list of its live orders in order of
\* arrival.  This is what check_side walks the lists for ("broken prev link",
\* "tail != last node", "order on wrong side", "zero-qty order resting"), and
\* no pointer of it leads to a destroyed order.
ListsAreFifo ==
    /\ \A s \in Side, p \in Price : ends_sound(s, p)
    /\ \A x \in pool : node_sound(x)

\* The number of unit lots the entries f[x], x \in S, are worth: the sum of
\* their quantities.
units(f, S) == UNION {{x} \X (1 .. f[x].qty) : x \in S}
lots(S) == Cardinality(units(mem, S))

\* A level's total_qty and count agree with the orders queued there, after
\* every fill, unlink, rest and in-place amend ("level total_qty wrong",
\* "level count wrong").
TotalsExact ==
    \A s \in Side, p \in Price :
        /\ level[s][p].total_qty = lots(members(s, p))
        /\ level[s][p].count = Cardinality(members(s, p))

\* match is consuming this level: it may have emptied it and not said so yet.
being_swept(s, p) == pc \in {"inner", "after"} /\ s = opp_side /\ p = lvl

\* The bit of a tick says whether an order rests there.
bit_sound(s, p) == p \in bits[s] <=> members(s, p) # {}

best_sound(s) ==
    IF bits[s] = {} THEN best[s] = kNoPrice
    ELSE best[s] \in bits[s] /\ \A p \in bits[s] : ~better(s, p, best[s])

\* The bitmap marks exactly the occupied ticks and the cached best tick is
\* the best of them ("bitmap out of sync with level", "cached best is
\* stale"); only the level match is consuming may be marked and empty.
LadderInSync ==
    \A s \in Side :
        /\ \A p \in Price : IF being_swept(s, p) THEN p \in bits[s] ELSE bit_sound(s, p)
        /\ best_sound(s)

\* The id map knows exactly the orders that are alive ("order missing from
\* id map", "id-map size != orders on book").
IndexInSync == index = pool

\* The state match keeps in locals across unlink and destroy stays true of
\* the book: the level being consumed is the best one and within the limit,
\* the walking pointer (the `next' saved before the unlink) is its head, and
\* the taker's id is not that of a resting order.
SweepSound ==
    /\ pc \in {"fok", "walk", "outer", "inner", "after"} =>
          /\ op.id \in OrderId \ index
          /\ op.kind # "market" => op.px \in Price
    /\ pc \in {"inner", "after"} =>
          lvl = best[opp_side] /\ lvl # kNoPrice /\ crosses(op.side, lvl, op.px)
    /\ pc = "inner" => cur = level[opp_side][lvl].head /\ remaining > 0

\* No bid is at or above an ask, at any moment of any call ("book is
\* crossed").
NeverCrossed ==
    \A b, a \in pool :
        mem[b].side = "Bid" /\ mem[a].side = "Ask" => mem[b].price < mem[a].price

-----------------------------------------------------------------------------
(* What a step may do *)

reported == Len(tape') = Len(tape) + 1
event == tape'[Len(tape')]
traded == reported /\ event.what = "trade"

\* a has priority over b: a better price, or the same price and earlier.
ahead(a, b) ==
    \/ better(mem[a].side, mem[a].price, mem[b].price)
    \/ mem[a].price = mem[b].price /\ a \in older[b]

PriorityStep ==
    traded =>
        LET m == event.maker
        IN  /\ m \in pool /\ mem[m].side = opposite(op.side)
            /\ event.px = mem[m].price /\ crosses(op.side, event.px, op.px)
            /\ \A o \in pool \ {m} : mem[o].side = mem[m].side => ahead(m, o)

\* Price-time priority: whoever match trades with is ahead of every other
\* order of that side, trades at its own price and within the taker's limit.
TradesAtPriority == [][PriorityStep]_vars

SelfTradeStep ==
    traded /\ stp_ # "None" =>
        op.owner = Ungrouped \/ mem[event.maker].owner # op.owner

\* With self-trade prevention on, no trade pairs two orders of one owner
\* group; owner 0 is exempt.
SelfTradePrevented == [][SelfTradeStep]_vars

LossStep ==
    \A x \in pool :
        LET left == IF x \in pool' THEN mem'[x].qty ELSE 0
        IN  left # mem[x].qty =>
              /\ left < mem[x].qty
              /\ \/ pc = "idle" /\ op'.id = x /\ op'.kind \in {"cancel", "modify"}
                 \/ /\ reported
                    /\ event = Trade(op.id, x, mem[x].price, mem[x].qty - left)
                 \/ reported /\ event = Cancelled(x) /\ left = 0

\* A resting order loses quantity, or leaves, only by the cancel or modify
\* that names it, by a trade on the tape for exactly the quantity it lost, or
\* by an on_cancel callback.  It never gains quantity where it stands.
EveryLossIsReported == [][LossStep]_vars

-----------------------------------------------------------------------------
(* What a call returns *)

trades == {i \in DOMAIN tape : tape[i].what = "trade"}
tape_qty == Cardinality(units(tape, trades))

\* The result tells the truth: filled is what the tape printed, a call never
\* fills more than it asked for, `rested' means the remainder, all of it, is
\* on the book under the call's id, only GTC orders rest, a GTC order that was
\* not stopped loses nothing, and `rejected' means that "nothing happened": no
\* callback was made.
ResultIsTrue ==
    pc = "done" =>
        /\ res.filled = tape_qty /\ res.filled <= op.qty
        /\ res.rejected => tape = << >>
        /\ res.rested => op.id \in index /\ mem[op.id].qty = op.qty - res.filled
                           /\ mem[op.id].price = op.px /\ op.tif = "GTC"
        /\ op.kind = "limit" /\ ~res.rejected /\ ~res.rested => op.id \notin index
        /\ op.kind = "modify" =>
              /\ res.found /\ ~res.ok => op.id \in index /\ tape = << >>
              /\ res.ok /\ ~res.rested => op.id \notin index
              /\ ~res.found => op.id \notin index
        /\ (\/ op.kind = "limit" /\ op.tif = "GTC" /\ ~res.rejected
            \/ op.kind = "modify" /\ res.ok) /\ ~stopped
              => res.rested \/ res.filled = op.qty

\* What a taker could trade with at limit px: everything that crosses, but
\* not its own group's orders, and under RejectIncoming nothing behind one.
reachable(s, px, owner) ==
    LET X == {o \in pool : mem[o].side = opposite(s) /\ crosses(s, mem[o].price, px)}
        mine == IF stp_ = "None" THEN {} ELSE {o \in X : own(owner, o)}
    IN  {o \in X \ mine : stp_ = "RejectIncoming" => \A m \in mine : ahead(o, m)}

\* Fill-or-kill: filled entirely, or killed with nothing done, and a valid
\* order is killed only when the quantity is really not there.  The pre-check
\* and the sweep must agree for each self-trade policy.
FokExact ==
    pc = "done" /\ op.kind = "limit" /\ op.tif = "FOK" =>
        /\ IF res.rejected THEN tape = << >> ELSE res.filled = op.qty
        /\ res.rejected /\ limit_valid(op)
              => lots(reachable(op.side, op.px, op.owner)) < op.qty

\* Market protection: one market order never trades at two prices more than
\* protection_ ticks apart.
ProtectionCapsSweep ==
    op.kind = "market" /\ protection_ > 0 =>
        \A i, j \in DOMAIN tape :
            tape[i].what = "trade" /\ tape[j].what = "trade"
                => tape[i].px - tape[j].px <= protection_

\* How far a call still is from its end, as long as no order and no level goes.
phase ==
    CASE pc = "outer" /\ ~sweep_over -> 4
      [] pc = "inner" -> 3
      [] pc = "after" -> 2
      [] OTHER -> 1

ProgressStep ==
    pc \in {"outer", "inner", "after"} /\ pc' # "done" =>
        LET B == bits[opp_side]
        IN  \/ bits'[opp_side] # B /\ bits'[opp_side] \subseteq B
            \/ bits' = bits /\ pool' # pool /\ pool' \subseteq pool
            \/ bits' = bits /\ pool' = pool /\ phase' < phase

\* The ticks the pre-check has not left behind, and the orders of the level it
\* walks.
unread == IF lvl = kNoPrice THEN {} ELSE {p \in bits[opp_side] : ~better(opp_side, p, lvl)}
unseen == IF cur = nil THEN {} ELSE members(opp_side, lvl) \ older[cur]

ReadingStep ==
    pc \in {"fok", "walk"} /\ pc' \in {"fok", "walk"} =>
        \/ unread' # unread /\ unread' \subseteq unread
        \/ unread' = unread /\ pc = "fok" /\ pc' = "walk"
        \/ unread' = unread /\ pc' = pc /\ unseen' # unseen /\ unseen' \subseteq unseen

\* The loops of a call come to an end.  Each step of match clears a bit of the
\* side it sweeps, or takes an order off, or comes nearer to the exit of the
\* loops; each step of the pre-check leaves a tick or an order behind; and all
\* these sets are finite.  The sweep cannot loop on a level it has emptied, nor
\* on the order that stopped it.
SweepEnds == [][ProgressStep /\ ReadingStep]_vars
=============================================================================
