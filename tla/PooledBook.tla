----------------------------- MODULE PooledBook -----------------------------
(***************************************************************************)
(* Engines v2 to v4 (engines/book_v2.hpp, book_v3.hpp, book_v4.hpp): the   *)
(* structure of v1 with its orders in a slab pool, at the level of         *)
(* addresses.  The pool is module Pool itself, so the storage of an order  *)
(* that has left is handed to the next one at once, while the engine still *)
(* holds pointers from before: in the id index, in the links of the        *)
(* neighbours, in the level and in the matching loop.                      *)
(*                                                                         *)
(* v3 changes the layout of an order only.  v4 splits the fill of v2 in    *)
(* two, a maker that outlives the taker and one that is used up; version   *)
(* says which loop is compiled.  A Level* is the side and the price of the *)
(* map node it points to, which exists as long as an order is in it.       *)
(***************************************************************************)
EXTENDS Pool, Sequences, FiniteSetsExt

CONSTANTS
    OrderId, nil,
    Owner, Ungrouped,
    PriceArg, QtyArg   \* bounds: the prices and quantities a call may name

ASSUME OwnerAssumption == Ungrouped \in Owner
ASSUME ArgAssumption ==
    PriceArg \subseteq Int /\ IsFiniteSet(PriceArg) /\ QtyArg \subseteq Nat

Side == {"Bid", "Ask"}
Tif == {"GTC", "IOC", "FOK"}
Stp == {"None", "CancelResting", "RejectIncoming"}
kNoPrice == 0
\* The most aggressive limits there are.
kMaxPrice == Max(PriceArg) + 1
kMinPrice == Min(PriceArg)

VARIABLES
    version, stp_,     \* of the book, fixed when it is built
    mem,               \* the Order in each slot
    orders_,           \* id -> Order*
    book,              \* bids_ and asks_: price -> Level
    pc, op,            \* the current call
    filled, stopped,   \* match: MatchOutcome
    it,                \* match: price of the level at opp.begin()
    o,                 \* match: the pointer o
    tape,              \* the callbacks of the call
    res                \* what it returns

pool_ == <<list, slab, history>>
levels == <<mem, orders_, book>>
book_vars == <<pool_, version, stp_, levels, pc, op, filled, stopped, it, o, tape, res>>

\* A destroyed slot: the engine must not look at what is left of the order.
Dead == [prev |-> null, next |-> null, id |-> nil, price |-> kNoPrice, qty |-> 0,
         side |-> "Bid", owner |-> Ungrouped]
NoLevel == [head |-> null, tail |-> null, total_qty |-> 0, count |-> 0]
NoCall == [kind |-> "none", id |-> nil, side |-> "Bid", px |-> kNoPrice,
           qty |-> 0, tif |-> "GTC", owner |-> Ungrouped]
NoResult == [filled |-> 0, rested |-> FALSE, rejected |-> FALSE, ok |-> FALSE, found |-> FALSE]
Trade(taker, maker, px, qty) ==
    [what |-> "trade", taker |-> taker, maker |-> maker, px |-> px, qty |-> qty]
Cancelled(id) == [what |-> "cancel", id |-> id]

opposite_book(s) == IF s = "Bid" THEN "Ask" ELSE "Bid"
crosses(s, book_px, limit_px) == IF s = "Bid" THEN book_px <= limit_px ELSE book_px >= limit_px

\* The first price of P in the order of side s.
first(s, P) == IF P = {} THEN kNoPrice ELSE IF s = "Bid" THEN Max(P) ELSE Min(P)
begin(s) == first(s, DOMAIN book[s])

put(f, k, v) == [x \in DOMAIN f \cup {k} |-> IF x = k THEN v ELSE f[x]]
drop(f, k) == [x \in DOMAIN f \ {k} |-> f[x]]

-----------------------------------------------------------------------------
(* The list of a level, in recycled storage *)

\* unlink: the neighbours of p, and the level when p still has `left'.
unlinked(p) ==
    [x \in Slot |->
        IF x = p THEN Dead
        ELSE [mem[x] EXCEPT !.next = IF x = mem[p].prev THEN mem[p].next ELSE @,
                            !.prev = IF x = mem[p].next THEN mem[p].prev ELSE @]]
unlink(lvl, p, left) ==
    [head |-> IF mem[p].prev = null THEN mem[p].next ELSE lvl.head,
     tail |-> IF mem[p].next = null THEN mem[p].prev ELSE lvl.tail,
     total_qty |-> lvl.total_qty - left,
     count |-> lvl.count - 1]

\* Mutant: the slot is not given back.
Bug_take_off_leaks(p) ==
    mem' = unlinked(p) /\ orders_' = drop(orders_, mem[p].id) /\ UNCHANGED pool_

\* orders_.erase(p->id); unlink(lvl, p); pool_.destroy(p)
take_off(p) ==
    mem' = unlinked(p) /\ orders_' = drop(orders_, mem[p].id) /\ destroy(p)

\* cancel and reprice: the order leaves, and an emptied level leaves the map.
remove_from_book(p) ==
    LET s == mem[p].side  px == mem[p].price  l == unlink(book[s][px], p, mem[p].qty)
    IN  /\ take_off(p)
        /\ book' = [book EXCEPT ![s] = IF l.head = null THEN drop(@, px) ELSE put(@, px, l)]

raw_slot == IF free_ # null THEN free_ ELSE cursor_

rest(s, id, px, qty, owner) ==
    LET l == IF px \in DOMAIN book[s] THEN book[s][px] ELSE NoLevel
        p == raw_slot
    IN  /\ create_recycled \/ create_fresh \/ create_grown
        /\ mem' = [x \in Slot |->
              IF x = p THEN [prev |-> l.tail, next |-> null, id |-> id, price |-> px,
                             qty |-> qty, side |-> s, owner |-> owner]
              ELSE IF x = l.tail THEN [mem[x] EXCEPT !.next = p] ELSE mem[x]]
        /\ book' = [book EXCEPT ![s] =
              put(@, px, [head |-> IF l.tail = null THEN p ELSE l.head, tail |-> p,
                          total_qty |-> l.total_qty + qty, count |-> l.count + 1])]
        /\ orders_' = put(orders_, id, p)

own(owner, p) == owner # Ungrouped /\ mem[p].owner = owner

\* Quantity available from order p on, added to avail; -1 if RejectIncoming
\* would stop the taker there.
fok_level(p, avail, qty, owner) ==
    LET walk[x \in Link, a \in Nat] ==
          IF x = null \/ a >= qty THEN a
          ELSE IF ~own(owner, x) THEN walk[mem[x].next, a + mem[x].qty]
          ELSE IF stp_ = "RejectIncoming" THEN -1 ELSE walk[mem[x].next, a]
    IN  walk[p, avail]

fok_fillable(s, px, qty, owner) ==
    LET b == book[opposite_book(s)]
        walk[P \in SUBSET DOMAIN b, avail \in Nat] ==
          LET p == first(opposite_book(s), P)
              a == IF stp_ = "None" THEN avail + b[p].total_qty
                   ELSE fok_level(b[p].head, avail, qty, owner)
          IN  IF p = kNoPrice \/ ~crosses(s, p, px) THEN avail >= qty
              ELSE a # -1 /\ (a >= qty \/ walk[P \ {p}, a])
    IN  walk[DOMAIN b, 0]

-----------------------------------------------------------------------------
(* The public calls *)

BookInit ==
    /\ Init
    /\ version \in {2, 4} /\ stp_ \in Stp
    /\ mem = [x \in Slot |-> Dead] /\ orders_ = << >> /\ book = [s \in Side |-> << >>]
    /\ pc = "idle" /\ op = NoCall /\ res = NoResult
    /\ filled = 0 /\ stopped = FALSE /\ it = kNoPrice /\ o = null /\ tape = << >>

Return(c, r) ==
    op' = c /\ res' = r /\ pc' = "done" /\ UNCHANGED <<filled, stopped, it, o, tape>>

EnterMatch(c) ==
    op' = c /\ pc' = "outer" /\ UNCHANGED <<filled, stopped, it, o, tape, res>>

submit_limit(c) ==
    /\ pc = "idle"
    /\ UNCHANGED <<pool_, levels>>
    /\ IF \/ c.qty = 0 \/ c.px <= 0 \/ c.id \in DOMAIN orders_
          \/ c.tif = "FOK" /\ ~fok_fillable(c.side, c.px, c.qty, c.owner)
       THEN Return(c, [NoResult EXCEPT !.rejected = TRUE])
       ELSE EnterMatch(c)

submit_market(c) ==
    /\ pc = "idle"
    /\ UNCHANGED <<pool_, levels>>
    /\ IF c.qty = 0 \/ c.id \in DOMAIN orders_ THEN Return(c, NoResult) ELSE EnterMatch(c)

cancel(id) ==
    LET c == [NoCall EXCEPT !.kind = "cancel", !.id = id]
    IN  /\ pc = "idle"
        /\ IF id \in DOMAIN orders_
           THEN remove_from_book(orders_[id]) /\ Return(c, [NoResult EXCEPT !.ok = TRUE])
           ELSE UNCHANGED <<pool_, levels>> /\ Return(c, NoResult)

\* modify of an order that is found, at address p.
modify_found(c, p) ==
    IF c.qty = 0 \/ c.px <= 0
    THEN UNCHANGED <<pool_, levels>> /\ Return(c, [NoResult EXCEPT !.found = TRUE])
    ELSE IF c.px = mem[p].price /\ c.qty <= mem[p].qty
    THEN /\ book' = [book EXCEPT ![mem[p].side][mem[p].price].total_qty = @ - (mem[p].qty - c.qty)]
         /\ mem' = [mem EXCEPT ![p].qty = c.qty]
         /\ UNCHANGED <<pool_, orders_>>
         /\ Return(c, [NoResult EXCEPT !.found = TRUE, !.ok = TRUE, !.rested = TRUE])
    ELSE /\ remove_from_book(p)
         /\ EnterMatch([c EXCEPT !.side = mem[p].side, !.owner = mem[p].owner])

modify(id, new_px, new_qty) ==
    LET c == [NoCall EXCEPT !.kind = "modify", !.id = id, !.px = new_px, !.qty = new_qty]
    IN  /\ pc = "idle"
        /\ IF id \in DOMAIN orders_ THEN modify_found(c, orders_[id])
           ELSE UNCHANGED <<pool_, levels>> /\ Return(c, NoResult)

Call ==
    \/ \E id \in OrderId, side \in Side, px \in PriceArg, qty \in QtyArg, tif \in Tif, owner \in Owner :
          submit_limit([kind |-> "limit", id |-> id, side |-> side, px |-> px, qty |-> qty,
                        tif |-> tif, owner |-> owner])
    \/ \E id \in OrderId, side \in Side, qty \in QtyArg, owner \in Owner :
          submit_market([kind |-> "market", id |-> id, side |-> side, qty |-> qty, tif |-> "IOC",
                         px |-> IF side = "Bid" THEN kMaxPrice ELSE kMinPrice, owner |-> owner])
    \/ \E id \in OrderId : cancel(id)
    \/ \E id \in OrderId, new_px \in PriceArg, new_qty \in QtyArg : modify(id, new_px, new_qty)

-----------------------------------------------------------------------------
(* match and the rest of execute *)

want == op.qty
remaining == want - filled
opp == opposite_book(op.side)
lvl == book[opp][it]
sweep_over ==
    stopped \/ filled = want \/ begin(opp) = kNoPrice \/ ~crosses(op.side, begin(opp), op.px)
\* v2 and v3 end the inner loop in its head, v4 by break.
level_ended == stopped \/ filled = want \/ o = null
meets_order == pc = "inner" /\ ~level_ended
self_trade == own(op.owner, o) /\ stp_ # "None"

NextLevel ==
    /\ pc = "outer" /\ ~sweep_over
    /\ it' = begin(opp) /\ o' = book[opp][it'].head /\ pc' = "inner"
    /\ UNCHANGED <<pool_, levels, op, filled, stopped, tape, res>>

Stop ==
    /\ meets_order /\ self_trade /\ stp_ = "RejectIncoming"
    /\ stopped' = TRUE
    /\ UNCHANGED <<pool_, levels, pc, op, filled, it, o, tape, res>>

\* Mutant: the link is read after destroy, from what is left in the slot.
Bug_next_after_destroy == mem'[o].next
\* Order* next = o->next, read before o goes
next == mem[o].next

Kill ==
    /\ meets_order /\ self_trade /\ stp_ = "CancelResting"
    /\ tape' = Append(tape, Cancelled(mem[o].id))
    /\ take_off(o)
    /\ book' = [book EXCEPT ![opp][it] = unlink(@, o, mem[o].qty)]
    /\ o' = next
    /\ UNCHANGED <<pc, op, filled, stopped, it, res>>

\* v2, v3: take the smaller of the two, then look whether the maker is used up.
Fill ==
    LET take == Min({mem[o].qty, remaining})
    IN  /\ version = 2 /\ meets_order /\ ~self_trade
        /\ filled' = filled + take
        /\ tape' = Append(tape, Trade(op.id, mem[o].id, it, take))
        /\ IF mem[o].qty = take
           THEN take_off(o) /\ book' = [book EXCEPT ![opp][it] =
                                          unlink([lvl EXCEPT !.total_qty = lvl.total_qty - take], o, 0)]
           ELSE /\ mem' = [mem EXCEPT ![o].qty = @ - take]
                /\ book' = [book EXCEPT ![opp][it].total_qty = @ - take]
                /\ UNCHANGED <<pool_, orders_>>
        /\ o' = next
        /\ UNCHANGED <<pc, op, stopped, it, res>>

\* v4: the maker outlives the taker.
PartialFill ==
    /\ version = 4 /\ meets_order /\ ~self_trade /\ mem[o].qty > remaining
    /\ mem' = [mem EXCEPT ![o].qty = @ - remaining]
    /\ book' = [book EXCEPT ![opp][it].total_qty = @ - remaining]
    /\ tape' = Append(tape, Trade(op.id, mem[o].id, it, remaining))
    /\ filled' = want
    /\ UNCHANGED <<pool_, orders_, pc, op, stopped, it, o, res>>

\* v4: the maker is used up.
FullFill ==
    /\ version = 4 /\ meets_order /\ ~self_trade /\ mem[o].qty <= remaining
    /\ filled' = filled + mem[o].qty
    /\ tape' = Append(tape, Trade(op.id, mem[o].id, it, mem[o].qty))
    /\ take_off(o)
    /\ book' = [book EXCEPT ![opp][it] = unlink(@, o, mem[o].qty)]
    /\ o' = next
    /\ UNCHANGED <<pc, op, stopped, it, res>>

EndLevel ==
    /\ pc = "inner" /\ level_ended
    /\ book' = IF lvl.head = null THEN [book EXCEPT ![opp] = drop(@, it)] ELSE book
    /\ pc' = "outer" /\ it' = kNoPrice /\ o' = null
    /\ UNCHANGED <<pool_, mem, orders_, op, filled, stopped, tape, res>>

rests == ~stopped /\ filled < want /\ op.tif = "GTC" /\ op.kind # "market"

result ==
    [NoResult EXCEPT !.filled = filled, !.rested = rests,
       !.rejected = op.kind = "limit" /\ stopped /\ filled = 0,
       !.ok = op.kind = "modify", !.found = op.kind = "modify"]

Finish ==
    /\ pc = "outer" /\ sweep_over
    /\ IF rests THEN rest(op.side, op.id, op.px, remaining, op.owner)
       ELSE UNCHANGED <<pool_, levels>>
    /\ res' = result
    /\ pc' = "done" /\ filled' = 0
    /\ UNCHANGED <<op, stopped, it, o, tape>>

Returned ==
    /\ pc = "done" /\ pc' = "idle"
    /\ op' = NoCall /\ res' = NoResult /\ tape' = << >> /\ stopped' = FALSE
    /\ UNCHANGED <<pool_, levels, filled, it, o>>

BookNext ==
    /\ \/ Call \/ NextLevel \/ Stop \/ Kill \/ Fill \/ PartialFill \/ FullFill
       \/ EndLevel \/ Finish \/ Returned
    /\ UNCHANGED <<version, stp_>>

BookSpec == BookInit /\ [][BookNext]_book_vars

-----------------------------------------------------------------------------
\* Every slot in use holds exactly one order that can be found, under its own
\* id, and nothing that is still followed leads to a slot given back: not the
\* index, not a link of a resting order, not the ends of a level, not the
\* pointer of the matching loop.  So nothing leaks and nothing dangles.
StorageExact ==
    /\ live = {orders_[id] : id \in DOMAIN orders_}
    /\ \A id \in DOMAIN orders_ : mem[orders_[id]].id = id
    /\ \A p \in live : {mem[p].next, mem[p].prev} \subseteq live \cup {null}
    /\ \A s \in Side : \A px \in DOMAIN book[s] :
          {book[s][px].head, book[s][px].tail} \subseteq live \cup {null}
    /\ pc = "inner" => o \in live \cup {null}

\* A level as v1 keeps it, its list walked from the head.
v1_level(l) ==
    LET walk[x \in Link] ==
          IF x = null THEN << >>
          ELSE <<[id |-> mem[x].id, qty |-> mem[x].qty, owner |-> mem[x].owner]>> \o walk[mem[x].next]
    IN  [queue |-> walk[l.head], total_qty |-> l.total_qty, count |-> l.count]

V1 == INSTANCE BookV1 WITH
    book    <- [s \in Side |-> [px \in DOMAIN book[s] |-> v1_level(book[s][px])]],
    orders_ <- [id \in DOMAIN orders_ |->
                  [side |-> mem[orders_[id]].side, price |-> mem[orders_[id]].price]]

\* The pool changes nothing an observer can see, and neither does the split
\* loop: every step of v2 and of v4 is a step of v1, with the same callbacks,
\* results, queues and totals, however storage is recycled in mid-sweep.
PooledReproducesV1 == V1!Spec
=============================================================================
