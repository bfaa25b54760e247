------------------------------ MODULE Gateway ------------------------------
(***************************************************************************)
(* The order-entry gateway: the poll() loop of net/gateway.cpp and the     *)
(* handlers of net/gateway.hpp, with OrderIds, the mirror of the book that *)
(* says which client owns which engine id.  One thread; the engine is      *)
(* called inline and calls back (on_trade, on_cancel) in the middle of a   *)
(* handler, so each callback is an action.                                 *)
(*                                                                         *)
(* The engine is what OrderBook shows of it: a call trades with resting    *)
(* orders of the other side and tells the listener of each one, never      *)
(* trades an owner with itself under STP, may kill the taker's own resting *)
(* orders (CancelResting) and tells the listener, and reports what it did  *)
(* truthfully.  Prices, and with them which orders it meets and whether a  *)
(* remainder rests, are left open: every behaviour of the engine is one of *)
(* those allowed here.                                                     *)
(***************************************************************************)
EXTENDS Integers, FiniteSets, Sequences, SequencesExt

CONSTANTS
    ClientId,    \* the order ids clients use; 0 besides
    MaxQty,      \* bound: the largest quantity in a frame
    MaxId,       \* bound: engine ids assigned
    MaxOwner,    \* bound: connections accepted
    MaxConns,    \* bound: connections at a time
    kMaxOutbox,  \* the outbox's capacity, in reports
    Stp          \* the self-trade policies it is started with

ASSUME ClientAssumption == 0 \notin ClientId
ASSUME BoundAssumption ==
    /\ MaxQty \in Nat /\ MaxId \in Nat /\ MaxOwner \in Nat /\ MaxConns \in Nat
    /\ kMaxOutbox \in Nat \ {0}
ASSUME PolicyAssumption == Stp \subseteq {"None", "CancelResting", "RejectIncoming"}

Side == {"Bid", "Ask"}
Qty == 0 .. MaxQty

VARIABLES
    stp_,         \* the engine's self-trade policy: option --stp
    book,         \* the engine's resting orders: engine id -> quantity, owner, side
    last_, by_client_, live_,   \* OrderIds
    taker_side_,  \* FeedPublisher
    snapshot,     \* the book as of the last Book message
    conns,        \* the connections, in order of arrival
    next_owner,
    pc,           \* poll, serve, call (in the engine), handled, flush, reap
    at, polled,   \* the loop index, and how many connections poll() covered
    call,         \* the frame being handled and the engine call it makes
    reports,      \* history: the exec reports queued while handling it
    trade_msg     \* history: the last Trade message of the call

ids == <<last_, by_client_, live_>>
loop == <<next_owner, at, polled>>
vars == <<stp_, book, ids, taker_side_, snapshot, conns, loop, pc, call, reports, trade_msg>>

NoCall == [kind |-> "none", client |-> 0, id |-> 0, side |-> "Bid", want |-> 0, filled |-> 0,
           killed |-> {}]
NoTrade == [side |-> "none", qty |-> 0]
Report(client, filled, status) == [client |-> client, filled |-> filled, status |-> status]

\* The partial function f with k mapped to v, and f without the keys S.
put(f, k, v) == [x \in DOMAIN f \cup {k} |-> IF x = k THEN v ELSE f[x]]
drop(f, S) == [x \in DOMAIN f \ S |-> f[x]]

opposite(s) == IF s = "Bid" THEN "Ask" ELSE "Bid"

-----------------------------------------------------------------------------
(* OrderIds *)

\* Mutant: client ids are looked up without their owner.
Bug_find_any_owner(owner, client) ==
    LET K == {k \in DOMAIN by_client_ : k[2] = client}
    IN  IF K = {} THEN 0 ELSE by_client_[CHOOSE k \in K : \A l \in K : k[1] <= l[1]]

find(owner, client) ==
    IF <<owner, client>> \in DOMAIN by_client_ THEN by_client_[<<owner, client>>] ELSE 0

\* The engine id of a new order, or 0 if the client id is 0 or live.
assign(owner, client) == IF client = 0 \/ find(owner, client) # 0 THEN 0 ELSE last_ + 1

\* Mutant: only a new order is recorded, an amended one keeps its old entry.
Bug_record_once(id, owner, client, open, side) ==
    /\ by_client_' = put(by_client_, <<owner, client>>, id)
    /\ live_' = IF id \in DOMAIN live_ THEN live_
                ELSE put(live_, id, [owner |-> owner, client |-> client, open |-> open, side |-> side])

record(id, owner, client, open, side) ==
    /\ by_client_' = put(by_client_, <<owner, client>>, id)
    /\ live_' = put(live_, id, [owner |-> owner, client |-> client, open |-> open, side |-> side])

\* The orders S left the book.
forget(S) ==
    /\ by_client_' = drop(by_client_, {<<live_[x].owner, live_[x].client>> : x \in S \cap DOMAIN live_})
    /\ live_' = drop(live_, S)

fill(id, qty) ==
    IF id \notin DOMAIN live_ THEN UNCHANGED <<by_client_, live_>>
    ELSE IF live_[id].open = qty THEN forget({id})
    ELSE live_' = [live_ EXCEPT ![id].open = @ - qty] /\ UNCHANGED by_client_

\* Mutant: the owner's oldest order is missed.
Bug_owned_by_skips_first(owner) ==
    {by_client_[k] : k \in {l \in DOMAIN by_client_ :
        l[1] = owner /\ \E m \in DOMAIN by_client_ : m[1] = owner /\ by_client_[m] < by_client_[l]}}

owned_by(owner) == {by_client_[k] : k \in {l \in DOMAIN by_client_ : l[1] = owner}}

-----------------------------------------------------------------------------
(* Connections *)

c == conns[at]

\* Mutant: a report that does not fit is dropped and the connection kept.
Bug_queue_send_drops(conn) ==
    IF conn.outbox + 1 > kMaxOutbox THEN conn ELSE [conn EXCEPT !.outbox = @ + 1]

\* The connection with one report more in its outbox: dead if it is full.
queue_send(conn) ==
    IF conn.outbox + 1 > kMaxOutbox THEN [conn EXCEPT !.dead = TRUE]
    ELSE [conn EXCEPT !.outbox = @ + 1]

\* A Book message: the levels as they are when the handler returns.
publish_book == snapshot' = book'

\* The handler's last step but the Book message: the report to the client that sent the frame.
send_exec(cl, filled, status) ==
    /\ conns' = [conns EXCEPT ![at] = queue_send(@)]
    /\ reports' = Append(reports, Report(cl.client, filled, status))
    /\ call' = [cl EXCEPT !.filled = filled]
    /\ pc' = "handled"

Init ==
    /\ stp_ \in Stp
    /\ book = << >> /\ last_ = 0 /\ by_client_ = << >> /\ live_ = << >>
    /\ taker_side_ = "Bid" /\ snapshot = << >>
    /\ conns = << >> /\ next_owner = 1
    /\ pc = "poll" /\ at = 1 /\ polled = 0
    /\ call = NoCall /\ reports = << >> /\ trade_msg = NoTrade

\* poll() returns, and with a client waiting accept() adds its connection.
Poll ==
    /\ pc = "poll"
    /\ polled' = Len(conns)
    /\ at' = 1
    /\ pc' = "serve"
    /\ \/ UNCHANGED <<conns, next_owner>>
       \/ /\ Len(conns) < MaxConns /\ next_owner <= MaxOwner
          /\ conns' = Append(conns, [owner |-> next_owner, dead |-> FALSE, outbox |-> 0])
          /\ next_owner' = next_owner + 1
    /\ UNCHANGED <<book, ids, taker_side_, snapshot, call, reports, trade_msg>>

serving == pc = "serve" /\ at <= polled

\* The peer hung up, recv failed, the framing is broken or the frame is not
\* one a client may send.
Drop ==
    /\ serving
    /\ conns' = [conns EXCEPT ![at].dead = TRUE]
    /\ pc' = "flush"
    /\ UNCHANGED <<book, ids, taker_side_, snapshot, loop, call, reports, trade_msg>>

\* recv has nothing (more) to give.
Drained ==
    /\ serving
    /\ pc' = "flush"
    /\ UNCHANGED <<book, ids, taker_side_, snapshot, conns, loop, call, reports, trade_msg>>

-----------------------------------------------------------------------------
(* handle_frame, up to the engine call *)

\* The frame makes an engine call: a new order or a market order.
submit(kind, client, side, qty) ==
    LET id == assign(c.owner, client)
    IN  /\ serving
        /\ id <= MaxId
        /\ taker_side_' = side
        /\ last_' = IF id = 0 THEN last_ ELSE id
        /\ call' = [kind |-> kind, client |-> client, id |-> id, side |-> side, want |-> qty,
                    filled |-> 0, killed |-> {}]
        /\ pc' = "call"
        /\ UNCHANGED <<book, by_client_, live_, snapshot, conns, loop, reports, trade_msg>>

Cancel(client) ==
    LET id == find(c.owner, client)
        ok == id \in DOMAIN book
        cl == [NoCall EXCEPT !.kind = "cancel", !.client = client, !.id = id]
    IN  /\ serving
        /\ book' = drop(book, {id})
        /\ IF ok THEN forget({id}) ELSE UNCHANGED <<by_client_, live_>>
        /\ send_exec(cl, 0, IF ok THEN "Canceled" ELSE "Unknown")
        /\ publish_book
        /\ UNCHANGED <<last_, taker_side_, loop, trade_msg>>

\* Mutant: the side of the previous message is left in place.
Bug_modify_keeps_side(id) == taker_side_
modify_side(id) == IF id \in DOMAIN live_ THEN live_[id].side ELSE taker_side_

Modify(client, qty) ==
    LET id == find(c.owner, client)
        cl == [NoCall EXCEPT !.kind = "modify", !.client = client, !.id = id, !.want = qty]
    IN  /\ serving
        /\ taker_side_' = modify_side(id)
        /\ \/ /\ id \notin DOMAIN book
              /\ send_exec(cl, 0, "Unknown")
              /\ UNCHANGED <<book, by_client_, live_>>
           \/ \* a bad quantity, or a price outside the band
              /\ id \in DOMAIN book
              /\ send_exec(cl, 0, "Rejected")
              /\ UNCHANGED <<book, by_client_, live_>>
           \/ \* a size decrease in place
              /\ id \in DOMAIN book /\ qty > 0 /\ qty <= book[id].qty
              /\ book' = [book EXCEPT ![id].qty = qty]
              /\ record(id, c.owner, client, qty, live_[id].side)
              /\ send_exec([cl EXCEPT !.side = book[id].side], 0, "Replaced")
           \/ \* a reprice: the order is taken off and re-enters
              /\ id \in DOMAIN book /\ qty > 0
              /\ book' = drop(book, {id})
              /\ call' = [cl EXCEPT !.side = book[id].side]
              /\ pc' = "call"
              /\ UNCHANGED <<by_client_, live_, conns, reports>>
        /\ IF pc' = "handled" THEN publish_book ELSE UNCHANGED snapshot
        /\ UNCHANGED <<last_, loop, trade_msg>>

-----------------------------------------------------------------------------
(* The engine call and its callbacks *)

accepted == call.id # 0 /\ call.want > 0
matching == pc = "call" /\ accepted /\ call.filled < call.want

\* A fill against resting order m: on_trade.
Trade(m) ==
    LET take == IF book[m].qty <= call.want - call.filled THEN book[m].qty
                ELSE call.want - call.filled
    IN  /\ matching
        /\ book[m].side = opposite(call.side)
        /\ stp_ # "None" => book[m].owner # c.owner
        /\ book' = IF take = book[m].qty THEN drop(book, {m}) ELSE [book EXCEPT ![m].qty = @ - take]
        /\ fill(m, take)
        /\ trade_msg' = [side |-> taker_side_, qty |-> take]
        /\ call' = [call EXCEPT !.filled = @ + take]
        /\ UNCHANGED <<last_, taker_side_, snapshot, conns, loop, pc, reports>>

\* The connections of an owner that can still be told something.
listeners(owner) == {x \in DOMAIN conns : conns[x].owner = owner /\ ~conns[x].dead}

\* Mutant: an unsolicited cancel is not passed on.
Bug_kill_untold(m) == UNCHANGED <<conns, reports>>

\* on_unsolicited_cancel
kill_told(m) ==
    \/ /\ listeners(book[m].owner) = {}
       /\ UNCHANGED <<conns, reports>>
    \/ \E x \in listeners(book[m].owner) :
          /\ \A y \in listeners(book[m].owner) : x <= y
          /\ conns' = [conns EXCEPT ![x] = queue_send(@)]
          /\ reports' = Append(reports, Report(live_[m].client, 0, "Canceled"))

\* CancelResting takes the taker's own order m off: on_cancel.
Kill(m) ==
    /\ matching /\ stp_ = "CancelResting"
    /\ book[m].side = opposite(call.side) /\ book[m].owner = c.owner
    /\ book' = drop(book, {m})
    /\ forget({m})
    /\ kill_told(m)
    /\ call' = [call EXCEPT !.killed = @ \cup {live_[m].client}]
    /\ UNCHANGED <<last_, taker_side_, snapshot, loop, pc, trade_msg>>

quiet == call.filled = 0 /\ call.killed = {}

\* The remainder of the order rests.
engine_rests ==
    /\ accepted /\ call.filled < call.want
    /\ book' = put(book, call.id, [qty |-> call.want - call.filled, owner |-> c.owner, side |-> call.side])
    /\ record(call.id, c.owner, call.client, call.want - call.filled, call.side)

submit_status(rejected, rested) ==
    IF rejected THEN "Rejected"
    ELSE IF call.filled = call.want THEN "Filled"
    ELSE IF rested THEN IF call.filled > 0 THEN "PartialRest" ELSE "Accepted"
    ELSE IF call.filled > 0 THEN "PartialDone" ELSE "Canceled"

\* submit_limit returns: rejected, rested, or done with.
NewOrderReturns ==
    /\ pc = "call" /\ call.kind = "limit"
    /\ \/ /\ quiet
          /\ UNCHANGED <<book, by_client_, live_>>
          /\ send_exec(call, 0, submit_status(TRUE, FALSE))
       \/ /\ engine_rests
          /\ send_exec(call, call.filled, submit_status(FALSE, TRUE))
       \/ /\ accepted
          /\ UNCHANGED <<book, by_client_, live_>>
          /\ send_exec(call, call.filled, submit_status(FALSE, FALSE))
    /\ publish_book
    /\ UNCHANGED <<last_, taker_side_, loop, trade_msg>>

MarketReturns ==
    /\ pc = "call" /\ call.kind = "market"
    /\ send_exec(call, call.filled,
                 IF call.id = 0 THEN "Rejected"
                 ELSE IF call.filled = call.want THEN "Filled"
                 ELSE IF call.filled > 0 THEN "PartialDone" ELSE "Canceled")
    /\ UNCHANGED <<book, ids, taker_side_, loop, trade_msg>>
    /\ publish_book

\* The report on a reprice that did not rest.
reprice_status ==
    IF call.filled = call.want THEN "Filled"
    ELSE IF call.filled > 0 THEN "PartialDone" ELSE "Canceled"

\* modify returns from a reprice: rested, traded away or stopped by STP.
ModifyReturns ==
    /\ pc = "call" /\ call.kind = "modify"
    /\ \/ engine_rests /\ send_exec(call, call.filled, "Replaced")
       \/ /\ call.filled = call.want \/ stp_ = "RejectIncoming"
          /\ forget({call.id})
          /\ UNCHANGED book
          /\ send_exec(call, call.filled, reprice_status)
    /\ publish_book
    /\ UNCHANGED <<last_, taker_side_, loop, trade_msg>>

-----------------------------------------------------------------------------
(* The rest of the loop *)

\* handle_frame has returned: the next frame, unless the connection died.
\* A dead connection's frames are not executed.
NextFrame ==
    /\ pc = "handled"
    /\ pc' = IF c.dead THEN "flush" ELSE "serve"
    /\ call' = NoCall /\ reports' = << >> /\ trade_msg' = NoTrade
    /\ UNCHANGED <<book, ids, taker_side_, snapshot, conns, loop>>

\* What send() may leave of a connection: everything sent, a part with more
\* room later, or an error.
flush_outbox(conn) ==
    {[conn EXCEPT !.outbox = n] : n \in 0 .. conn.outbox}
        \cup {[conn EXCEPT !.outbox = n, !.dead = TRUE] : n \in 1 .. conn.outbox}

Flush ==
    /\ pc = "flush"
    /\ \E d \in IF c.dead THEN {c} ELSE flush_outbox(c) : conns' = [conns EXCEPT ![at] = d]
    /\ at' = at + 1 /\ pc' = "serve"
    /\ UNCHANGED <<book, ids, taker_side_, snapshot, next_owner, polled, call, reports, trade_msg>>

Served ==
    /\ pc = "serve" /\ at > polled
    /\ pc' = "reap" /\ at' = Len(conns)
    /\ UNCHANGED <<book, ids, taker_side_, snapshot, conns, next_owner, polled, call, reports, trade_msg>>

\* One snapshot follows if any order was canceled.
disconnect_published ==
    IF owned_by(c.owner) = {} THEN UNCHANGED snapshot ELSE publish_book

\* A dead connection: its last reports are sent as far as they go, its orders
\* are canceled (cancel_on_disconnect), and it is closed.
Reap ==
    /\ pc = "reap" /\ at > 0
    /\ IF c.dead
       THEN /\ book' = drop(book, owned_by(c.owner))
            /\ forget(owned_by(c.owner))
            /\ disconnect_published
            /\ conns' = RemoveAt(conns, at)
       ELSE UNCHANGED <<book, by_client_, live_, snapshot, conns>>
    /\ at' = at - 1
    /\ UNCHANGED <<last_, taker_side_, next_owner, polled, pc, call, reports, trade_msg>>

Reaped ==
    /\ pc = "reap" /\ at = 0
    /\ pc' = "poll" /\ at' = 1 /\ polled' = 0
    /\ UNCHANGED <<book, ids, taker_side_, snapshot, conns, next_owner, call, reports, trade_msg>>

Frame ==
    \/ \E kind \in {"limit", "market"}, client \in ClientId \cup {0}, side \in Side, qty \in Qty :
          submit(kind, client, side, qty)
    \/ \E client \in ClientId \cup {0} : Cancel(client)
    \/ \E client \in ClientId \cup {0}, qty \in Qty : Modify(client, qty)

Engine ==
    \/ \E m \in DOMAIN book : Trade(m) \/ Kill(m)
    \/ NewOrderReturns \/ MarketReturns \/ ModifyReturns

Work == Frame \/ Engine \/ Drop \/ Drained \/ NextFrame \/ Flush \/ Served \/ Reap \/ Reaped

Next == (Poll \/ Work) /\ UNCHANGED stp_

Spec == Init /\ [][Next]_vars

-----------------------------------------------------------------------------
\* "An entry lives exactly as long as its order rests": OrderIds records
\* exactly the resting orders, with their owner, side and open quantity, and
\* finds each under its client id; only the order an engine call is about may
\* be ahead or behind while the call runs.
MirrorExact ==
    LET moving == IF pc = "call" THEN {call.id} ELSE {}
    IN  /\ DOMAIN live_ \ moving = DOMAIN book \ moving
        /\ \A x \in DOMAIN book \ moving :
              /\ live_[x].open = book[x].qty /\ live_[x].owner = book[x].owner
              /\ live_[x].side = book[x].side
        /\ \A x \in DOMAIN live_ : find(live_[x].owner, live_[x].client) = x
        /\ \A k \in DOMAIN by_client_ : by_client_[k] \in DOMAIN live_

ForeignStep ==
    \A x \in DOMAIN book :
        LET untouched == x \in DOMAIN book' /\ book'[x] = book[x]
        IN  \/ untouched
            \/ book[x].owner = c.owner
            \/ pc = "call" /\ x # call.id /\ call'.filled > call.filled

\* "A client can cancel or amend only its own orders": nobody's order changes
\* or leaves but by a trade, or on behalf of its own connection.
OnlyOwnOrders == [][ForeignStep]_vars

\* "None is left on the book without an owner": every resting order belongs
\* to an open connection, and when the loop is back at poll() that
\* connection is alive.
NoOrphans ==
    \A x \in DOMAIN book : \E y \in DOMAIN conns :
        conns[y].owner = book[x].owner /\ (pc = "poll" => ~conns[y].dead)

answer == reports[Len(reports)]
own_live == IF find(c.owner, call.client) = 0 THEN FALSE
            ELSE find(c.owner, call.client) = call.id /\ call.id \in DOMAIN book

\* Every frame is answered once, after one report for each of the client's
\* own orders killed on its way (unless its outbox overflowed and it is being
\* dropped), and the answer is true of the book: resting
\* orders rest with the open quantity reported, finished ones are gone, a
\* rejected amend left its order alone, a rejected order did nothing.
ReportsTrue ==
    pc = "handled" =>
        /\ ~c.dead => {reports[r].client : r \in 1 .. (Len(reports) - 1)} = call.killed
        /\ \A r \in 1 .. (Len(reports) - 1) : reports[r].status = "Canceled"
        /\ answer.client = call.client /\ answer.filled = call.filled
        /\ answer.status \in {"Accepted", "PartialRest", "Replaced"} =>
              own_live /\ book[call.id].qty = call.want - call.filled
        /\ answer.status \in {"Filled", "PartialDone", "Canceled", "Unknown"} =>
              call.id \notin DOMAIN book
        /\ answer.status = "Rejected" =>
              call.filled = 0 /\ call.killed = {} /\ (call.kind = "modify" => own_live)
        /\ answer.status = "Filled" => call.filled = call.want
        /\ answer.status = "PartialDone" => 0 < call.filled /\ call.filled < call.want

\* What the feed says is true: a Trade message carries the side of the taker,
\* for a crossing reprice too, and whenever the gateway is not inside an engine
\* call the last Book message shows the book as it is, after a disconnect too.
FeedTrue ==
    /\ trade_msg # NoTrade => trade_msg.side = call.side
    /\ pc # "call" => snapshot = book

\* How much of the iteration is left: the phase of the loop, the connections
\* it has still to look at, the room in the outbox of the one it serves, the
\* stage of that one's current frame, and what its engine call may still do.
serving_c == pc \in {"serve", "call", "handled"} /\ at <= polled
left_of_iteration ==
    << CASE pc = "poll" -> 0 [] pc = "reap" -> 1 [] OTHER -> 2,
       IF pc = "reap" THEN at ELSE polled + 1 - at,
       IF serving_c /\ ~c.dead THEN kMaxOutbox + 1 - c.outbox ELSE 0,
       CASE pc = "serve" -> 3 [] pc = "call" -> 2 [] pc = "handled" -> (IF c.dead THEN 1 ELSE 4)
         [] OTHER -> 0,
       IF pc = "call" THEN call.want - call.filled + Cardinality(DOMAIN book) ELSE 0 >>

\* Tuple x before tuple y, in the lexicographic order of natural numbers.
before(x, y) ==
    \E n \in DOMAIN x : x[n] \in 0 .. (y[n] - 1) /\ \A m \in 1 .. (n - 1) : x[m] = y[m]

\* One iteration of the loop always ends, even if a client has always more to
\* send: every step but poll() leaves less of it.  A report that does not fit
\* in the outbox is what ends a flood of frames: it drops the client.
IterationEnds == [][pc # "poll" => before(left_of_iteration', left_of_iteration)]_vars

\* "Filled: fully filled on arrival": an order reported Filled has traded.
FilledMeansTraded == pc = "handled" /\ answer.status = "Filled" => call.filled > 0
=============================================================================
