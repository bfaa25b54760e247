# Verification of the limit order book

TLA+ models of the matching engines, of the network gateway with its clients
and of the benchmark of this repository, TLC runs that check them on small instances, and TLAPS proofs of
nearly all the invariants and action properties for every value of the constants. Everything
is translated from the source; `PROJECT.json` maps each definition to the
lines it stands for.

## 1. Inventory

The system is a price-time-priority matching engine for one instrument
(`include/lob`), a deliberately simple reference engine and five earlier
versions of the real one (`engines`), a TCP order gateway with a UDP market
data feed around the engine (`net`), a benchmark, scripts and tests. The
engines and the gateway are single-threaded and hold no lock; only the benchmark
and the load client start threads, which meet through a few atomics. What makes
the core hard is intermediate states: one call walks and edits five data
structures that must agree, and calls back into the gateway before it has
finished; on the network side clients send, stall, disconnect and reconnect in
any order.

| Component | State | Operations | Talks to |
|---|---|---|---|
| `OrderBookT` (`order_book.hpp`) | two ladders of levels, intrusive FIFO per level, level totals, id map, pool | `submit_limit`, `submit_market`, `cancel`, `modify`; inside: `execute`, `match`, `rest`, `unlink`, `fok_fillable` | calls `on_trade`, `on_cancel` of its listener in mid-call |
| `Ladder` (in `order_book.hpp`) | occupancy bitmap in 64-bit words, cached best tick | `on_nonempty`, `on_empty`, `scan_worse`; `top_levels` on top of it | the engine, the feed |
| `Pool` (`pool.hpp`) | slabs, cursor, free list threaded through dead objects | `create`, `destroy`, `add_slab` | the engine |
| `IdMap` (`id_map.hpp`) | open-addressing table, count | `find`, `insert`, `erase`, `grow` | the engine |
| `NaiveBookT` (`naive_book.hpp`) | `std::map` of vectors | the same calls as the engine | differential tests |
| `OrderIds` (`gateway.hpp`) | which client owns which engine id, and how much is open | `assign`, `find`, `rest`, `fill`, `forget`, `owned_by` | driven by the handlers and by the engine's callbacks |
| `FeedPublisher` (`gateway.hpp`) | sequence number, side of the current taker | `on_trade`, `on_cancel`, `publish_book` | the engine's listener; UDP |
| Gateway handlers and loop (`gateway.hpp`, `gateway.cpp`) | connections with outbox and `dead` flag, next owner | `handle_frame`, `queue_send`, `flush_outbox`, `cancel_on_disconnect`, the `poll` loop | clients over TCP, the engine inline |
| `FrameBuffer` (`framing.hpp`) | bytes of the partial frame, `poisoned_` | `feed`, `drain` | both ends of a TCP connection |
| Codecs (`protocol.hpp`) | none | `encode`, `decode_*` | everything on the wire |
| `feed_client.cpp` | last sequence number, gaps, top of book shown | receive loop | the gateway's datagrams |
| `order_client.cpp` | operations acknowledged; in load mode also the phase of the run and the round trips of each thread | `run_auto`, `run_interactive`, `run_load` with one thread per connection | the gateway over TCP; threads through `measuring` and `stop` |
| `engines/book_v1.hpp` | tree map of levels, lists, id index | the same calls, with self-trade prevention | differential tests, benchmark |
| `engines/book_v2..v4.hpp` | the same with orders in a `Pool` and intrusive lists | the same; v4 with a split matching loop | `Pool`; tests and benchmark |
| `engines/book_v5.hpp` | ladders as in `OrderBookT`, a hash map from ids | the same | tests and benchmark |
| `bench/workload.hpp` | mid price, next id, cancel targets | `generate`: limit, market, cancel, modify operations | the benchmark feeds them to every engine |
| `bench/main.cpp` | allocation counter, `ready`, `go` | one-thread run; sharded run behind a barrier | one engine per shard |
| `scripts`, `tests` | - | - | - |

What is hard in each, and the property that makes it correct:

* **Engine.** `match` keeps a pointer and a level across `unlink` and
  `destroy`; a level may be empty while its bit is set and the cached best
  still points to it; totals are maintained at five places and read much
  later; the fill-or-kill pre-check has to predict what `match` will do under
  each self-trade policy. Correct means: the structures agree in *every*
  intermediate state, trades follow price-time priority, the book never
  crosses, nobody loses quantity without being told, results are true, a sweep
  ends.
* **Ladder.** Shifts by 0 and 64, unsigned indices counting down, word
  boundaries. Correct means that the cached best is the best and that a scan
  skips nothing.
* **Pool.** The free-list link overlays the dead object. Correct means that no
  two objects share a slot and that memory is not asked for while some is free.
* **Id map.** Backward-shift deletion across the end of the array, growth in
  the middle of an insert. Correct means: at each step it is the map its callers
  believe in.
* **Gateway.** The engine calls back into `OrderIds` in the middle of a handler
  that then updates `OrderIds` itself; clients reuse ids; disconnects happen
  between any two steps; an outbox may fill while the client's own frame is
  handled. Correct means: ownership mirrors the book, a client touches only its
  own orders, no order is orphaned, each report is true when it is queued, the
  feed is current, one client cannot hold the thread forever.
* **Pooled engines (v2 to v4).** A destroyed order's storage is overlaid at once
  and may be handed to the next order while pointers from before still exist, in
  the index, the links, the level and the loop. Correct means: nothing dangles,
  nothing leaks, and an observer cannot tell the engine from v1.
* **Framing.** A frame may come in any chunks. Correct means that chunking does
  not matter and `feed` returns.
* **Feed and clients.** Datagrams are lost, repeated and reordered; the
  subscriber has only the sequence number to notice. An order client blocks on
  reports without a timeout, and takes the first report that comes for its
  answer. The threads of a load run look at `measuring` and `stop` some time
  after the event they judge by them. Correct means: no counted gap is no missing
  or stale message, a client's loop stays closed, a load run starts with every
  connection served and counts the window's operations, and a client always ends.
* **Benchmark.** The stream of operations is generated without an engine, yet
  all engines must treat it alike; one counter serves all shards and is reset
  between their warm-up and their start. Correct means: fresh ids, live targets,
  and a count that is exactly that of the measured operations.

The full list, with lines, is under `hazards` in `PROJECT.json`.

## 2. Modules

| Module | Models | Notes |
|---|---|---|
| `OrderBook` | `OrderBookT` | the engine, one action per step of `match` and of the fill-or-kill pre-check |
| `OrderBookProofs` | | theorems about `OrderBook` |
| `NaiveBook` | `NaiveBookT` | the abstract specification of the engine |
| `BookV1` | `v1::BookT` | the same with self-trade prevention |
| `Differential` | | `OrderBook` implements `NaiveBook` and `BookV1` |
| `PooledBook` | `v2::BookT`, `v3::BookT`, `v4::BookT` | extends `Pool`; implements `BookV1` |
| `Ladder`, `LadderProofs` | `Ladder`, `top_levels` | bit by bit, one action per word read |
| `Pool` | `Pool` | free list as links in the slots |
| `PoolProofs` | | theorems about `Pool` and about `PooledBook` |
| `IdMap`, `IdMapProofs` | `IdMap` | one action per slot looked at |
| `AbstractMap` | | what `IdMap` promises: a finite map |
| `Gateway`, `GatewayProofs` | `OrderIds`, `FeedPublisher`, handlers, poll loop | composes the network side with the engine's callbacks |
| `Framing`, `FramingProofs` | `FrameBuffer` | one action per round of the loops |
| `Wire` | codecs of `protocol.hpp` | sizes, types, enumeration ranges |
| `Feed` | `FeedPublisher`, `feed_client.cpp` | sequence numbers over UDP |
| `Session`, `SessionProofs` | `order_client.cpp` in its three modes, the gateway as both clients see it | composes `Feed` with the order clients |
| `Bench`, `BenchProofs` | `workload.hpp`, the measuring part of `bench/main.cpp` | generator, threads, barrier, counter |
| `MC*` | | symmetry sets, value sets and bounds for TLC |

### OrderBook
An `Order*` is the id of the order that lives there; `mem` is the memory,
`pool` the slots that are alive, `index` the keys of the id map, `level`,
`bits`, `best` the two ladders. A call that returns at once is one action. A
fill-or-kill order first sets `pc = "fok"` and goes through `fok_fillable`:
`FokTotal` reads a level by its cached total (no prevention), `FokWalk`,
`FokOrder` and `FokLevelEnd` read it order by order (`pc = "walk"`), `FokEnd`
runs out of levels; `avail` is what has been found. A call that enters `match`
sets `pc = "outer"` and goes on through `NextLevel`
(the head of the outer loop), `StpStop`, `StpKill`, `PartialFill`, `FullFill`
(one round of the inner loop each), `EndLevel` (after the inner loop) and
`Finish` (`execute` after `match`: rest the remainder, build the result);
`Returned` hands control back. `tape` is the sequence of callbacks of the call,
`res` its result. `older` is history: who was in the level before an order
arrived. Callers may pass any id (also 0 and duplicates), any quantity (also 0)
and prices just outside the band.

The details of the pool, the id map and the bitmap words are in modules of
their own; `OrderBook` uses what those show: a slot is handed out once, the map
is a map, `scan_worse` returns the next occupied tick.

### NaiveBook, BookV1 and Differential
`NaiveBook` is the reference engine, vectors of orders per price and no
self-trade prevention. `BookV1` is the first version of the real engine: a map
of levels with cached totals, an id index and all three policies. `Differential`
instantiates both with the lists of `OrderBook` walked from their heads and
states that every step of the engine is a step of the simpler one or none:
callbacks, their order, results, queues and (v1) totals. Some calls that
`OrderBook` refuses are outside the others' contract - id 0, a price above the
band, and for the reference engine the id of a resting order, which it does not
look for. Such a call changes nothing in `OrderBook`, and the refinement hides it
(`refused`, `refused_duplicate`): it is no step of the simpler engine. A
fill-or-kill order becomes a call of the simpler engine when its pre-check has
its answer (`prechecks`): the steps before that are hidden too, and the simpler
engine's own pre-check, a recursive function, has to come to the same answer.

### PooledBook
Here a pointer is an address. `PooledBook` extends `Pool`: `create` and
`destroy` of an order are `Pool`'s own actions, so the slot of an order that has
left is the next one handed out, and what was stored there is gone (`Dead`, to
which any stale read leads). `mem` is the order in each slot, with its `prev`
and `next`; `orders_` is the id index; `book` holds head, tail, total and count
of each level of the two tree maps. The matching loop is one action per round,
as in `OrderBook`: `NextLevel`, `Stop`, `Kill`, then `Fill` (v2 and v3) or
`PartialFill` and `FullFill` (v4), `EndLevel`, `Finish`. `version` says which
loop is compiled; v3 differs from v2 in the order of an order's fields and in
nothing else, so it has no version of its own. The refinement mapping walks the
lists from their heads and forgets the addresses.

### Ladder, Pool, IdMap
A word of the bitmap is the set of its one bits; a shift by 64, undefined in
C++, is what the hardware does (no shift), so that the guards against it
matter. A slot of the pool is a number and holds either an object or a link.
In `IdMap` the multiplicative hash is an arbitrary function to the top bits,
chosen in the initial state: no property may depend on the multiplier. The real
table starts at 16 slots; the model starts at `InitSlots`.

### Gateway
`book` is the engine as the gateway can see it: resting orders with owner, side
and quantity. Prices are left open, so every engine behaviour is among those
allowed, which makes the properties stronger than for the engine alone.
`handle_frame` runs from `submit`/`Modify` through the callbacks `Trade` and
`Kill` to `NewOrderReturns`, `MarketReturns` or `ModifyReturns`; `Cancel` is one
action. The loop is `Poll` (with `accept`), the frames of each connection,
`Flush`, and `Reap` with `cancel_on_disconnect`. An outbox counts reports
instead of bytes. The policy `stp_` is chosen in the initial state. `reports` and `trade_msg` are history of the frame being
handled.

### Framing
Bytes take four values instead of 256 and a length is two of them, so that a
length prefix can be cut in the middle. `framed` says what the frames of a stream
are without buffers or chunks: there are cuts, each at the end of a whole frame
that begins at the one before, and the frames lie between them.

### Wire, Feed and Session
A frame is the number of its bytes, its length prefix, its type and its
enumeration bytes: all a decoder looks at besides the fields it copies. A
decoder (`decodes`) does not look at the type; the gateway and the subscriber
choose the decoder by it (`is_message`), the order client has one decoder only.
`Feed`
keeps every datagram sent; the subscriber receives any of them at any time, any
number of times, also never, and malformed ones from elsewhere besides. The best
prices of a book are told apart by the number of the message that shows them
first, so a stale top of book is always visible as one. `Session` is order
clients, the gateway reduced to what `Gateway` shows of it (it answers each
frame, after the reports of the orders it killed, and then publishes a Book),
and the subscriber. A report waits in the outbox of its connection until
`flush_outbox` sends it; one that finds the outbox full marks the connection
`dead` (`send_exec`), and `Reap` then sends what the socket still takes and drops
the client with the rest. An outbox counts reports, as in `Gateway`: the real one
holds 4096 of 16 bytes each. The clients are separate processes in `run_auto` and in
`run_interactive`, where the user may quit after any operation. In the
load mode they are the threads of one process: its main thread connects one
after the other and waits for the answer to a hello (`connect_and_hello`), starts
the threads, opens and closes the window (`next_phase`), sets `stop` and joins
them; a thread sends, waits for a report and only then looks at `measuring`
(`record_rtt`), so main may move between the two. The feed has a
subscriber in the auto mode only. `recv` returns any prefix of the
reports that have arrived, so a client may take the report of a kill for its
answer, run ahead and read the rest later. A connection may break at any time.
The policy is chosen in the initial state.

### Bench
`Generate` is one operation of `WorkloadGen`; its random draws are arbitrary
choices, quantities and times in force are left out. Then `main` starts the
shards (`Start`), waits until all are ready (`Await`), resets the counter, sets
`go` and joins; a shard builds its book, warms up, gates, spins and measures. A
dispatched operation allocates any number of times up to `MaxAllocs`, each counted
by `operator_new`. With one thread the same actions
are `run_benchmark`, which has no barrier. `measured` is history: allocations by
operations after the warm-up.

## 3. Runs

| Run | Bounds | Shows |
|---|---|---|
| `engine_cancel_resting` | 3 ids, 1 owner group and ungrouped orders, 2 ticks, quantity 2, CancelResting | structures agree in all intermediate states; no self-trade; every loss reported; refinement of engine v1 |
| `engine_reject_incoming` | the same, RejectIncoming | never crossed; results when an order is stopped after fills; fill-or-kill stops where `match` would; the pre-check and the sweep end |
| `engine_no_stp` | 3 ids, 3 ticks, quantity 2, protection 1 | ladder in sync, price-time priority over several levels, the market cap, refinement of the reference engine |
| `engine_pooled` | 3 ids, 1 owner group and ungrouped orders, 2 ticks, quantity 2, a pool of 1 slot that grows to 3; v2 with CancelResting, v4 with CancelResting and RejectIncoming | free list exact, nothing dangles or leaks, both loops implement engine v1 |
| `ladder` | 3 words, 8 ticks on both sides of each word boundary, both sides | best, scan and `top_levels` exact |
| `idmap` | 4 to 8 slots, 4 keys, homes around the wrap | the table is sound, refinement of `AbstractMap`, termination |
| `idmap_refused_insert` | the same | **violation**, see findings |
| `gateway` | 2 client ids, quantity 2, outbox of 2 reports, all policies: 3 orders under CancelResting, 2 otherwise; 2 connections, a third under RejectIncoming | mirror, ownership, true reports, orphans, feed, the loop's iteration ends |
| `gateway_filled` | 2 orders | **violation**, see findings |
| `framing` | every stream of 7 bytes in every chunking, buffer of one frame | chunking does not matter; `feed` returns |
| `session` | 2 order clients, with one order each in the auto mode, one and up to three operations (three in all) in the others, with and without kills, outboxes of 2 reports, 1 trade, 1 broken connection; 3 messages and 1 foreign datagram received | no gap means nothing missing or stale; closed loop; live start; the window's count; clients end, and why they may fail |
| `bench` | 1 to 3 shards, 1 warm-up and 3 measured operations each, 2 targets remembered, 0 to 2 allocations by an operation, mid one tick above its lower limit | the stream is sound; the count is exact; nobody waits for ever |

Why the bounds are enough to be interesting. Three orders make a list with a
head, a middle and a tail, and one taker sweep a level of two, or two levels;
with quantity 2 fills may be partial on either side. One owner group and the
exempt value give orders that are a taker's own and orders that are not; another
group would be treated as the latter. Two ticks are needed for a
book that could cross, three for a level that is skipped. The ladder has a first, a
middle and a last word. The pool starts with one slot, so that slabs are added in
the middle of a session, and orders that come after are put into recycled slots;
the loops of v2 and v4 do the same on a stop, so v2 is run with kills only. The
id map is filled past its load limit with clusters that wrap around the end
before and after growth. In the gateway a second
connection brings foreign orders, a third the reuse after a disconnect; a kill
needs a third order, so that one is killed and one trades in one call; an outbox
of two reports overflows within one frame. The framing buffer is as small
as the `static_assert` permits, so chunks larger than the buffer occur. In the
session two orders suffice for one that rests and one that kills it or trades
with it, and three of one client for two that the third kills, whose reports and
its own answer overflow an outbox of two within one frame; three messages for a loss, a repetition or an old message after newer
ones. In the benchmark the third shard is one that is still warming up while one
is ready and one not started; four operations fill the two remembered targets,
evict one, and cancel or modify one that is left.

Symmetry is used for order ids and client ids, which the code only compares for
equality, and only in runs without liveness properties under fairness.

**Fairness.** `idmap` and `framing` assume weak fairness of the steps of the one
thread (`Step`): once inside a call it keeps running. `session` assumes it of
the gateway, of each client or thread and of the load client's main thread, all
of which are scheduled by the operating system and never wait for a lock;
nothing is assumed about the network, the subscriber, or when a connection
breaks. Two termination properties need no fairness because they say more: every
step of a sweep or of a pre-check (`SweepEnds`) and every step of an iteration of the gateway's
loop (`IterationEnds`) lowers a measure. The gateway assumes nothing about its
clients: one may always have another frame ready, and the iteration ends
nevertheless because the reports it is owed fill its outbox and it is dropped.

**Deadlock** is checked in every run but `framing` and `session`, where a peer
that has sent its last byte and a client that has ended are legitimate ends. In
`bench` the end of the program is an action of its own (`Finished`), so that any
other stop, such as everyone spinning, is an error.

## 4. Findings

* `idmap_refused_insert`. The comment on `IdMap::insert` says it "changes
  nothing" when the key is present. At the load limit it grows and rehashes the
  table first. `OrderBookT` always looks an id up before inserting it and never
  meets the case.
* `gateway_filled`. `ExecStatus::Filled` is documented as "fully filled on
  arrival". A market order of quantity 0 is refused by the engine, and is
  answered `Filled`, since 0 of 0 were filled. A limit order of quantity 0 is
  answered `Rejected`.

## 5. Proofs

All theorems are of the form `Spec => []P`, `Spec => [][A]_vars` or
`Spec => Abstract!Spec`, for every value of the constants that satisfies the
modules' assumptions: any set of ids, any band that starts above 0 (`kNoPrice`
is 0), any policy, any number of connections, clients, shards, operations,
messages or bytes. Bounds that exist for TLC (`MaxSlot`, `MaxStream`, `MaxTrades`,
...) are arbitrary numbers in the proofs. In each module the invariant that TLC
checks is not inductive; what has to be added to it is the argument.

* **`OrderBookProofs`.** The inductive invariant `IInv` joins type correctness,
  `ArrivalOrder` (the history `older` is a strict total order within each
  level), `ListsAreFifo`, `LadderInSync`, `IndexInSync`, `SweepSound` and
  `NeverCrossed`. None is inductive alone: an unlink keeps the list sound only
  because `next` and `prev` agree, which needs the arrival order; `FullFill`
  keeps the saved pointer sound only because the order consumed was the head;
  resting the remainder keeps the book uncrossed only because the sweep ended
  with the best opposite tick out of reach, which needs the cached best to be
  right; and the cached best is right after `EndLevel` only because no other
  level was touched. Lists are described by relations between neighbours and
  not by walking, so that no induction over data is needed. There is one lemma
  per action (`Step_...`), over lemmas for `take_off`, `rest`, `on_empty`,
  `on_nonempty` and the in-place change of a quantity. From `IInv` follow the
  action properties: `PriorityHolds`, `NoSelfTrade`, `LossesReported`, and
  `SweepTerminates`, which needs one invariant more, `AfterOver`: who leaves the
  inner loop early has nothing left to sweep. It is a statement about steps, each
  of which lowers a measure, and so needs no fairness. The measure of the
  pre-check is the ticks and orders it has not read; that it never comes back to
  one needs `FokInv`.
  `TotalsCorrect` says of sums what `ListsCorrect` says of links. A sum over a
  set of orders is the number of its unit lots (`units`, `lots`), so that the
  library's facts about cardinality take the place of an induction; `BookSteps`
  says that a step does one of four things to the book (nothing, take one order
  off, put one on, change one quantity), and each moves a level's total by the
  quantity concerned. `ResultsCorrect` adds `TapeInv` (what the tape has printed
  and what remains make up what was asked), `ProtectionCaps` adds `CapInv` (all
  prices on the tape lie between the best price at the start and the cap).
  `FokCorrect` joins the pre-check to the sweep by `FokInv`. While the pre-check
  reads, `avail` is the lots of the orders behind the cursor that are not the
  taker's own, they are too few, and none behind it would stop the taker; the
  cursor has skipped nothing because the next occupied tick is the next level.
  During the sweep what remains of the order never exceeds the lots it can
  still reach (`ReachWithout`: a fill takes as much from both, a kill takes
  nothing from them). So a sweep that finds no level in reach has
  nothing left to fill, and `StpStop` cannot happen to such an order.
* **`LadderProofs`.** For every band and so every number of words:
  `CachedBestCorrect`, `ScanCorrect`, `TopLevelsCorrect`, `LadderTypes`. The
  strengthening says that no bit outside the band is ever set, that the bits in
  question are those of the current word, that the emptied best tick is gone
  while its successor is looked for, and that what `top_levels` has written so
  far is everything better than where it stands.
* **`PoolProofs`.** `FreeListCorrect`, `NoSharedStorage`, `GrowthIsLastResort`,
  for every capacity and any number of slabs. The strengthening says that the
  sets `below` are nested along the links, so the list has no cycle.
  `StorageCorrect` is about engines v2 to v4, in which pointers are addresses and
  addresses are reused. `BookInv` says that every live order's links lead to live
  orders that link back, within its level; that the ends of a level are its ends;
  and that there is a rank which grows along the links. Without the rank a level
  could own a second, circular list that the head does not lead to, and dropping
  the level when its head is gone would leave those orders behind
  (`ClosedHasHead`: whatever is closed under predecessors contains the head). The
  pointer of the matching loop is the head of the level as long as the loop goes
  on. An order leaves by `Leaves`, from the front or from the middle, and arrives
  by `Joins`. `EnginesImplementPool` is the pool's own specification as seen from
  its callers: they destroy only what is in use, so all that is proved of the
  pool holds in their hands (`PooledFreeListCorrect`).
* **`IdMapProofs`.** `IdMapTableSound` for every table size and hash function,
  and `IdMapRefinesMap`: the table with its half-done erases and rehashes
  implements `AbstractMap`. The invariant says of each loop what it has
  established: a probe, that each slot it has passed holds another key; the
  backward shift, that the slots from the hole on are in use and that no entry it
  has passed wants the hole; the rehash, that what is moved and what is still to
  move are different keys and few enough for the new table. Of the sizes
  only what follows from their being powers of two is assumed (`SizeAssumption`),
  and that the values of the map differ from the
  answers of the calls (`ValAssumption`), which only the refinement needs.
* **`GatewayProofs`.** `GatewayMirrorExact`, `GatewayReportsTrue`,
  `GatewayFeedTrue`, `GatewayNoOrphans`, `GatewayOnlyOwnOrders`,
  `GatewayIterationEnds`. The mirror is off by exactly the order the engine call
  is about while a call runs; `CallSound` says by how much, at each point of a
  handler. `OwnersOpen` says that resting orders belong to connections that are
  not closed, and `IndexSound` that the loop's indices are within the list it is
  walking although connections come and go.
* **`FramingProofs`.** `FramingExact`, for every stream, chunking and capacity
  that holds a frame. The invariant ties the three places a byte can be in to the
  stream: behind the last frame delivered come the unread bytes of the buffer and
  then the rest of the chunk, nothing missing and nothing twice.
* **`SessionProofs`.** `SessionSubscriberRight`, `SessionOneOpInFlight`,
  `SessionLoadStartsLive`, `SessionWindowExact`, for any number of clients,
  operations, messages and breaks. The first needs that a sequence number names
  one message for ever, and that without a gap the last number seen is the number
  of messages seen; the second, that at most one thing is on the way of a connection
  (`on_the_way`: a frame, the frame in the gateway's hands, its report in the outbox
  or sent), so that without kills a report always finds its outbox empty, whatever
  its capacity, and nobody is dropped;
  the last, that a thread's count is off by at most the operation in its hands.
* **`BenchProofs`.** `BenchStreamSound` for any stream length, and
  `BenchMeasuredRegionExact` for any number of shards: the barrier opens only
  when all shards have come through their warm-up, so no allocation of a warm-up
  is made after the reset.

Only model-checked, and why:

* `ReproducesNaive`, `ReproducesV1` and `PooledReproducesV1`: the mappings turn
  linked lists into sequences by walking them, a recursion over data, which the
  installed provers cannot do.
* `EveryCallReturns`, `FeedReturns` and `ClientsEnd`: liveness under fairness.

## 6. Not modelled

* Codecs (`protocol.hpp`): the values of the fields, which are copied; the
  byte-level `Reader` and `Writer` appear as sizes.
* What the order client measures and prints, its percentiles and its command
  parsing. Its comment (`order_client.cpp:182`) says that one operation is in
  flight per connection. `OneOpInFlight` shows this for a gateway that kills
  nothing; with `--stp cancel-resting` it does not hold: a kill report that
  arrives alone makes the client run ahead and time operations by the reports of
  earlier ones. Under that policy a client can also be dropped through no fault of
  its own: a frame that kills 4096 of its orders owes it 4097 reports, one more than
  `kMaxOutbox` holds (`gateway.hpp:196`), however fast it reads. `ClientsEnd` counts
  this (`flooded`) among the reasons for which a client may fail, and shows that it
  ends all the same.
* A gateway that restarts under a running subscriber: its numbers begin again,
  the subscriber counts one gap, and after a gap nothing is claimed.
* `engines/book_v5.hpp`: the code of `OrderBookT` but for the id index
  (`std::unordered_map`) and without market protection and the check for id 0.
  `OrderBook` with `protection_ = 0` is its model in all but name.
* The benchmark's untimed second pass, clock calibration, statistics and output
  files. The comment at `workload.hpp:117` calls one half of the modifies a
  "size-down"; the new quantity is drawn without knowing what rests, so it may
  be larger, in which case the engine moves the order to the back. `StreamSound`
  claims only that it is no reprice.
* Read-only getters, `check_invariants` as code (it is the source of the
  structural invariants), command lines, socket set-up, signals and shutdown.
* `scripts`, `tests`; the tests are used as a statement of intent.
* A pool of capacity 0 and a band that contains tick 0: preconditions the
  constructors do not check and no caller violates; they are assumptions here.

## 7. Plan

1. Done: the engine with its ladder, pool and id map; the reference engine,
   engine v1 and the pooled engines; the gateway; framing, codecs, the feed and
   the order client in all its modes; the benchmark; the proofs above.
2. Next, prove: a refinement of `BookV1` with the queues carried along as history
   instead of walked.
3. Then, model: the engine of `Gateway` shown to abstract `OrderBook`; v5 as a
   further implementation of `BookV1`.
