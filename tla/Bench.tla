------------------------------- MODULE Bench -------------------------------
(***************************************************************************)
(* The benchmark of bench/: the operations WorkloadGen generates before    *)
(* anything is timed, and the run that counts heap allocations, in one     *)
(* thread (run_benchmark) or in one thread per shard behind a start        *)
(* barrier (run_benchmark_sharded).                                        *)
(*                                                                         *)
(* Random draws are arbitrary choices.  Quantities, times in force and the *)
(* outcome of matching matter to no property here and are left out, and so *)
(* is the clock; an operation of a book allocates any number of times (a   *)
(* pool that grows: more than once).  Of the operations a shard is given   *)
(* only their number is kept once they are all generated.  The atomics are *)
(* sequentially consistent here: the acquire and release pairs on ready    *)
(* and go order every access to the counter that matters, so relaxed       *)
(* accesses to it give no other outcome.                                   *)
(***************************************************************************)
EXTENDS Integers, Sequences, FiniteSetsExt

CONSTANTS
    MaxThreads,    \* bound: the largest --threads
    MaxAllocs,     \* bound: allocations by one operation
    warmup, cfg_ops,       \* options --warmup and --ops
    kMaxLive,      \* 50'000: cancel and modify targets remembered
    kDriftEvery,   \* 64: operations between two moves of the mid price
    mid0, mid_lo, mid_hi,  \* 10'000, 9'000, 11'000
    PassiveOff, AggressiveOff   \* 1 .. 8 and 0 .. 2

ASSUME OptionAssumption == MaxThreads \in Nat \ {0} /\ MaxAllocs \in Nat /\ warmup \in Nat /\ cfg_ops \in Nat \ {0}
ASSUME GeneratorAssumption ==
    /\ kMaxLive \in Nat \ {0} /\ kDriftEvery \in Nat \ {0}
    /\ mid_lo \in Int /\ mid_hi \in Int /\ mid0 \in mid_lo .. mid_hi
    /\ PassiveOff \subseteq Int /\ AggressiveOff \subseteq Int

Side == {"Bid", "Ask"}

VARIABLES
    out, mid_, next_id_, live_,   \* WorkloadGen
    threads,       \* option --threads
    main,          \* where main stands
    t,             \* main: the shard it generates for, starts or joins
    ready, go, g_allocs,          \* the atomics
    allocs,        \* main: the number it reports
    pc, i,         \* of each shard: where it stands, operations done
    measured       \* history: allocations by operations after warmup

generator == <<out, mid_, next_id_, live_>>
shards == <<pc, i, measured>>
vars == <<generator, threads, main, t, ready, go, g_allocs, allocs, shards>>

Thread == 1 .. threads

-----------------------------------------------------------------------------
(* WorkloadGen *)

fresh_gen == out' = << >> /\ mid_' = mid0 /\ next_id_' = 1 /\ live_' = << >>

clamp(m) == IF m < mid_lo THEN mid_lo ELSE IF m > mid_hi THEN mid_hi ELSE m
\* The mid price before the next operation.
drift_mid == IF Len(out) % kDriftEvery = 0 THEN {clamp(mid_ + d) : d \in -1 .. 1} ELSE {mid_}

\* live_ without its j-th entry: the last one takes its place.
swap_pop(j) == SubSeq([live_ EXCEPT ![j] = live_[Len(live_)]], 1, Len(live_) - 1)

\* The pools live_ may become when an order is added: at the cap some entry goes.
track(ref) ==
    IF Len(live_) >= kMaxLive THEN {Append(swap_pop(j), ref) : j \in DOMAIN live_}
    ELSE {Append(live_, ref)}

\* s is the side, off the distance from the mid, away (1) or through it (-1).
priced(mid, s, off, away) == IF s = "Bid" THEN mid - away * off ELSE mid + away * off

limit_at(s, px) ==
    /\ live_' \in track([id |-> next_id_, side |-> s, px |-> px])
    /\ next_id_' = next_id_ + 1
    /\ out' = Append(out, [kind |-> "Limit", id |-> next_id_, side |-> s, px |-> px])

passive_limit(mid) == \E s \in Side, off \in PassiveOff : limit_at(s, priced(mid, s, off, 1))
aggressive_limit(mid) == \E s \in Side, off \in AggressiveOff : limit_at(s, priced(mid, s, off, -1))

market_op ==
    /\ \E s \in Side : out' = Append(out, [kind |-> "Market", id |-> next_id_, side |-> s, px |-> 0])
    /\ next_id_' = next_id_ + 1
    /\ UNCHANGED live_

\* Mutant: a cancelled order stays a target.
Bug_cancel_op_keeps ==
    \E idx \in DOMAIN live_ :
        /\ out' = Append(out, [kind |-> "Cancel", id |-> live_[idx].id, side |-> live_[idx].side, px |-> 0])
        /\ UNCHANGED <<live_, next_id_>>

cancel_op ==
    \E idx \in DOMAIN live_ :
        /\ out' = Append(out, [kind |-> "Cancel", id |-> live_[idx].id, side |-> live_[idx].side, px |-> 0])
        /\ live_' = swap_pop(idx)
        /\ UNCHANGED next_id_

\* A new size at the price last told ("Resize"), or a reprice; one OpKind.
modify_op(mid) ==
    \E idx \in DOMAIN live_ :
        LET ref == live_[idx]
            modified(kind, px) == [kind |-> kind, id |-> ref.id, side |-> ref.side, px |-> px]
        IN  /\ \/ out' = Append(out, modified("Resize", ref.px)) /\ UNCHANGED live_
               \/ \E off \in PassiveOff :
                     LET px == priced(mid, ref.side, off, 1)
                     IN  out' = Append(out, modified("Reprice", px)) /\ live_' = [live_ EXCEPT ![idx].px = px]
            /\ UNCHANGED next_id_

\* One round of generate's loop, for the shard main is at.
Generate ==
    /\ main = "generate" /\ Len(out) < warmup + cfg_ops
    /\ mid_' \in drift_mid
    /\ passive_limit(mid_') \/ aggressive_limit(mid_') \/ market_op \/ cancel_op \/ modify_op(mid_')
    /\ UNCHANGED <<threads, main, t, ready, go, g_allocs, allocs, shards>>

\* generate returns: the shard has its operations, the next one its generator.
Generated ==
    /\ main = "generate" /\ Len(out) = warmup + cfg_ops
    /\ fresh_gen
    /\ IF t = threads THEN main' = "start" /\ t' = 1 ELSE t' = t + 1 /\ UNCHANGED main
    /\ UNCHANGED <<threads, ready, go, g_allocs, allocs, shards>>

-----------------------------------------------------------------------------
(* main *)

sharded == threads > 1

\* operator new counts each of n allocations.
operator_new(n) == g_allocs' = g_allocs + n

\* A shard's thread is started; a single shard runs in main itself.
Start ==
    /\ main = "start"
    /\ pc' = [pc EXCEPT ![t] = "build"]
    /\ IF sharded THEN operator_new(1) ELSE UNCHANGED g_allocs
    /\ IF t = threads THEN main' = (IF sharded THEN "await" ELSE "join") /\ t' = 1
       ELSE t' = t + 1 /\ UNCHANGED main
    /\ UNCHANGED <<generator, threads, ready, go, allocs, i, measured>>

\* Mutant: one shard is not waited for.
Bug_all_ready == ready >= threads - 1
all_ready == ready >= threads

Await ==
    /\ main = "await" /\ all_ready
    /\ main' = "reset"
    /\ UNCHANGED <<generator, threads, t, ready, go, g_allocs, allocs, shards>>

Reset ==
    /\ main = "reset"
    /\ g_allocs' = 0 /\ main' = "go"
    /\ UNCHANGED <<generator, threads, t, ready, go, allocs, shards>>

Go ==
    /\ main = "go"
    /\ go' = TRUE /\ main' = "join"
    /\ UNCHANGED <<generator, threads, t, ready, g_allocs, allocs, shards>>

\* Shards are joined in order; after the last the counter is read.
Join ==
    /\ main = "join" /\ pc[t] = "ended"
    /\ IF t = threads THEN main' = "done" /\ allocs' = g_allocs /\ UNCHANGED t
       ELSE t' = t + 1 /\ UNCHANGED <<main, allocs>>
    /\ UNCHANGED <<generator, threads, ready, go, g_allocs, shards>>

-----------------------------------------------------------------------------
(* A shard: make_book and run_ops_gated *)

\* The book, and the sample buffer that resize touches in advance.
Build(s) ==
    /\ pc[s] = "build"
    /\ operator_new(2)
    /\ pc' = [pc EXCEPT ![s] = "warmup"]
    /\ UNCHANGED <<generator, threads, main, t, ready, go, allocs, i, measured>>

\* One operation, which allocates n times.
dispatch(s, n) ==
    /\ operator_new(n)
    /\ i' = [i EXCEPT ![s] = @ + 1]
    /\ UNCHANGED <<generator, threads, main, t, ready, go, allocs, pc>>

WarmUp(s) ==
    /\ pc[s] = "warmup" /\ i[s] < warmup
    /\ \E n \in 0 .. MaxAllocs : dispatch(s, n)
    /\ UNCHANGED measured

\* gate(): the counter is reset in the single run, a barrier in the sharded.
Gate(s) ==
    /\ pc[s] = "warmup" /\ i[s] = warmup
    /\ IF sharded THEN ready' = ready + 1 /\ UNCHANGED g_allocs
       ELSE g_allocs' = 0 /\ UNCHANGED ready
    /\ pc' = [pc EXCEPT ![s] = IF sharded THEN "spin" ELSE "measure"]
    /\ UNCHANGED <<generator, threads, main, t, go, allocs, i, measured>>

Spin(s) ==
    /\ pc[s] = "spin" /\ go
    /\ pc' = [pc EXCEPT ![s] = "measure"]
    /\ UNCHANGED <<generator, threads, main, t, ready, go, g_allocs, allocs, i, measured>>

Measure(s) ==
    /\ pc[s] = "measure" /\ i[s] < warmup + cfg_ops
    /\ \E n \in 0 .. MaxAllocs : dispatch(s, n) /\ measured' = measured + n

\* The samples are moved out and the book is released.
End(s) ==
    /\ pc[s] = "measure" /\ i[s] = warmup + cfg_ops
    /\ pc' = [pc EXCEPT ![s] = "ended"]
    /\ UNCHANGED <<generator, threads, main, t, ready, go, g_allocs, allocs, i, measured>>

-----------------------------------------------------------------------------
Init ==
    /\ out = << >> /\ mid_ = mid0 /\ next_id_ = 1 /\ live_ = << >>
    /\ threads \in 1 .. MaxThreads
    /\ main = "generate" /\ t = 1
    /\ ready = 0 /\ go = FALSE /\ g_allocs = 0 /\ allocs = 0
    /\ pc = [s \in Thread |-> "none"] /\ i = [s \in Thread |-> 0] /\ measured = 0

Finished == main = "done" /\ UNCHANGED vars

Shard(s) == Build(s) \/ WarmUp(s) \/ Gate(s) \/ Spin(s) \/ Measure(s) \/ End(s)

Next ==
    \/ Generate \/ Generated \/ Start \/ Await \/ Reset \/ Go \/ Join
    \/ \E s \in Thread : Shard(s)
    \/ Finished

Spec == Init /\ [][Next]_vars

-----------------------------------------------------------------------------
\* The stream is one every engine treats alike, though it is generated without
\* one: ids are fresh, so the engines that look for duplicates and the one
\* that does not agree; a cancel or modify names an order that was a limit
\* order and has not been cancelled in the stream, on that order's side; and a
\* new size is sent at the price last told, so it is no reprice.
StreamSound ==
    \A k \in DOMAIN out :
        LET x == out[k]
            earlier == {j \in 1 .. (k - 1) : out[j].id = x.id}
        IN  IF x.kind \in {"Limit", "Market"} THEN x.id # 0 /\ earlier = {}
            ELSE /\ \E j \in earlier : out[j].kind = "Limit" /\ out[j].side = x.side
                 /\ \A j \in earlier : out[j].kind # "Cancel"
                 /\ x.kind = "Resize" => x.px = out[Max(earlier)].px

\* "All shards measure concurrently" and "allocations over the measured region
\* only": no shard measures while another still warms up, and the number
\* reported is that of the allocations made by the measured operations, no
\* warm-up, book or thread among them and none of theirs lost.
MeasuredRegionExact ==
    /\ \A s \in Thread : pc[s] \in {"measure", "ended"} =>
          \A u \in Thread : pc[u] \notin {"none", "build", "warmup"}
    /\ main = "done" => allocs = measured
=============================================================================
