---------------------------- MODULE BenchProofs ----------------------------
(***************************************************************************)
(* The benchmark, for every number of shards, operations and warm-up       *)
(* operations: the measured region of the allocation counter (the barrier) *)
(* and the stream that the workload generator writes.                      *)
(***************************************************************************)
EXTENDS Bench, TLAPS, FiniteSetTheorems, SequenceTheorems

PcValue == {"none", "build", "warmup", "spin", "measure", "ended"}
MainValue == {"generate", "start", "await", "reset", "go", "join", "done"}

RunTyped ==
    /\ threads \in Nat \ {0} /\ main \in MainValue /\ t \in 1 .. threads
    /\ pc \in [Thread -> PcValue] /\ i \in [Thread -> Nat]
    /\ ready \in Nat /\ go \in BOOLEAN /\ g_allocs \in Nat /\ measured \in Nat

\* The shards past the gate.
gated == {s \in Thread : pc[s] \in {"spin", "measure", "ended"}}

\* Which shards main has started, and which it has joined.
StartSound ==
    /\ main = "generate" => \A s \in Thread : pc[s] = "none"
    /\ main = "start" => \A s \in Thread : s >= t => pc[s] = "none"
    /\ main = "join" => \A s \in Thread : s < t => pc[s] = "ended"
    /\ main = "done" => \A s \in Thread : pc[s] = "ended"
    /\ main \in {"await", "reset", "go"} => threads > 1 /\ t = 1

\* The barrier: ready counts the shards at or past it, and nobody passes it
\* before main, which has seen all of them there, lets them.
BarrierSound ==
    IF threads > 1
    THEN /\ ready = Cardinality(gated)
         /\ main \in {"reset", "go", "join", "done"} => gated = Thread
         /\ go => main \in {"join", "done"}
         /\ \A s \in Thread : pc[s] \in {"measure", "ended"} => go
    ELSE \A s \in Thread : pc[s] # "spin"

\* What the counter holds: after its reset, the measured allocations.
CounterSound ==
    /\ IF threads > 1
       THEN /\ main \in {"go", "join", "done"} => g_allocs = measured
            /\ ~go => measured = 0
       ELSE \A s \in Thread : IF pc[s] \in {"measure", "ended"} THEN g_allocs = measured
                              ELSE measured = 0
    /\ main = "done" => allocs = measured

RunInv == RunTyped /\ StartSound /\ BarrierSound /\ CounterSound

-----------------------------------------------------------------------------
(* The shards past the gate *)

LEMMA GatedFinite ==
    ASSUME RunTyped
    PROVE  /\ IsFiniteSet(Thread) /\ Cardinality(Thread) = threads
           /\ IsFiniteSet(gated) /\ Cardinality(gated) \in Nat /\ Cardinality(gated) <= threads
           /\ Cardinality(gated) = threads => gated = Thread
<1>1. threads \in Nat \ {0}
  BY DEF RunTyped
<1>2. IsFiniteSet(Thread) /\ Cardinality(Thread) = threads
  BY <1>1, FS_Interval DEF Thread
<1>3. gated \subseteq Thread
  BY DEF gated
<1> QED
  BY <1>2, <1>3, FS_Subset, FS_CardinalityType

\* A step that moves only shard s, and not across the gate.
LEMMA SameGated ==
    ASSUME RunTyped, UNCHANGED threads, NEW s \in Thread, NEW v, pc' = [pc EXCEPT ![s] = v],
           (v \in {"spin", "measure", "ended"}) <=> (pc[s] \in {"spin", "measure", "ended"})
    PROVE  gated' = gated
<1>1. pc \in [Thread -> PcValue] /\ Thread' = Thread
  BY DEF RunTyped, Thread
<1>2. \A u \in Thread : (pc'[u] \in {"spin", "measure", "ended"}) <=> (pc[u] \in {"spin", "measure", "ended"})
  BY <1>1
<1> QED
  BY <1>1, <1>2 DEF gated

-----------------------------------------------------------------------------
(* main *)

LEMMA MainSteps == RunInv /\ (Generate \/ Generated \/ Start \/ Await \/ Reset \/ Go \/ Join) => RunInv'
<1> SUFFICES ASSUME RunInv, Generate \/ Generated \/ Start \/ Await \/ Reset \/ Go \/ Join
             PROVE  RunInv'
  OBVIOUS
<1>1. RunTyped /\ StartSound /\ BarrierSound /\ CounterSound
  BY DEF RunInv
<1>2. threads' = threads /\ Thread' = Thread /\ threads \in Nat \ {0} /\ t \in 1 .. threads
  BY <1>1 DEF RunTyped, Generate, Generated, Start, Await, Reset, Go, Join, Thread
<1>3. CASE Generate \/ Generated
  <2>1. UNCHANGED <<threads, ready, go, g_allocs, allocs, pc, i, measured>> /\ gated' = gated
    BY <1>3 DEF Generate, Generated, shards, gated, Thread
  <2>2. main = "generate" /\ main' \in {"generate", "start"} /\ t' \in 1 .. threads
    BY <1>2, <1>3 DEF Generate, Generated
  <2>3. RunTyped'
    BY <1>1, <1>2, <2>1, <2>2 DEF RunTyped, MainValue
  <2>4. StartSound' /\ BarrierSound' /\ CounterSound'
    BY <1>1, <1>2, <2>1, <2>2 DEF StartSound, BarrierSound, CounterSound
  <2> QED
    BY <2>3, <2>4 DEF RunInv
<1>4. CASE Start
  <2>1. /\ main = "start" /\ pc' = [pc EXCEPT ![t] = "build"]
        /\ UNCHANGED <<threads, ready, go, allocs, i, measured>> /\ g_allocs' \in Nat
    BY <1>1, <1>4 DEF Start, operator_new, RunTyped
  <2>2. pc[t] = "none" /\ t \in Thread
    BY <1>1, <1>2, <2>1 DEF StartSound, Thread
  <2>3. gated' = gated
    BY <1>1, <2>1, <2>2, SameGated
  <2>4. IF t = threads THEN main' = (IF threads > 1 THEN "await" ELSE "join") /\ t' = 1
        ELSE t' = t + 1 /\ main' = main
    BY <1>4 DEF Start, sharded
  <2>5. main' \in {"start", "await", "join"} /\ t' \in 1 .. threads
    BY <1>2, <2>1, <2>4
  <2>6. pc' \in [Thread -> PcValue] /\ \A s \in Thread \ {t} : pc'[s] = pc[s]
    BY <1>1, <2>1, <2>2 DEF RunTyped, PcValue
  <2>7. pc'[t] = "build"
    BY <1>1, <2>1, <2>2 DEF RunTyped
  <2>8. RunTyped'
    BY <1>1, <1>2, <2>1, <2>5, <2>6 DEF RunTyped, MainValue
  <2>9. StartSound'
    <3>1. CASE t = threads
      <4>1. main' # "start" /\ main' # "generate" /\ main' # "done" /\ t' = 1
        BY <2>4, <2>5, <3>1
      <4>2. main' \in {"await", "reset", "go"} => threads > 1
        BY <2>4, <3>1
      <4>3. \A s \in Thread : ~(s < 1)
        BY DEF Thread
      <4> QED
        BY <1>2, <4>1, <4>2, <4>3 DEF StartSound
    <3>2. CASE t # threads
      <4>1. main' = "start" /\ t' = t + 1
        BY <2>1, <2>4, <3>2
      <4>2. \A s \in Thread : s >= t + 1 => s # t /\ s >= t
        BY <1>2 DEF Thread
      <4>3. \A s \in Thread : s >= t + 1 => pc'[s] = "none"
        BY <1>1, <2>1, <2>6, <4>2 DEF StartSound
      <4> QED
        BY <1>2, <4>1, <4>3 DEF StartSound
    <3> QED
      BY <3>1, <3>2
  <2>10. BarrierSound'
    <3>1. CASE threads > 1
      <4>1. main' \in {"start", "await"} /\ ready' = Cardinality(gated')
        BY <1>1, <2>1, <2>3, <2>4, <3>1 DEF BarrierSound
      <4>2. ~go
        BY <1>1, <2>1, <3>1 DEF BarrierSound
      <4>3. \A s \in Thread : pc'[s] \notin {"measure", "ended"}
        BY <1>1, <2>6, <2>7, <3>1, <4>2 DEF BarrierSound
      <4> QED
        BY <1>2, <2>1, <3>1, <4>1, <4>2, <4>3 DEF BarrierSound
    <3>2. CASE ~(threads > 1)
      BY <1>1, <1>2, <2>6, <2>7, <3>2 DEF BarrierSound
    <3> QED
      BY <3>1, <3>2
  <2>11. CounterSound'
    <3>1. CASE threads > 1
      BY <1>1, <1>2, <2>1, <2>4, <3>1 DEF CounterSound, BarrierSound
    <3>2. CASE ~(threads > 1)
      <4>1. Thread = {t}
        BY <1>2, <3>2 DEF Thread
      <4>2. measured = 0
        BY <1>1, <2>2, <3>2 DEF CounterSound
      <4> QED
        BY <1>2, <2>1, <2>5, <2>7, <3>2, <4>1, <4>2 DEF CounterSound
    <3> QED
      BY <3>1, <3>2
  <2> QED
    BY <2>8, <2>9, <2>10, <2>11 DEF RunInv
<1>5. CASE Await
  <2>1. /\ main = "await" /\ main' = "reset" /\ ready >= threads
        /\ UNCHANGED <<threads, t, ready, go, g_allocs, allocs, pc, i, measured>>
    BY <1>5 DEF Await, all_ready, shards
  <2>2. gated' = gated /\ threads > 1
    BY <1>1, <2>1 DEF gated, Thread, StartSound
  <2>3. gated = Thread
    BY <1>1, <1>2, <2>1, <2>2, GatedFinite DEF BarrierSound
  <2>4. RunTyped' /\ StartSound'
    BY <1>1, <1>2, <2>1, <2>2 DEF RunTyped, StartSound, MainValue
  <2>5. BarrierSound' /\ CounterSound'
    BY <1>1, <1>2, <2>1, <2>2, <2>3 DEF BarrierSound, CounterSound
  <2> QED
    BY <2>4, <2>5 DEF RunInv
<1>6. CASE Reset
  <2>1. /\ main = "reset" /\ main' = "go" /\ g_allocs' = 0
        /\ UNCHANGED <<threads, t, ready, go, allocs, pc, i, measured>>
    BY <1>6 DEF Reset, shards
  <2>2. gated' = gated /\ threads > 1 /\ ~go
    BY <1>1, <2>1 DEF gated, Thread, StartSound, BarrierSound
  <2>3. RunTyped' /\ StartSound'
    BY <1>1, <1>2, <2>1, <2>2 DEF RunTyped, StartSound, MainValue
  <2>4. BarrierSound' /\ CounterSound'
    BY <1>1, <1>2, <2>1, <2>2 DEF BarrierSound, CounterSound
  <2> QED
    BY <2>3, <2>4 DEF RunInv
<1>7. CASE Go
  <2>1. /\ main = "go" /\ main' = "join" /\ go' = TRUE
        /\ UNCHANGED <<threads, t, ready, g_allocs, allocs, pc, i, measured>>
    BY <1>7 DEF Go, shards
  <2>2. gated' = gated /\ threads > 1
    BY <1>1, <2>1 DEF gated, Thread, StartSound
  <2>3. RunTyped'
    BY <1>1, <1>2, <2>1 DEF RunTyped, MainValue
  <2>4. StartSound'
    <3>1. t = 1 /\ \A s \in Thread : ~(s < 1)
      BY <1>1, <2>1 DEF StartSound, Thread
    <3> QED
      BY <1>2, <2>1, <3>1 DEF StartSound
  <2>5. BarrierSound' /\ CounterSound'
    BY <1>1, <1>2, <2>1, <2>2 DEF BarrierSound, CounterSound
  <2> QED
    BY <2>3, <2>4, <2>5 DEF RunInv
<1>8. CASE Join
  <2>1. /\ main = "join" /\ pc[t] = "ended"
        /\ UNCHANGED <<threads, ready, go, g_allocs, pc, i, measured>>
        /\ IF t = threads THEN main' = "done" /\ allocs' = g_allocs /\ t' = t
           ELSE t' = t + 1 /\ main' = main /\ allocs' = allocs
    BY <1>8 DEF Join, shards
  <2>2. gated' = gated
    BY <2>1 DEF gated, Thread
  <2>3. RunTyped'
    BY <1>1, <1>2, <2>1 DEF RunTyped, MainValue
  <2>4. \A s \in Thread : s < t => pc[s] = "ended"
    BY <1>1, <2>1 DEF StartSound
  <2>5. StartSound'
    <3>1. CASE t = threads
      <4>1. \A s \in Thread : s < t \/ s = t
        BY <1>2, <3>1 DEF Thread
      <4>2. \A s \in Thread : pc'[s] = "ended"
        BY <2>1, <2>4, <4>1
      <4> QED
        BY <1>2, <2>1, <3>1, <4>2 DEF StartSound
    <3>2. CASE t # threads
      <4>1. \A s \in Thread : s < t + 1 => s < t \/ s = t
        BY <1>2 DEF Thread
      <4>2. \A s \in Thread : s < t' => pc'[s] = "ended"
        BY <2>1, <2>4, <3>2, <4>1
      <4> QED
        BY <1>2, <2>1, <3>2, <4>2 DEF StartSound
    <3> QED
      BY <3>1, <3>2
  <2>6. BarrierSound'
    BY <1>1, <1>2, <2>1, <2>2 DEF BarrierSound
  <2>7. g_allocs = measured \/ t # threads
    BY <1>1, <1>2, <2>1 DEF CounterSound, Thread
  <2>8. CounterSound'
    BY <1>1, <1>2, <2>1, <2>7 DEF CounterSound
  <2> QED
    BY <2>3, <2>5, <2>6, <2>8 DEF RunInv
<1> QED
  BY <1>3, <1>4, <1>5, <1>6, <1>7, <1>8

-----------------------------------------------------------------------------
(* A shard *)

\* A shard that moves is started, and main has not joined it.
LEMMA ShardMoves ==
    ASSUME RunInv, NEW s \in Thread, NEW v \in PcValue, pc' = [pc EXCEPT ![s] = v], v # "none",
           pc[s] \notin {"none", "ended"}, UNCHANGED <<threads, main, t>>
    PROVE  StartSound' /\ main # "done"
<1>1. StartSound /\ pc \in [Thread -> PcValue] /\ Thread' = Thread
  BY DEF RunInv, RunTyped, Thread
<1>2. \A u \in Thread : u # s => pc'[u] = pc[u]
  BY <1>1
<1>3. main # "generate" /\ main # "done"
  BY <1>1 DEF StartSound
<1>4. main = "start" => ~(s >= t)
  BY <1>1 DEF StartSound
<1>5. main = "join" => ~(s < t)
  BY <1>1 DEF StartSound
<1> QED
  BY <1>1, <1>2, <1>3, <1>4, <1>5 DEF StartSound

LEMMA BuildStep == ASSUME RunInv, NEW s \in Thread, Build(s) PROVE RunInv'
<1>1. /\ pc[s] = "build" /\ g_allocs' = g_allocs + 2 /\ pc' = [pc EXCEPT ![s] = "warmup"]
      /\ UNCHANGED <<threads, main, t, ready, go, allocs, i, measured>>
  BY DEF Build, operator_new
<1>2. RunTyped /\ BarrierSound /\ CounterSound /\ Thread' = Thread /\ pc \in [Thread -> PcValue]
  BY <1>1 DEF RunInv, RunTyped, Thread
<1>3. pc' \in [Thread -> PcValue] /\ pc'[s] = "warmup" /\ \A u \in Thread \ {s} : pc'[u] = pc[u]
  BY <1>1, <1>2 DEF PcValue
<1>4. RunTyped'
  BY <1>1, <1>2, <1>3 DEF RunTyped
<1>5. StartSound' /\ main # "done"
  <2>1. "warmup" \in PcValue /\ pc[s] \notin {"none", "ended"}
    BY <1>1 DEF PcValue
  <2> QED
    BY <1>1, <2>1, ShardMoves
<1>6. gated' = gated /\ s \notin gated
  <2>1. pc[s] \notin {"spin", "measure", "ended"}
    BY <1>1
  <2> QED
    BY <1>1, <1>2, <2>1, SameGated DEF gated
<1>7. BarrierSound'
  BY <1>1, <1>2, <1>3, <1>6 DEF BarrierSound
<1>8. CounterSound'
  <2>1. CASE threads > 1
    BY <1>1, <1>2, <1>5, <1>6, <2>1 DEF BarrierSound, CounterSound
  <2>2. CASE ~(threads > 1)
    <3>1. Thread = {s}
      BY <1>2, <2>2 DEF Thread, RunTyped
    <3> QED
      BY <1>1, <1>2, <1>3, <1>5, <2>2, <3>1 DEF CounterSound
  <2> QED
    BY <2>1, <2>2
<1> QED
  BY <1>4, <1>5, <1>7, <1>8 DEF RunInv

LEMMA WarmUpStep == ASSUME RunInv, NEW s \in Thread, WarmUp(s) PROVE RunInv'
<1>1. PICK n \in Nat : dispatch(s, n)
  BY DEF WarmUp
<1>2. /\ pc[s] = "warmup" /\ g_allocs' = g_allocs + n /\ i' = [i EXCEPT ![s] = @ + 1]
      /\ UNCHANGED <<threads, main, t, ready, go, allocs, pc, measured>>
  BY <1>1 DEF WarmUp, dispatch, operator_new
<1>3. RunTyped /\ StartSound /\ BarrierSound /\ CounterSound /\ Thread' = Thread /\ gated' = gated
  BY <1>2 DEF RunInv, Thread, gated
<1>4. RunTyped'
  BY <1>1, <1>2, <1>3 DEF RunTyped
<1>5. StartSound' /\ BarrierSound' /\ main # "done"
  BY <1>2, <1>3 DEF StartSound, BarrierSound
<1>6. CounterSound'
  <2>1. CASE threads > 1
    <3>1. s \notin gated
      BY <1>2 DEF gated
    <3> QED
      BY <1>2, <1>3, <1>5, <2>1, <3>1 DEF BarrierSound, CounterSound
  <2>2. CASE ~(threads > 1)
    <3>1. Thread = {s}
      BY <1>3, <2>2 DEF Thread, RunTyped
    <3> QED
      BY <1>2, <1>3, <1>5, <2>2, <3>1 DEF CounterSound
  <2> QED
    BY <2>1, <2>2
<1> QED
  BY <1>4, <1>5, <1>6 DEF RunInv

LEMMA GateStep == ASSUME RunInv, NEW s \in Thread, Gate(s) PROVE RunInv'
<1>1. PICK v \in {"spin", "measure"} : v = IF threads > 1 THEN "spin" ELSE "measure"
  OBVIOUS
<1>2. /\ pc[s] = "warmup" /\ pc' = [pc EXCEPT ![s] = v]
      /\ IF threads > 1 THEN ready' = ready + 1 /\ g_allocs' = g_allocs
         ELSE g_allocs' = 0 /\ ready' = ready
      /\ UNCHANGED <<threads, main, t, go, allocs, i, measured>>
  BY <1>1 DEF Gate, sharded
<1>3. RunTyped /\ BarrierSound /\ CounterSound /\ Thread' = Thread /\ pc \in [Thread -> PcValue]
  BY <1>2 DEF RunInv, RunTyped, Thread
<1>4. pc' \in [Thread -> PcValue] /\ pc'[s] = v /\ \A u \in Thread \ {s} : pc'[u] = pc[u]
  BY <1>1, <1>2, <1>3 DEF PcValue
<1>5. RunTyped'
  BY <1>2, <1>3, <1>4 DEF RunTyped
<1>6. StartSound' /\ main # "done"
  <2>1. v \in PcValue /\ v # "none" /\ pc[s] \notin {"none", "ended"}
    BY <1>1, <1>2 DEF PcValue
  <2> QED
    BY <1>2, <2>1, ShardMoves
<1>7. s \notin gated
  BY <1>2 DEF gated
<1>8. CASE threads > 1
  <2>1. gated' = gated \cup {s}
    BY <1>1, <1>3, <1>4, <1>8 DEF gated
  <2>2. ready' = Cardinality(gated')
    <3>1. IsFiniteSet(gated)
      BY <1>3, GatedFinite
    <3>2. Cardinality(gated \cup {s}) = Cardinality(gated) + 1
      BY <1>7, <3>1, FS_AddElement
    <3>3. ready = Cardinality(gated) /\ ready' = ready + 1
      BY <1>2, <1>3, <1>8 DEF BarrierSound
    <3> QED
      BY <2>1, <3>2, <3>3
  <2>3. main \notin {"reset", "go", "join", "done"}
    BY <1>3, <1>7, <1>8 DEF BarrierSound
  <2>4. BarrierSound'
    BY <1>1, <1>2, <1>3, <1>4, <1>8, <2>2, <2>3 DEF BarrierSound
  <2>5. CounterSound'
    BY <1>2, <1>3, <1>8, <2>3 DEF CounterSound
  <2> QED
    BY <1>5, <1>6, <2>4, <2>5 DEF RunInv
<1>9. CASE ~(threads > 1)
  <2>1. Thread = {s}
    BY <1>3, <1>9 DEF Thread, RunTyped
  <2>2. measured = 0
    BY <1>2, <1>3, <1>9 DEF CounterSound
  <2>3. BarrierSound' /\ CounterSound'
    BY <1>1, <1>2, <1>3, <1>4, <1>6, <1>9, <2>1, <2>2 DEF BarrierSound, CounterSound
  <2> QED
    BY <1>5, <1>6, <2>3 DEF RunInv
<1> QED
  BY <1>8, <1>9

LEMMA SpinStep == ASSUME RunInv, NEW s \in Thread, Spin(s) PROVE RunInv'
<1>1. /\ pc[s] = "spin" /\ go /\ pc' = [pc EXCEPT ![s] = "measure"]
      /\ UNCHANGED <<threads, main, t, ready, go, g_allocs, allocs, i, measured>>
  BY DEF Spin
<1>2. RunTyped /\ BarrierSound /\ CounterSound /\ Thread' = Thread /\ pc \in [Thread -> PcValue]
  BY <1>1 DEF RunInv, RunTyped, Thread
<1>3. pc' \in [Thread -> PcValue] /\ pc'[s] = "measure" /\ \A u \in Thread \ {s} : pc'[u] = pc[u]
  BY <1>1, <1>2 DEF PcValue
<1>4. RunTyped'
  BY <1>1, <1>2, <1>3 DEF RunTyped
<1>5. StartSound' /\ main # "done"
  <2>1. "measure" \in PcValue /\ pc[s] \notin {"none", "ended"}
    BY <1>1 DEF PcValue
  <2> QED
    BY <1>1, <2>1, ShardMoves
<1>6. gated' = gated
  BY <1>1, <1>2, SameGated
<1>7. threads > 1
  BY <1>1, <1>2 DEF BarrierSound
<1>8. BarrierSound' /\ CounterSound'
  BY <1>1, <1>2, <1>3, <1>5, <1>6, <1>7 DEF BarrierSound, CounterSound
<1> QED
  BY <1>4, <1>5, <1>8 DEF RunInv

LEMMA MeasureStep == ASSUME RunInv, NEW s \in Thread, Measure(s) PROVE RunInv'
<1>1. PICK n \in Nat : dispatch(s, n) /\ measured' = measured + n
  BY DEF Measure
<1>2. /\ pc[s] = "measure" /\ g_allocs' = g_allocs + n /\ i' = [i EXCEPT ![s] = @ + 1]
      /\ UNCHANGED <<threads, main, t, ready, go, allocs, pc>>
  BY <1>1 DEF Measure, dispatch, operator_new
<1>3. RunTyped /\ StartSound /\ BarrierSound /\ CounterSound /\ Thread' = Thread /\ gated' = gated
  BY <1>2 DEF RunInv, Thread, gated
<1>4. RunTyped'
  BY <1>1, <1>2, <1>3 DEF RunTyped
<1>5. StartSound' /\ BarrierSound' /\ main # "done"
  BY <1>2, <1>3 DEF StartSound, BarrierSound
<1>6. CounterSound'
  <2>1. CASE threads > 1
    BY <1>1, <1>2, <1>3, <1>5, <2>1 DEF BarrierSound, CounterSound
  <2>2. CASE ~(threads > 1)
    <3>1. Thread = {s}
      BY <1>3, <2>2 DEF Thread, RunTyped
    <3> QED
      BY <1>1, <1>2, <1>3, <1>5, <2>2, <3>1 DEF CounterSound
  <2> QED
    BY <2>1, <2>2
<1> QED
  BY <1>4, <1>5, <1>6 DEF RunInv

LEMMA EndStep == ASSUME RunInv, NEW s \in Thread, End(s) PROVE RunInv'
<1>1. /\ pc[s] = "measure" /\ pc' = [pc EXCEPT ![s] = "ended"]
      /\ UNCHANGED <<threads, main, t, ready, go, g_allocs, allocs, i, measured>>
  BY DEF End
<1>2. RunTyped /\ BarrierSound /\ CounterSound /\ Thread' = Thread /\ pc \in [Thread -> PcValue]
  BY <1>1 DEF RunInv, RunTyped, Thread
<1>3. pc' \in [Thread -> PcValue] /\ pc'[s] = "ended" /\ \A u \in Thread \ {s} : pc'[u] = pc[u]
  BY <1>1, <1>2 DEF PcValue
<1>4. RunTyped'
  BY <1>1, <1>2, <1>3 DEF RunTyped
<1>5. StartSound' /\ main # "done"
  <2>1. "ended" \in PcValue /\ pc[s] \notin {"none", "ended"}
    BY <1>1 DEF PcValue
  <2> QED
    BY <1>1, <2>1, ShardMoves
<1>6. gated' = gated
  BY <1>1, <1>2, SameGated
<1>7. BarrierSound' /\ CounterSound'
  BY <1>1, <1>2, <1>3, <1>5, <1>6 DEF BarrierSound, CounterSound
<1> QED
  BY <1>4, <1>5, <1>7 DEF RunInv

-----------------------------------------------------------------------------
LEMMA InitRunInv == Init => RunInv
<1> SUFFICES ASSUME Init PROVE RunInv
  OBVIOUS
<1>1. threads \in Nat \ {0} /\ 1 \in Thread
  BY OptionAssumption DEF Init, Thread
<1>2. RunTyped
  BY <1>1 DEF Init, RunTyped, MainValue, PcValue, Thread
<1>3. gated = {} /\ Cardinality({}) = 0
  BY FS_EmptySet DEF Init, gated
<1>4. StartSound /\ BarrierSound /\ CounterSound
  BY <1>3 DEF Init, StartSound, BarrierSound, CounterSound
<1> QED
  BY <1>2, <1>4 DEF RunInv

LEMMA RunInductive == RunInv /\ [Next]_vars => RunInv'
<1> SUFFICES ASSUME RunInv, [Next]_vars PROVE RunInv'
  OBVIOUS
<1>1. CASE UNCHANGED vars \/ Finished
  <2>1. UNCHANGED <<threads, main, t, ready, go, g_allocs, allocs, pc, i, measured>>
    BY <1>1 DEF Finished, vars, shards
  <2>2. Thread' = Thread /\ gated' = gated
    BY <2>1 DEF Thread, gated
  <2> QED
    BY <2>1, <2>2 DEF RunInv, RunTyped, StartSound, BarrierSound, CounterSound
<1>2. CASE Generate \/ Generated \/ Start \/ Await \/ Reset \/ Go \/ Join
  BY <1>2, MainSteps
<1>3. ASSUME NEW s \in Thread, Shard(s) PROVE RunInv'
  BY <1>3, BuildStep, WarmUpStep, GateStep, SpinStep, MeasureStep, EndStep DEF Shard
<1> QED
  BY <1>1, <1>2, <1>3 DEF Next

\* "All shards measure concurrently" behind the barrier, and the number
\* reported is that of the allocations by measured operations only.
THEOREM BenchMeasuredRegionExact == Spec => []MeasuredRegionExact
<1>1. ASSUME RunInv PROVE MeasuredRegionExact
  <2>1. RunTyped /\ StartSound /\ BarrierSound /\ CounterSound
    BY <1>1 DEF RunInv
  <2>2. ASSUME NEW s \in Thread, pc[s] \in {"measure", "ended"}, NEW u \in Thread
        PROVE  pc[u] \notin {"none", "build", "warmup"}
    <3>1. CASE threads > 1
      <4>1. gated = Thread
        BY <2>1, <2>2, <3>1 DEF BarrierSound
      <4> QED
        BY <4>1 DEF gated
    <3>2. CASE ~(threads > 1)
      <4>1. s = u
        BY <2>1, <3>2 DEF Thread, RunTyped
      <4> QED
        BY <2>2, <4>1
    <3> QED
      BY <3>1, <3>2
  <2> QED
    BY <2>1, <2>2 DEF MeasuredRegionExact, CounterSound
<1>2. Init => RunInv
  BY InitRunInv
<1>3. RunInv /\ [Next]_vars => RunInv'
  BY RunInductive
<1> QED
  BY <1>1, <1>2, <1>3, PTL DEF Spec

-----------------------------------------------------------------------------
(* The stream of operations *)

Op == [kind : {"Limit", "Market", "Cancel", "Resize", "Reprice"}, id : Nat, side : Side, px : Int]
Ref == [id : Nat, side : Side, px : Int]

StreamTyped ==
    out \in Seq(Op) /\ live_ \in Seq(Ref) /\ next_id_ \in Nat \ {0} /\ mid_ \in Int

\* The first n operations of o open id on that side, and do not cancel it.
opened(o, n, id, side) ==
    /\ \E j \in 1 .. n : o[j].id = id /\ o[j].kind = "Limit" /\ o[j].side = side
    /\ \A j \in 1 .. n : o[j].id = id => o[j].kind # "Cancel"

\* px is the price in the last of the first n operations of o that name id.
last_told(o, n, id, px) ==
    \E m \in 1 .. n :
        /\ o[m].id = id /\ o[m].px = px
        /\ \A j \in 1 .. n : o[j].id = id => j <= m

\* StreamSound for the k-th operation of o, with no maximum in it.
sound_at(o, k) ==
    IF o[k].kind \in {"Limit", "Market"} THEN o[k].id # 0 /\ \A j \in 1 .. (k - 1) : o[j].id # o[k].id
    ELSE /\ opened(o, k - 1, o[k].id, o[k].side)
         /\ o[k].kind = "Resize" => last_told(o, k - 1, o[k].id, o[k].px)

\* What is remembered of an order is what the stream told of it last.
remembered(o, ref) ==
    opened(o, Len(o), ref.id, ref.side) /\ last_told(o, Len(o), ref.id, ref.px)

LiveSound ==
    /\ \A a \in DOMAIN live_ : remembered(out, live_[a])
    /\ \A a, b \in DOMAIN live_ : live_[a].id = live_[b].id => a = b

StreamInv ==
    /\ StreamTyped
    /\ \A j \in DOMAIN out : out[j].id # 0 /\ out[j].id < next_id_
    /\ \A k \in DOMAIN out : sound_at(out, k)
    /\ LiveSound

-----------------------------------------------------------------------------
(* What one more operation leaves as it was *)

LEMMA AppendKeeps ==
    ASSUME NEW o \in Seq(Op), NEW op \in Op, NEW n \in 0 .. Len(o), NEW id, NEW side, NEW px
    PROVE  /\ opened(o, n, id, side) => opened(Append(o, op), n, id, side)
           /\ last_told(o, n, id, px) => last_told(Append(o, op), n, id, px)
<1>1. \A j \in 1 .. n : Append(o, op)[j] = o[j]
  OBVIOUS
<1> QED
  BY <1>1 DEF opened, last_told

\* An operation of another order changes nothing that is known of this one.
LEMMA OtherKeeps ==
    ASSUME NEW o \in Seq(Op), NEW op \in Op, NEW ref \in Ref, remembered(o, ref), op.id # ref.id
    PROVE  remembered(Append(o, op), ref)
<1> DEFINE p == Append(o, op)
           n == Len(o)
<1>1. n \in Nat /\ Len(p) = n + 1 /\ p[n + 1] = op /\ \A j \in 1 .. n : p[j] = o[j]
  OBVIOUS
<1>2. opened(p, n, ref.id, ref.side) /\ last_told(p, n, ref.id, ref.px)
  BY <1>1, AppendKeeps DEF remembered
<1>3. \A j \in 1 .. (n + 1) : j \in 1 .. n \/ j = n + 1
  BY <1>1
<1>4. 1 .. n \subseteq 1 .. (n + 1)
  BY <1>1
<1> HIDE DEF p, n
<1>5. opened(p, n + 1, ref.id, ref.side)
  BY <1>1, <1>2, <1>3, <1>4 DEF opened
<1>6. last_told(p, n + 1, ref.id, ref.px)
  BY <1>1, <1>2, <1>3, <1>4 DEF last_told
<1> QED
  BY <1>1, <1>5, <1>6 DEF remembered, p

\* The order an operation names is remembered at the price it tells.
LEMMA NamedKeeps ==
    ASSUME NEW o \in Seq(Op), NEW op \in Op, NEW ref \in Ref, op.id = ref.id,
           op.px = ref.px, op.kind # "Cancel",
           \/ opened(o, Len(o), ref.id, ref.side)
           \/ /\ op.kind = "Limit" /\ op.side = ref.side
              /\ \A j \in DOMAIN o : o[j].id # ref.id
    PROVE  remembered(Append(o, op), ref)
<1> DEFINE p == Append(o, op)
           n == Len(o)
<1>1. /\ n \in Nat /\ Len(p) = n + 1 /\ p[n + 1] = op /\ DOMAIN o = 1 .. n
      /\ \A j \in 1 .. n : p[j] = o[j]
  OBVIOUS
<1>2. \A j \in 1 .. (n + 1) : (j \in 1 .. n \/ j = n + 1) /\ j <= n + 1
  BY <1>1
<1>3. 1 .. n \subseteq 1 .. (n + 1) /\ n + 1 \in 1 .. (n + 1)
  BY <1>1
<1>4. opened(p, n, ref.id, ref.side) \/ (op.kind = "Limit" /\ op.side = ref.side /\ \A j \in DOMAIN o : o[j].id # ref.id)
  BY <1>1, AppendKeeps
<1> HIDE DEF p, n
<1>5. opened(p, n + 1, ref.id, ref.side)
  BY <1>1, <1>2, <1>3, <1>4 DEF opened
<1>6. last_told(p, n + 1, ref.id, ref.px)
  BY <1>1, <1>2, <1>3 DEF last_told
<1> QED
  BY <1>1, <1>5, <1>6 DEF remembered, p

\* The operations before the new one stay as sound as they were.
LEMMA AppendSound ==
    ASSUME NEW o \in Seq(Op), NEW op \in Op, \A k \in DOMAIN o : sound_at(o, k),
           IF op.kind \in {"Limit", "Market"} THEN op.id # 0 /\ \A j \in DOMAIN o : o[j].id # op.id
           ELSE /\ opened(o, Len(o), op.id, op.side)
                /\ op.kind = "Resize" => last_told(o, Len(o), op.id, op.px)
    PROVE  \A k \in DOMAIN Append(o, op) : sound_at(Append(o, op), k)
<1> DEFINE p == Append(o, op)
           n == Len(o)
<1>1. /\ n \in Nat /\ p[n + 1] = op /\ DOMAIN o = 1 .. n /\ DOMAIN p = 1 .. (n + 1)
      /\ \A j \in 1 .. n : p[j] = o[j]
  OBVIOUS
<1>2. ASSUME NEW k \in 1 .. n PROVE sound_at(p, k)
  <2>1. sound_at(o, k) /\ k - 1 \in 0 .. Len(o) /\ p[k] = o[k] /\ \A j \in 1 .. (k - 1) : p[j] = o[j]
    BY <1>1
  <2>2. CASE o[k].kind \in {"Limit", "Market"}
    BY <2>1, <2>2 DEF sound_at
  <2>3. CASE o[k].kind \notin {"Limit", "Market"}
    <3>1. /\ opened(p, k - 1, o[k].id, o[k].side)
          /\ o[k].kind = "Resize" => last_told(p, k - 1, o[k].id, o[k].px)
      BY <2>1, <2>3, AppendKeeps DEF sound_at
    <3> QED
      BY <2>1, <2>3, <3>1 DEF sound_at
  <2> QED
    BY <2>2, <2>3
<1>3. sound_at(p, n + 1)
  <2>1. (n + 1) - 1 = n /\ n \in 0 .. Len(o)
    BY <1>1
  <2>2. CASE op.kind \in {"Limit", "Market"}
    BY <1>1, <2>1, <2>2 DEF sound_at
  <2>3. CASE op.kind \notin {"Limit", "Market"}
    <3>1. opened(p, n, op.id, op.side) /\ (op.kind = "Resize" => last_told(p, n, op.id, op.px))
      BY <2>1, <2>3, AppendKeeps
    <3> QED
      BY <1>1, <2>1, <2>3, <3>1 DEF sound_at
  <2> QED
    BY <2>2, <2>3
<1> QED
  BY <1>1, <1>2, <1>3

\* swap_pop removes one entry and keeps the others, one of them elsewhere.
LEMMA SwapPop ==
    ASSUME live_ \in Seq(Ref), NEW j \in DOMAIN live_
    PROVE  /\ swap_pop(j) \in Seq(Ref) /\ Len(swap_pop(j)) = Len(live_) - 1
           /\ \A a \in DOMAIN swap_pop(j) :
                 swap_pop(j)[a] = live_[IF a = j THEN Len(live_) ELSE a]
<1> DEFINE l == [live_ EXCEPT ![j] = live_[Len(live_)]]
           n == Len(live_)
<1>1. n \in Nat /\ n > 0 /\ j \in 1 .. n /\ DOMAIN live_ = 1 .. n
  OBVIOUS
<1>2. l \in Seq(Ref) /\ Len(l) = n /\ \A a \in 1 .. n : l[a] = live_[IF a = j THEN n ELSE a]
  BY <1>1
<1>3. swap_pop(j) = SubSeq(l, 1, n - 1)
  BY DEF swap_pop
<1> HIDE DEF l, n
<1>4. /\ SubSeq(l, 1, n - 1) \in Seq(Ref) /\ Len(SubSeq(l, 1, n - 1)) = n - 1
      /\ \A a \in 1 .. (n - 1) : SubSeq(l, 1, n - 1)[a] = l[a]
  BY <1>1, <1>2
<1> QED
  BY <1>1, <1>2, <1>3, <1>4 DEF n

\* So each entry left was one before, is remembered once, and is not the one removed.
LEMMA SwapPopSound ==
    ASSUME live_ \in Seq(Ref), NEW j \in DOMAIN live_,
           \A a, b \in DOMAIN live_ : live_[a].id = live_[b].id => a = b
    PROVE  /\ \A a \in DOMAIN swap_pop(j) :
                 /\ \E b \in DOMAIN live_ : swap_pop(j)[a] = live_[b]
                 /\ swap_pop(j)[a].id # live_[j].id
           /\ \A a, b \in DOMAIN swap_pop(j) : swap_pop(j)[a].id = swap_pop(j)[b].id => a = b
<1> DEFINE at(a) == IF a = j THEN Len(live_) ELSE a
<1>1. DOMAIN swap_pop(j) = 1 .. (Len(live_) - 1) /\ DOMAIN live_ = 1 .. Len(live_) /\ Len(live_) \in Nat
  BY SwapPop
<1>2. \A a \in DOMAIN swap_pop(j) : swap_pop(j)[a] = live_[at(a)]
  BY SwapPop
<1>3. \A a \in DOMAIN swap_pop(j) : at(a) \in DOMAIN live_ /\ at(a) # j
  BY <1>1
<1>4. \A a, b \in DOMAIN swap_pop(j) : at(a) = at(b) => a = b
  BY <1>1
<1> QED
  BY <1>2, <1>3, <1>4

-----------------------------------------------------------------------------
(* One round of the generator *)

\* No operation of the stream has the id of the next order.
LEMMA IdsFresh ==
    ASSUME StreamInv
    PROVE  \A j \in DOMAIN out : out[j].id # next_id_ /\ out[j].id \in Nat
<1> SUFFICES ASSUME NEW j \in DOMAIN out PROVE out[j].id # next_id_ /\ out[j].id \in Nat
  OBVIOUS
<1>1. out \in Seq(Op) /\ next_id_ \in Nat /\ out[j].id < next_id_
  BY DEF StreamInv, StreamTyped
<1>2. out[j] \in Op
  BY <1>1
<1>3. out[j].id \in Nat
  BY <1>2 DEF Op
<1> QED
  BY <1>1, <1>3

LEMMA DriftTyped == ASSUME mid_ \in Int PROVE \A m \in drift_mid : m \in Int
<1>1. \A x \in Int : clamp(x) \in Int
  BY GeneratorAssumption DEF clamp
<1>2. ASSUME NEW m \in drift_mid, m # mid_ PROVE m \in Int
  <2>1. PICK d \in -1 .. 1 : m = clamp(mid_ + d)
    BY <1>2 DEF drift_mid
  <2> QED
    BY <1>1, <2>1
<1> QED
  BY <1>2

LEMMA LimitStep ==
    ASSUME StreamInv, mid_' \in Int, NEW s \in Side, NEW px \in Int, limit_at(s, px)
    PROVE  StreamInv'
<1> DEFINE op == [kind |-> "Limit", id |-> next_id_, side |-> s, px |-> px]
           ref == [id |-> next_id_, side |-> s, px |-> px]
<1>1. StreamTyped /\ LiveSound /\ (\A j \in DOMAIN out : out[j].id # 0 /\ out[j].id < next_id_)
      /\ (\A k \in DOMAIN out : sound_at(out, k))
  BY DEF StreamInv
<1>2. out \in Seq(Op) /\ live_ \in Seq(Ref) /\ next_id_ \in Nat \ {0} /\ op \in Op /\ ref \in Ref
  BY <1>1 DEF StreamTyped, Op, Ref
<1>3. out' = Append(out, op) /\ next_id_' = next_id_ + 1 /\ live_' \in track(ref)
  BY DEF limit_at
<1>4. \A j \in DOMAIN out : out[j].id # next_id_ /\ out[j].id \in Nat
  BY IdsFresh
\* The pool before the new entry: all of it, or all but one.
<1>5. PICK l \in Seq(Ref) :
        /\ live_' = Append(l, ref)
        /\ \A a \in DOMAIN l : \E b \in DOMAIN live_ : l[a] = live_[b]
        /\ \A a, b \in DOMAIN l : l[a].id = l[b].id => a = b
  <2>1. CASE Len(live_) >= kMaxLive
    <3>1. PICK j \in DOMAIN live_ : live_' = Append(swap_pop(j), ref)
      BY <1>3, <2>1 DEF track
    <3>2. swap_pop(j) \in Seq(Ref)
      BY <1>2, SwapPop
    <3>3. /\ \A a \in DOMAIN swap_pop(j) : \E b \in DOMAIN live_ : swap_pop(j)[a] = live_[b]
          /\ \A a, b \in DOMAIN swap_pop(j) : swap_pop(j)[a].id = swap_pop(j)[b].id => a = b
      BY <1>1, <1>2, SwapPopSound DEF LiveSound
    <3> QED
      BY <3>1, <3>2, <3>3
  <2>2. CASE ~(Len(live_) >= kMaxLive)
    <3>1. live_' = Append(live_, ref)
      BY <1>3, <2>2 DEF track
    <3> QED
      BY <1>1, <1>2, <3>1 DEF LiveSound
  <2> QED
    BY <2>1, <2>2
<1> HIDE DEF op, ref
<1>6. /\ Len(live_') = Len(l) + 1 /\ live_'[Len(l) + 1] = ref /\ \A a \in DOMAIN l : live_'[a] = l[a]
      /\ DOMAIN live_' = DOMAIN l \cup {Len(l) + 1} /\ live_' \in Seq(Ref)
  BY <1>2, <1>5
<1>7. ASSUME NEW a \in DOMAIN l PROVE remembered(out, l[a]) /\ l[a] \in Ref /\ l[a].id # next_id_
  <2>1. remembered(out, l[a]) /\ l[a] \in Ref
    BY <1>1, <1>5 DEF LiveSound
  <2>2. PICK j \in 1 .. Len(out) : out[j].id = l[a].id
    BY <2>1 DEF remembered, opened
  <2> QED
    BY <1>2, <1>4, <2>1, <2>2
<1>8. remembered(out', ref)
  <2>1. op.id = ref.id /\ op.px = ref.px /\ op.kind = "Limit" /\ op.side = ref.side /\ ref.id = next_id_
    BY DEF op, ref
  <2> QED
    BY <1>2, <1>3, <1>4, <2>1, NamedKeeps
<1>9. \A a \in DOMAIN l : remembered(out', l[a])
  <2>1. op.id = next_id_
    BY DEF op
  <2> QED
    BY <1>2, <1>3, <1>7, <2>1, OtherKeeps
<1>10. LiveSound'
  <2>1. ref.id = next_id_
    BY DEF ref
  <2>2. \A a \in DOMAIN live_' : remembered(out', live_'[a])
    BY <1>6, <1>8, <1>9
  <2>3. \A a, b \in DOMAIN live_' : live_'[a].id = live_'[b].id => a = b
    BY <1>5, <1>6, <1>7, <2>1
  <2> QED
    BY <2>2, <2>3 DEF LiveSound
<1>11. \A k \in DOMAIN out' : sound_at(out', k)
  <2>1. op.kind = "Limit" /\ op.id = next_id_
    BY DEF op
  <2> QED
    BY <1>1, <1>2, <1>3, <1>4, <2>1, AppendSound
<1>12. StreamTyped' /\ \A j \in DOMAIN out' : out'[j].id # 0 /\ out'[j].id < next_id_'
  <2>1. op.id = next_id_
    BY DEF op
  <2>2. out' \in Seq(Op) /\ DOMAIN out' = DOMAIN out \cup {Len(out) + 1}
    BY <1>2, <1>3
  <2>3. out'[Len(out) + 1] = op /\ \A j \in DOMAIN out : out'[j] = out[j]
    BY <1>2, <1>3
  <2>4. StreamTyped'
    BY <1>2, <1>3, <1>6, <2>2 DEF StreamTyped
  <2>5. \A j \in DOMAIN out : out[j].id # 0 /\ out[j].id < next_id_ + 1
    BY <1>1, <1>2, <1>4
  <2> QED
    BY <1>2, <1>3, <2>1, <2>2, <2>3, <2>4, <2>5
<1> QED
  BY <1>10, <1>11, <1>12 DEF StreamInv

LEMMA MarketStep == ASSUME StreamInv, mid_' \in Int, market_op PROVE StreamInv'
<1>1. PICK s \in Side : out' = Append(out, [kind |-> "Market", id |-> next_id_, side |-> s, px |-> 0])
  BY DEF market_op
<1> DEFINE op == [kind |-> "Market", id |-> next_id_, side |-> s, px |-> 0]
<1>2. StreamTyped /\ LiveSound /\ (\A j \in DOMAIN out : out[j].id # 0 /\ out[j].id < next_id_)
      /\ (\A k \in DOMAIN out : sound_at(out, k))
  BY DEF StreamInv
<1>3. out \in Seq(Op) /\ live_ \in Seq(Ref) /\ next_id_ \in Nat \ {0} /\ op \in Op
  BY <1>2 DEF StreamTyped, Op
<1>4. out' = Append(out, op) /\ next_id_' = next_id_ + 1 /\ live_' = live_ /\ op.id = next_id_ /\ op.kind = "Market"
  BY <1>1 DEF market_op
<1> HIDE DEF op
<1>5. \A j \in DOMAIN out : out[j].id # next_id_ /\ out[j].id \in Nat
  BY IdsFresh
<1>6. \A k \in DOMAIN out' : sound_at(out', k)
  BY <1>2, <1>3, <1>4, <1>5, AppendSound
<1>7. ASSUME NEW a \in DOMAIN live_ PROVE remembered(out', live_[a])
  <2>1. remembered(out, live_[a]) /\ live_[a] \in Ref
    BY <1>2, <1>3 DEF LiveSound
  <2>2. PICK j \in 1 .. Len(out) : out[j].id = live_[a].id
    BY <2>1 DEF remembered, opened
  <2>3. op.id # live_[a].id
    BY <1>3, <1>4, <1>5, <2>2
  <2> QED
    BY <1>3, <1>4, <2>1, <2>3, OtherKeeps
<1>8. LiveSound'
  BY <1>2, <1>4, <1>7 DEF LiveSound
<1>9. /\ out' \in Seq(Op) /\ DOMAIN out' = DOMAIN out \cup {Len(out) + 1}
      /\ out'[Len(out) + 1] = op /\ \A j \in DOMAIN out : out'[j] = out[j]
  BY <1>3, <1>4
<1>10. StreamTyped'
  BY <1>3, <1>4, <1>9 DEF StreamTyped
<1>11. \A j \in DOMAIN out' : out'[j].id # 0 /\ out'[j].id < next_id_'
  BY <1>2, <1>3, <1>4, <1>5, <1>9
<1> QED
  BY <1>6, <1>8, <1>10, <1>11 DEF StreamInv

LEMMA CancelStep == ASSUME StreamInv, mid_' \in Int, cancel_op PROVE StreamInv'
<1>1. PICK idx \in DOMAIN live_ :
        /\ out' = Append(out, [kind |-> "Cancel", id |-> live_[idx].id, side |-> live_[idx].side, px |-> 0])
        /\ live_' = swap_pop(idx) /\ next_id_' = next_id_
  BY DEF cancel_op
<1> DEFINE op == [kind |-> "Cancel", id |-> live_[idx].id, side |-> live_[idx].side, px |-> 0]
<1>2. StreamTyped /\ LiveSound /\ (\A j \in DOMAIN out : out[j].id # 0 /\ out[j].id < next_id_)
      /\ (\A k \in DOMAIN out : sound_at(out, k))
  BY DEF StreamInv
<1>3. out \in Seq(Op) /\ live_ \in Seq(Ref) /\ live_[idx] \in Ref
  BY <1>2 DEF StreamTyped
<1>4. /\ op \in Op /\ op.id = live_[idx].id /\ op.side = live_[idx].side /\ op.kind = "Cancel"
      /\ out' = Append(out, op)
  BY <1>1, <1>3 DEF Op, Ref
<1> HIDE DEF op
<1>5. remembered(out, live_[idx])
  BY <1>2 DEF LiveSound
<1>6. \A k \in DOMAIN out' : sound_at(out', k)
  <2>1. opened(out, Len(out), op.id, op.side) /\ op.kind \notin {"Limit", "Market", "Resize"}
    BY <1>4, <1>5 DEF remembered
  <2> QED
    BY <1>2, <1>3, <1>4, <2>1, AppendSound
<1>7. /\ swap_pop(idx) \in Seq(Ref)
      /\ \A a, b \in DOMAIN swap_pop(idx) : swap_pop(idx)[a].id = swap_pop(idx)[b].id => a = b
  BY <1>2, <1>3, SwapPop, SwapPopSound DEF LiveSound
<1>8. ASSUME NEW a \in DOMAIN swap_pop(idx) PROVE remembered(out', swap_pop(idx)[a])
  <2>1. PICK b \in DOMAIN live_ : swap_pop(idx)[a] = live_[b] /\ live_[b].id # live_[idx].id
    BY <1>2, <1>3, SwapPopSound DEF LiveSound
  <2>2. remembered(out, live_[b]) /\ live_[b] \in Ref
    BY <1>2, <1>3 DEF LiveSound
  <2> QED
    BY <1>3, <1>4, <2>1, <2>2, OtherKeeps
<1>9. LiveSound'
  BY <1>1, <1>7, <1>8 DEF LiveSound
<1>10. /\ out' \in Seq(Op) /\ DOMAIN out' = DOMAIN out \cup {Len(out) + 1}
       /\ out'[Len(out) + 1] = op /\ \A j \in DOMAIN out : out'[j] = out[j]
  BY <1>3, <1>4
<1>11. StreamTyped'
  BY <1>1, <1>2, <1>7, <1>10 DEF StreamTyped
<1>12. PICK m \in DOMAIN out : out[m].id = op.id
  BY <1>3, <1>4, <1>5 DEF remembered, opened
<1>13. \A j \in DOMAIN out' : out'[j].id # 0 /\ out'[j].id < next_id_'
  BY <1>1, <1>2, <1>10, <1>12
<1> QED
  BY <1>6, <1>9, <1>11, <1>13 DEF StreamInv

\* A modify of the order at idx at the price px, which is then the one remembered.
LEMMA ModifiedStep ==
    ASSUME StreamInv, mid_' \in Int, next_id_' = next_id_, NEW idx \in DOMAIN live_,
           NEW kind \in {"Resize", "Reprice"}, NEW px \in Int, kind = "Resize" => px = live_[idx].px,
           out' = Append(out, [kind |-> kind, id |-> live_[idx].id, side |-> live_[idx].side, px |-> px]),
           live_' \in Seq(Ref), Len(live_') = Len(live_),
           live_'[idx].id = live_[idx].id, live_'[idx].side = live_[idx].side, live_'[idx].px = px,
           \A a \in DOMAIN live_ \ {idx} : live_'[a] = live_[a]
    PROVE  StreamInv'
<1> DEFINE op == [kind |-> kind, id |-> live_[idx].id, side |-> live_[idx].side, px |-> px]
<1>1. StreamTyped /\ LiveSound /\ (\A j \in DOMAIN out : out[j].id # 0 /\ out[j].id < next_id_)
      /\ (\A k \in DOMAIN out : sound_at(out, k))
  BY DEF StreamInv
<1>2. out \in Seq(Op) /\ live_ \in Seq(Ref) /\ live_[idx] \in Ref /\ DOMAIN live_' = DOMAIN live_
  BY <1>1 DEF StreamTyped
<1>3. /\ op \in Op /\ op.id = live_[idx].id /\ op.side = live_[idx].side /\ op.kind = kind /\ op.px = px
      /\ out' = Append(out, op)
  BY <1>2 DEF Op, Ref
<1> HIDE DEF op
<1>4. /\ opened(out, Len(out), live_[idx].id, live_[idx].side)
      /\ last_told(out, Len(out), live_[idx].id, live_[idx].px)
  BY <1>1 DEF LiveSound, remembered
<1>5. \A k \in DOMAIN out' : sound_at(out', k)
  <2>1. /\ opened(out, Len(out), op.id, op.side) /\ op.kind \notin {"Limit", "Market"}
        /\ op.kind = "Resize" => last_told(out, Len(out), op.id, op.px)
    BY <1>3, <1>4
  <2> QED
    BY <1>1, <1>2, <1>3, <2>1, AppendSound
<1>6. ASSUME NEW a \in DOMAIN live_ PROVE remembered(out', live_'[a])
  <2>1. live_'[a] \in Ref
    BY <1>2
  <2>2. CASE a = idx
    <3>1. /\ op.id = live_'[a].id /\ op.px = live_'[a].px /\ op.kind # "Cancel"
          /\ opened(out, Len(out), live_'[a].id, live_'[a].side)
      BY <1>3, <1>4, <2>2
    <3> QED
      BY <1>2, <1>3, <2>1, <3>1, NamedKeeps
  <2>3. CASE a # idx
    <3>1. live_'[a] = live_[a] /\ op.id # live_[a].id /\ remembered(out, live_[a])
      BY <1>1, <1>3, <2>3 DEF LiveSound
    <3> QED
      BY <1>2, <1>3, <2>1, <3>1, OtherKeeps
  <2> QED
    BY <2>2, <2>3
<1>7. LiveSound'
  <2>1. \A a \in DOMAIN live_ : live_'[a].id = live_[a].id
    OBVIOUS
  <2> QED
    BY <1>1, <1>2, <1>6, <2>1 DEF LiveSound
<1>8. /\ out' \in Seq(Op) /\ DOMAIN out' = DOMAIN out \cup {Len(out) + 1}
      /\ out'[Len(out) + 1] = op /\ \A j \in DOMAIN out : out'[j] = out[j]
  BY <1>2, <1>3
<1>9. StreamTyped'
  BY <1>1, <1>8 DEF StreamTyped
<1>10. PICK m \in DOMAIN out : out[m].id = op.id
  BY <1>2, <1>3, <1>4 DEF opened
<1>11. \A j \in DOMAIN out' : out'[j].id # 0 /\ out'[j].id < next_id_'
  BY <1>1, <1>8, <1>10
<1> QED
  BY <1>5, <1>7, <1>9, <1>11 DEF StreamInv

LEMMA ModifyStep == ASSUME StreamInv, mid_' \in Int, modify_op(mid_') PROVE StreamInv'
<1> DEFINE modified(idx, kind, px) ==
             [kind |-> kind, id |-> live_[idx].id, side |-> live_[idx].side, px |-> px]
<1>1. PICK idx \in DOMAIN live_ :
        /\ \/ out' = Append(out, modified(idx, "Resize", live_[idx].px)) /\ live_' = live_
           \/ \E off \in PassiveOff :
                 /\ out' = Append(out, modified(idx, "Reprice", priced(mid_', live_[idx].side, off, 1)))
                 /\ live_' = [live_ EXCEPT ![idx].px = priced(mid_', live_[idx].side, off, 1)]
        /\ next_id_' = next_id_
  BY DEF modify_op
<1>2. live_ \in Seq(Ref) /\ live_[idx] \in Ref
  BY DEF StreamInv, StreamTyped
<1>3. CASE out' = Append(out, modified(idx, "Resize", live_[idx].px)) /\ live_' = live_
  <2>1. live_[idx].px \in Int
    BY <1>2 DEF Ref
  <2> QED
    BY <1>1, <1>2, <1>3, <2>1, ModifiedStep
<1>4. ASSUME NEW off \in PassiveOff,
             out' = Append(out, modified(idx, "Reprice", priced(mid_', live_[idx].side, off, 1))),
             live_' = [live_ EXCEPT ![idx].px = priced(mid_', live_[idx].side, off, 1)]
      PROVE  StreamInv'
  <2>1. PICK px : px = priced(mid_', live_[idx].side, off, 1)
    OBVIOUS
  <2>2. px \in Int
    BY <2>1, GeneratorAssumption DEF priced
  <2>3. [live_[idx] EXCEPT !.px = px] \in Ref
    BY <1>2, <2>2 DEF Ref
  <2>4. PICK ref \in Ref : ref = [live_[idx] EXCEPT !.px = px]
    BY <2>3
  <2>5. ref.id = live_[idx].id /\ ref.side = live_[idx].side /\ ref.px = px
    BY <1>2, <2>4 DEF Ref
  <2>6. live_' = [live_ EXCEPT ![idx] = ref]
    BY <1>4, <2>1, <2>4
  <2>7. /\ live_' \in Seq(Ref) /\ Len(live_') = Len(live_) /\ live_'[idx] = ref
        /\ \A a \in DOMAIN live_ \ {idx} : live_'[a] = live_[a]
    BY <1>2, <2>6
  <2> QED
    BY <1>1, <1>4, <2>1, <2>2, <2>5, <2>7, ModifiedStep
<1> QED
  BY <1>1, <1>3, <1>4

LEMMA StreamInductive == StreamInv /\ [Next]_vars => StreamInv'
<1> SUFFICES ASSUME StreamInv, [Next]_vars PROVE StreamInv'
  OBVIOUS
<1>1. CASE Generate
  <2>1. mid_' \in Int
    BY <1>1, DriftTyped DEF Generate, StreamInv, StreamTyped
  <2>2. CASE passive_limit(mid_')
    <3>1. PICK s \in Side, off \in PassiveOff : limit_at(s, priced(mid_', s, off, 1))
      BY <2>2 DEF passive_limit
    <3>2. priced(mid_', s, off, 1) \in Int
      BY <2>1, GeneratorAssumption DEF priced
    <3>3. PICK px \in Int : px = priced(mid_', s, off, 1)
      BY <3>2
    <3> QED
      BY <2>1, <3>1, <3>3, LimitStep
  <2>3. CASE aggressive_limit(mid_')
    <3>1. PICK s \in Side, off \in AggressiveOff : limit_at(s, priced(mid_', s, off, -1))
      BY <2>3 DEF aggressive_limit
    <3>2. priced(mid_', s, off, -1) \in Int
      BY <2>1, GeneratorAssumption DEF priced
    <3>3. PICK px \in Int : px = priced(mid_', s, off, -1)
      BY <3>2
    <3> QED
      BY <2>1, <3>1, <3>3, LimitStep
  <2> QED
    BY <1>1, <2>1, <2>2, <2>3, MarketStep, CancelStep, ModifyStep DEF Generate
<1>2. CASE Generated
  <2>1. out' = << >> /\ mid_' \in Int /\ next_id_' = 1 /\ live_' = << >>
    BY <1>2, GeneratorAssumption DEF Generated, fresh_gen
  <2> QED
    BY <2>1 DEF StreamInv, StreamTyped, LiveSound
<1>3. CASE UNCHANGED generator
  BY <1>3 DEF generator, StreamInv, StreamTyped, LiveSound
<1>4. UNCHANGED vars => UNCHANGED generator
  BY DEF vars, generator
<1>5. ASSUME NEW s \in Thread, Shard(s) PROVE UNCHANGED generator
  BY <1>5 DEF Shard, Build, WarmUp, Gate, Spin, Measure, End, dispatch, generator
<1>6. Start \/ Await \/ Reset \/ Go \/ Join \/ Finished => UNCHANGED generator
  BY <1>4 DEF Start, Await, Reset, Go, Join, Finished, generator
<1> QED
  BY <1>1, <1>2, <1>3, <1>4, <1>5, <1>6 DEF Next

\* The stream every engine is timed on is one they all treat alike, however
\* long it is and whatever the random draws: see StreamSound.
THEOREM BenchStreamSound == Spec => []StreamSound
<1>1. Init => StreamInv
  <2> SUFFICES ASSUME Init PROVE StreamInv
    OBVIOUS
  <2>1. out = << >> /\ mid_ \in Int /\ next_id_ = 1 /\ live_ = << >>
    BY GeneratorAssumption DEF Init
  <2> QED
    BY <2>1 DEF StreamInv, StreamTyped, LiveSound
<1>2. ASSUME StreamInv PROVE StreamSound
  <2> SUFFICES ASSUME NEW k \in DOMAIN out
               PROVE  LET x == out[k]
                          earlier == {j \in 1 .. (k - 1) : out[j].id = x.id}
                      IN  IF x.kind \in {"Limit", "Market"} THEN x.id # 0 /\ earlier = {}
                          ELSE /\ \E j \in earlier : out[j].kind = "Limit" /\ out[j].side = x.side
                               /\ \A j \in earlier : out[j].kind # "Cancel"
                               /\ x.kind = "Resize" => x.px = out[Max(earlier)].px
    BY DEF StreamSound
  <2> DEFINE x == out[k]
             earlier == {j \in 1 .. (k - 1) : out[j].id = x.id}
  <2>1. sound_at(out, k) /\ k \in Nat
    BY <1>2 DEF StreamInv, StreamTyped
  <2>2. ASSUME x.kind \notin {"Limit", "Market"}, x.kind = "Resize"
        PROVE  x.px = out[Max(earlier)].px
    <3>1. PICK m \in 1 .. (k - 1) : out[m].id = x.id /\ out[m].px = x.px
                                    /\ \A j \in 1 .. (k - 1) : out[j].id = x.id => j <= m
      BY <2>1, <2>2 DEF sound_at, last_told
    <3>2. m \in earlier /\ \A y \in earlier : m >= y
      BY <2>1, <3>1
    <3>3. Max(earlier) \in earlier /\ \A y \in earlier : Max(earlier) >= y
      BY <3>2 DEF Max
    <3>4. Max(earlier) = m
      BY <2>1, <3>2, <3>3
    <3> QED
      BY <3>1, <3>4
  <2> QED
    BY <2>1, <2>2 DEF sound_at, opened
<1>3. StreamInv /\ [Next]_vars => StreamInv'
  BY StreamInductive
<1> QED
  BY <1>1, <1>2, <1>3, PTL DEF Spec
=============================================================================
