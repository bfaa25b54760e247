---------------------------- MODULE IdMapProofs ----------------------------
(***************************************************************************)
(* The id map is a map for every hash function, every table size and every *)
(* sequence of calls.  The inductive invariant says, on top of TableSound, *)
(* what each of the three loops has established so far: a probe that every *)
(* slot it has passed holds another key; the backward shift that the slots *)
(* from the hole to where it looks are in use and none of their entries    *)
(* wants the hole; the rehash that what it has moved and what it has still *)
(* to move are different keys, and few enough.                             *)
(***************************************************************************)
EXTENDS IdMap, FiniteSetTheorems, TLAPS

used == {x \in 0 .. mask_ : slots[x].key # empty}
homeOf(x) == home(slots[x].key, mask_)
waiting == {y \in DOMAIN old : y >= g /\ old[y].key # empty}

Typed ==
    /\ hash \in Hashes
    /\ mask_ \in Nat /\ mask_ + 1 \in InitSlots .. MaxSlots /\ MaxSlots % (mask_ + 1) = 0
    /\ slots \in [0 .. mask_ -> Entry]
    /\ count_ \in Nat /\ grows_ \in Nat /\ g \in Nat
    /\ pc \in {"idle", "grow", "probe", "shift", "done"}
    /\ i \in 0 .. mask_ /\ hole \in 0 .. mask_ /\ j \in 0 .. mask_

CallSound ==
    /\ pc = "idle" => op = NoCall
    /\ pc # "idle" => op \in Map!Call
    /\ pc = "done" <=> ret # NoAnswer
    /\ pc = "shift" => op.kind = "erase"
    /\ pc = "grow" => rehashing
    /\ rehashing => pc \in {"grow", "probe"} /\ op.kind = "insert"

CountSound ==
    /\ count_ = Cardinality(used) /\ count_ * 2 <= mask_ + 1
    /\ pc = "probe" /\ op.kind = "insert" /\ ~rehashing => (count_ + 1) * 2 <= mask_ + 1

\* What the probe has passed is neither its key nor empty.
ProbeSound ==
    pc = "probe" => \A y \in run(home(probed.key, mask_), i) :
                        slots[y].key \notin {probed.key, empty}

\* The old table is half the size of the new one; what is left to move are
\* keys that differ from each other and from the ones moved.
GrowSound ==
    rehashing =>
        /\ \E s \in InitSlots .. MaxSlots : mask_ + 1 = s * 2 /\ old \in [0 .. (s - 1) -> Entry]
        /\ pc = "probe" => g \in waiting
        /\ (count_ + Cardinality(waiting)) * 4 <= mask_ + 1
        /\ \A y, z \in waiting : old[y].key = old[z].key => y = z
        /\ \A y \in waiting : \A x \in used : slots[x].key # old[y].key

\* The slots from the hole on are in use and none of them, up to j, wants the
\* hole; with the hole counted as in use every key is findable.
ShiftSound ==
    pc = "shift" =>
        /\ hole # j /\ run(hole, j) \subseteq used
        /\ \A x \in run(hole, j) \ {hole} : hole \notin run(homeOf(x), x)
        /\ \A x \in used \ {hole} : \A y \in run(homeOf(x), x) :
              y \in used /\ (y # hole => slots[y].key # slots[x].key)

IInv ==
    /\ Typed /\ CallSound /\ CountSound
    /\ ProbeSound /\ GrowSound /\ ShiftSound /\ EveryKeyFindable

-----------------------------------------------------------------------------
(* Slot arithmetic *)

\* The slot after x, around the end of the table.
LEMMA NextSlot ==
    ASSUME mask_ \in Nat, NEW x \in 0 .. mask_
    PROVE  /\ next_slot(x) = IF x = mask_ THEN 0 ELSE x + 1
           /\ next_slot(x) \in 0 .. mask_
<1> DEFINE c == mask_ + 1
<1>1. next_slot(x) = (x + 1) % c /\ c \in Nat /\ c > 0
  BY DEF next_slot, slot_count
<1>2. CASE x = mask_
  <2>1. c % c = 0
    BY <1>1
  <2> QED
    BY <1>1, <1>2, <2>1
<1>3. CASE x # mask_
  <2>1. x + 1 \in 0 .. (c - 1)
    BY <1>3
  <2>2. (x + 1) % c = x + 1
    BY <1>1, <2>1
  <2> QED
    BY <1>1, <1>3, <2>1, <2>2
<1> QED
  BY <1>2, <1>3

\* What lies in a run.
LEMMA InRun ==
    ASSUME mask_ \in Nat, NEW x \in 0 .. mask_, NEW y \in 0 .. mask_, NEW z
    PROVE  /\ z \in run(x, y) => z \in 0 .. mask_
           /\ z \in run(x, y) <=> z \in 0 .. mask_ /\ in_cyclic_range(x, z, y)
  BY DEF run, in_cyclic_range

\* A factor no larger keeps a product no larger.
LEMMA TimesMono == \A a, b, q \in Nat : a >= b => q * a >= q * b
<1> TAKE a, b, q \in Nat
<1> HAVE a >= b
<1>1. PICK d \in Nat : a = b + d
  <2>1. a - b \in Nat /\ a = b + (a - b)
    OBVIOUS
  <2> QED
    BY <2>1
<1>2. q * a = q * b + q * d /\ q * d \in Nat /\ q * b \in Nat
  BY <1>1
<1> QED
  BY <1>2

\* Every key has its home in the table.
LEMMA HomeInTable ==
    ASSUME Typed, NEW k \in Key
    PROVE  home(k, mask_) \in 0 .. mask_
<1> DEFINE c == mask_ + 1
           q == MaxSlots \div c
           h == hash[k]
<1>1. c \in Nat /\ c > 0 /\ c <= MaxSlots /\ MaxSlots \in Nat /\ MaxSlots % c = 0
  BY SizeAssumption DEF Typed
<1>2. h \in Nat /\ h < MaxSlots
  BY HashAssumption, SizeAssumption DEF Typed
<1> HIDE DEF c, h
<1>3. q \in Nat /\ MaxSlots = c * q
  BY <1>1
<1>4. q > 0
  BY <1>1, <1>3
<1> HIDE DEF q
<1> DEFINE d == h \div q
<1>5. d \in Nat /\ h >= q * d
  BY <1>2, <1>3, <1>4
<1> HIDE DEF d
<1>6. d < c
  <2> SUFFICES ASSUME d >= c PROVE FALSE
    <3>1. d \in Int /\ c \in Int
      BY <1>1, <1>5
    <3> QED
      BY <3>1
  <2>1. q * d >= q * c
    BY <1>1, <1>3, <1>5, TimesMono
  <2>2. q * c = MaxSlots /\ q * d \in Nat
    BY <1>1, <1>3, <1>5
  <2> QED
    BY <1>1, <1>2, <1>5, <2>1, <2>2
<1>7. home(k, mask_) = d
  BY DEF home, d, q, h, c
<1> QED
  BY <1>1, <1>5, <1>6, <1>7 DEF c, Typed

\* Of two slots one lies on the way from any third to the other.
LEMMA RunNested ==
    ASSUME mask_ \in Nat, NEW h \in 0 .. mask_, NEW x \in 0 .. mask_, NEW y \in 0 .. mask_, x # y
    PROVE  x \in run(h, y) \/ y \in run(h, x)
  BY DEF run

\* A run is short of its end, and the way to one of its slots is part of it.
LEMMA RunPrefix ==
    ASSUME mask_ \in Nat, NEW h \in 0 .. mask_, NEW y \in 0 .. mask_
    PROVE  /\ run(h, y) \subseteq 0 .. mask_ /\ y \notin run(h, y)
           /\ \A z \in run(h, y) : run(h, z) \subseteq run(h, y)
           /\ run(h, h) = {}
  BY DEF run

\* One slot further a run has one slot more, or has come round.
LEMMA RunNext ==
    ASSUME mask_ \in Nat, NEW h \in 0 .. mask_, NEW y \in 0 .. mask_,
           NEW z \in run(h, next_slot(y))
    PROVE  z \in run(h, y) \/ z = y
  BY NextSlot DEF run

\* ... and it has come round only when it was the whole table.
LEMMA RunWhole ==
    ASSUME mask_ \in Nat, NEW h \in 0 .. mask_, NEW y \in 0 .. mask_, next_slot(y) = h
    PROVE  0 .. mask_ \subseteq run(h, y) \cup {y}
  BY NextSlot DEF run

\* The way to x that passes a but does not end between a and b passes b.
LEMMA RunPasses ==
    ASSUME mask_ \in Nat, NEW h \in 0 .. mask_, NEW x \in 0 .. mask_,
           NEW a \in 0 .. mask_, NEW b \in 0 .. mask_,
           a \in run(h, x), x \notin run(a, b), x # b, a # b
    PROVE  b \in run(h, x)
  BY DEF run

\* A slot in use holds a key, whose home is in the table.
LEMMA UsedKey ==
    ASSUME Typed, NEW x \in used
    PROVE  /\ x \in 0 .. mask_ /\ slots[x] \in Entry /\ slots[x].key \in Key
           /\ slots[x].key # empty /\ homeOf(x) \in 0 .. mask_
<1>1. x \in 0 .. mask_ /\ slots[x] \in Entry /\ slots[x].key # empty
  BY DEF used, Typed
<1>2. slots[x].key \in Key
  BY <1>1 DEF Entry
<1> QED
  BY <1>1, <1>2, HomeInTable DEF homeOf

\* What findable means for the slots in use.
LEMMA Findable ==
    ASSUME pc # "shift"
    PROVE  EveryKeyFindable <=>
               \A x \in used : \A y \in run(homeOf(x), x) : slots[y].key \notin {empty, slots[x].key}
  BY DEF EveryKeyFindable, used, homeOf

\* No key is in two slots.
LEMMA KeysDiffer ==
    ASSUME Typed, EveryKeyFindable, pc # "shift",
           NEW x \in used, NEW y \in used, slots[x].key = slots[y].key
    PROVE  x = y
<1> SUFFICES ASSUME x # y PROVE FALSE
  OBVIOUS
<1>1. /\ x \in 0 .. mask_ /\ y \in 0 .. mask_ /\ homeOf(x) \in 0 .. mask_
      /\ homeOf(y) = homeOf(x)
  BY UsedKey DEF homeOf
<1>2. x \in run(homeOf(x), y) \/ y \in run(homeOf(x), x)
  BY <1>1, RunNested DEF Typed
<1> QED
  BY <1>1, <1>2, Findable

\* A step that leaves the table alone, outside the shift.
LEMMA TableKept ==
    ASSUME IInv, UNCHANGED <<hash, table>>, pc # "shift", pc' # "shift"
    PROVE  /\ used' = used /\ \A k : home(k, mask_)' = home(k, mask_)
           /\ (count_ = Cardinality(used))' /\ (count_ * 2 <= mask_ + 1)'
           /\ ShiftSound' /\ EveryKeyFindable'
           /\ \A x, y : run(x, y)' = run(x, y)
<1>1. UNCHANGED <<hash, slots, mask_, count_, grows_>>
  BY DEF table
<1>2. used' = used /\ (\A k : home(k, mask_)' = home(k, mask_)) /\ \A x, y : run(x, y)' = run(x, y)
  BY <1>1 DEF used, home, run
<1>3. EveryKeyFindable'
  BY <1>1 DEF IInv, EveryKeyFindable, home, run
<1> QED
  BY <1>1, <1>2, <1>3 DEF IInv, CountSound, ShiftSound

\* A probe that starts has passed nothing.
LEMMA ProbeStarts ==
    ASSUME Typed', NEW k \in Key, start_probe(k, mask_'), hash' = hash, (probed.key)' = k
    PROVE  ProbeSound'
<1>1. home(k, mask_)' \in (0 .. mask_)'
  BY DEF start_probe, home, Typed
<1>2. i' = home(k, mask_)'
  BY DEF start_probe, home
<1>3. run(home(probed.key, mask_), i)' = {}
  BY <1>1, <1>2 DEF run, Typed
<1> QED
  BY <1>3 DEF ProbeSound

-----------------------------------------------------------------------------
(* The steps *)

\* The empty table satisfies the invariant.
LEMMA InitIInv == Init => IInv
<1> SUFFICES ASSUME Init PROVE IInv
  OBVIOUS
<1>1. mask_ \in Nat /\ mask_ + 1 = InitSlots /\ 0 \in 0 .. mask_
  BY SizeAssumption DEF Init
<1>2. EmptySlot \in Entry /\ EmptySlot.key = empty
  BY DEF EmptySlot, Entry
<1>3. Typed
  BY <1>1, <1>2, SizeAssumption DEF Init, Typed
<1>4. used = {} /\ \A x \in 0 .. mask_ : slots[x].key = empty
  BY <1>2 DEF Init, used
<1>5. ~rehashing /\ pc = "idle" /\ op = NoCall /\ ret = NoAnswer /\ count_ = 0
  BY DEF Init, rehashing
<1>6. CallSound
  BY <1>5 DEF CallSound
<1>7. CountSound
  BY <1>1, <1>4, <1>5, FS_EmptySet, SizeAssumption DEF CountSound
<1> QED
  BY <1>3, <1>4, <1>5, <1>6, <1>7 DEF IInv, ProbeSound, GrowSound, ShiftSound, EveryKeyFindable

\* A find or an erase that begins.
LEMMA Step_find_erase ==
    ASSUME IInv, NEW k \in Key, find(k) \/ erase(k)
    PROVE  IInv'
<1>1. /\ pc = "idle" /\ pc' = "probe" /\ i' = home(k, mask_)
      /\ op' \in Map!Call /\ op'.k = k /\ op'.kind # "insert"
      /\ UNCHANGED <<hash, table, ret, hole, j, old, g>>
  BY DEF find, erase, start_probe, Map!Call
<1>2. UNCHANGED <<slots, mask_, count_, grows_>>
  BY <1>1 DEF table
<1>3. i' \in 0 .. mask_ /\ Typed
  BY <1>1, HomeInTable DEF IInv
<1>4. Typed'
  BY <1>1, <1>2, <1>3 DEF Typed
<1>5. ~rehashing /\ ~rehashing'
  BY <1>1 DEF IInv, CallSound, rehashing
<1>6. /\ (count_ = Cardinality(used))' /\ (count_ * 2 <= mask_ + 1)' /\ ShiftSound'
      /\ EveryKeyFindable'
  BY <1>1, TableKept
<1>7. CallSound'
  BY <1>1, <1>5 DEF IInv, CallSound
<1>8. CountSound'
  BY <1>1, <1>6 DEF CountSound
<1>9. ProbeSound'
  <2>1. (probed.key)' = k
    BY <1>1, <1>5 DEF probed
  <2>2. start_probe(k, mask_')
    BY <1>1, <1>2 DEF start_probe
  <2> QED
    BY <1>1, <1>4, <2>1, <2>2, ProbeStarts
<1> QED
  BY <1>4, <1>5, <1>6, <1>7, <1>8, <1>9 DEF IInv, GrowSound

\* The old table, taken over by grow, is a function and not the empty one.
LEMMA SlotsNotNoTable == Typed => slots # NoTable
<1> SUFFICES ASSUME Typed, slots = << >> PROVE FALSE
  BY DEF NoTable
<1>1. 0 \in DOMAIN slots
  BY DEF Typed
<1>2. DOMAIN << >> = {}
  OBVIOUS
<1> QED
  BY <1>1, <1>2

\* An insert that begins, and the allocation of a larger table.
LEMMA Step_insert ==
    ASSUME IInv, NEW k \in Key, NEW v \in Val, insert(k, v)
    PROVE  IInv'
<1>1. /\ pc = "idle" /\ op' = [kind |-> "insert", k |-> k, v |-> v]
      /\ UNCHANGED <<hash, ret, hole, j>>
      /\ Typed /\ ret = NoAnswer /\ ~rehashing
  BY DEF insert, IInv, CallSound
<1>2. op' \in Map!Call /\ op'.k = k /\ op'.kind = "insert"
  BY <1>1 DEF Map!Call
<1>3. CASE ~must_grow
  <2>1. pc' = "probe" /\ i' = home(k, mask_) /\ UNCHANGED <<table, old, g>>
    BY <1>3 DEF insert, start_probe
  <2>2. UNCHANGED <<slots, mask_, count_, grows_>>
    BY <2>1 DEF table
  <2>3. Typed'
    BY <1>1, <2>1, <2>2, HomeInTable DEF Typed
  <2>4. ~rehashing'
    BY <1>1, <2>1 DEF rehashing
  <2>5. /\ (count_ = Cardinality(used))' /\ (count_ * 2 <= mask_ + 1)' /\ ShiftSound'
        /\ EveryKeyFindable'
    BY <1>1, <2>1, TableKept
  <2>6. (count_ + 1) * 2 <= mask_ + 1
    BY <1>1, <1>3 DEF must_grow, slot_count, Typed
  <2>7. CallSound' /\ CountSound'
    BY <1>1, <1>2, <2>1, <2>2, <2>4, <2>5, <2>6 DEF CallSound, CountSound
  <2>8. ProbeSound'
    <3>1. (probed.key)' = k
      BY <1>1, <2>4 DEF probed
    <3>2. start_probe(k, mask_')
      BY <2>1, <2>2 DEF start_probe
    <3> QED
      BY <1>1, <2>3, <3>1, <3>2, ProbeStarts
  <2> QED
    BY <2>3, <2>4, <2>5, <2>7, <2>8 DEF IInv, GrowSound
<1>4. CASE must_grow
  <2>1. /\ (mask_ + 1) * 2 <= MaxSlots /\ old' = slots /\ g' = 0
        /\ mask_' = (mask_ + 1) * 2 - 1
        /\ slots' = [x \in 0 .. mask_' |-> EmptySlot]
        /\ count_' = 0 /\ grows_' = grows_ + 1 /\ pc' = "grow" /\ i' = i
    BY <1>4 DEF insert, start_grow, slot_count
  <2>2. EmptySlot \in Entry /\ EmptySlot.key = empty
    BY DEF EmptySlot, Entry
  <2>3. /\ mask_ \in Nat /\ mask_' \in Nat /\ mask_' + 1 = (mask_ + 1) * 2
        /\ mask_ <= mask_' /\ mask_' + 1 \in InitSlots .. MaxSlots
        /\ mask_ + 1 \in InitSlots .. MaxSlots
    BY <1>1, <2>1, SizeAssumption DEF Typed
  <2>4. MaxSlots % (mask_' + 1) = 0
    BY <1>1, <2>1, <2>3, SizeAssumption DEF Typed
  <2>5. Typed'
    <3>1. slots' \in [0 .. mask_' -> Entry]
      BY <2>1, <2>2
    <3>2. i' \in 0 .. mask_' /\ hole' \in 0 .. mask_' /\ j' \in 0 .. mask_'
      BY <1>1, <2>1, <2>3 DEF Typed
    <3> QED
      BY <1>1, <2>1, <2>3, <2>4, <3>1, <3>2 DEF Typed
  <2>6. used' = {} /\ \A x \in 0 .. mask_' : slots'[x].key = empty
    BY <2>1, <2>2 DEF used
  <2>7. rehashing'
    BY <1>1, <2>1, SlotsNotNoTable DEF rehashing
  <2>8. CallSound'
    BY <1>1, <1>2, <2>1, <2>7 DEF CallSound
  <2>9. CountSound'
    BY <2>1, <2>3, <2>6, <2>7, FS_EmptySet DEF CountSound
  <2>10. GrowSound'
    <3>1. old' \in [0 .. ((mask_ + 1) - 1) -> Entry]
      BY <1>1, <2>1, <2>3 DEF Typed
    <3>2. waiting' = used
      BY <1>1, <2>1 DEF waiting, used, Typed
    <3>3. count_ * 2 <= mask_ + 1 /\ count_ \in Nat /\ count_ = Cardinality(used)
      BY DEF IInv, CountSound, Typed
    <3>4. (count_' + Cardinality(waiting)') * 4 <= mask_' + 1
      <4>1. count_ * 4 <= mask_' + 1
        <5>1. \A a, b, c \in Nat : c + 1 = (b + 1) * 2 /\ a * 2 <= b + 1 => a * 4 <= c + 1
          OBVIOUS
        <5> QED
          BY <2>3, <3>3, <5>1
      <4>2. count_' + Cardinality(waiting)' = count_
        BY <2>1, <3>2, <3>3
      <4> QED
        BY <4>1, <4>2, Zenon
    <3>5. \A y, z \in waiting' : old'[y].key = old'[z].key => y = z
      BY <1>1, <2>1, <3>2, KeysDiffer DEF IInv
    <3> QED
      BY <2>1, <2>3, <2>6, <3>1, <3>4, <3>5 DEF GrowSound
  <2> QED
    BY <2>1, <2>5, <2>6, <2>8, <2>9, <2>10
    DEF IInv, ProbeSound, ShiftSound, EveryKeyFindable
<1> QED
  BY <1>3, <1>4

\* A probe is for a key, of the caller's or of the old table.
LEMMA ProbedKey ==
    ASSUME IInv, pc = "probe"
    PROVE  /\ probed \in Entry /\ probed.key \in Key /\ probed.key # empty
           /\ rehashing => g \in waiting /\ probed = old[g]
           /\ ~rehashing => probed.key = op.k
<1>1. op \in Map!Call
  BY DEF IInv, CallSound
<1>2. CASE rehashing
  <2>1. g \in waiting
    BY <1>2 DEF IInv, GrowSound
  <2>2. old[g] \in Entry /\ old[g].key # empty
    BY <1>2, <2>1 DEF IInv, GrowSound, waiting
  <2> QED
    BY <1>2, <2>1, <2>2 DEF probed, Entry
<1>3. CASE ~rehashing
  <2>1. op.k \in Key /\ op.v \in Val \cup {null}
    BY <1>1 DEF Map!Call
  <2>2. op.k # empty
    BY <2>1, KeyAssumption
  <2> QED
    BY <1>3, <2>1, <2>2 DEF probed, Entry
<1> QED
  BY <1>2, <1>3

\* The probe moves on.
LEMMA Step_ProbeNext == IInv /\ ProbeNext => IInv'
<1> SUFFICES ASSUME IInv, ProbeNext PROVE IInv'
  OBVIOUS
<1>1. /\ pc = "probe" /\ pc' = "probe" /\ slots[i].key \notin {probed.key, empty}
      /\ i' = next_slot(i)
      /\ UNCHANGED <<hash, table, op, ret, hole, j, old, g>>
  BY DEF ProbeNext
<1>2. UNCHANGED <<slots, mask_, count_, grows_>>
  BY <1>1 DEF table
<1>3. Typed /\ mask_ \in Nat /\ i \in 0 .. mask_
  BY DEF IInv, Typed
<1>4. i' \in 0 .. mask_
  BY <1>1, <1>3, NextSlot
<1>5. Typed'
  BY <1>1, <1>2, <1>3, <1>4 DEF Typed
<1>6. /\ used' = used /\ (\A k : home(k, mask_)' = home(k, mask_))
      /\ (count_ = Cardinality(used))' /\ (count_ * 2 <= mask_ + 1)' /\ ShiftSound'
      /\ EveryKeyFindable' /\ \A x, y : run(x, y)' = run(x, y)
  BY <1>1, TableKept
<1>7. rehashing' = rehashing /\ probed' = probed /\ waiting' = waiting
  BY <1>1 DEF rehashing, probed, waiting
<1>8. ProbeSound'
  <2>1. PICK h \in 0 .. mask_ : h = home(probed.key, mask_)
    BY <1>1, <1>3, ProbedKey, HomeInTable
  <2>2. home(probed.key, mask_)' = h
    BY <1>6, <1>7, <2>1
  <2>3. \A y \in run(h, i) : slots[y].key \notin {probed.key, empty}
    BY <1>1, <2>1 DEF IInv, ProbeSound
  <2>4. \A y \in run(h, next_slot(i)) : y \in run(h, i) \/ y = i
    BY <1>3, RunNext
  <2>5. run(home(probed.key, mask_), i)' = run(h, next_slot(i))
    BY <1>1, <1>2, <2>2 DEF run
  <2> QED
    BY <1>1, <1>2, <1>7, <2>3, <2>4, <2>5 DEF ProbeSound
<1>9. CallSound' /\ CountSound' /\ GrowSound'
  <2>1. CallSound' /\ CountSound'
    BY <1>1, <1>2, <1>6, <1>7 DEF IInv, CallSound, CountSound
  <2> QED
    BY <1>1, <1>2, <1>6, <1>7, <2>1 DEF IInv, GrowSound
<1> QED
  BY <1>5, <1>6, <1>8, <1>9 DEF IInv

\* A call that is answered without a change of the table, and the return.
LEMMA Step_answers ==
    ASSUME IInv, UNCHANGED <<hash, table, hole, j, old, g>>, ~rehashing, pc # "shift",
           i' \in 0 .. mask_,
           \/ pc' = "done" /\ ret' # NoAnswer /\ op' = op /\ pc # "idle"
           \/ pc' = "idle" /\ ret' = NoAnswer /\ op' = NoCall
    PROVE  IInv'
<1>1. UNCHANGED <<slots, mask_, count_, grows_>>
  BY DEF table
<1>2. Typed'
  BY <1>1 DEF IInv, Typed
<1>3. ~rehashing'
  BY DEF rehashing
<1>4. /\ (count_ = Cardinality(used))' /\ (count_ * 2 <= mask_ + 1)' /\ ShiftSound'
      /\ EveryKeyFindable'
  BY TableKept
<1>5. CallSound' /\ CountSound'
  BY <1>3, <1>4 DEF IInv, CallSound, CountSound
<1> QED
  BY <1>2, <1>3, <1>4, <1>5 DEF IInv, ProbeSound, GrowSound

\* No slot of the new table holds the key that grow moves.
LEMMA MovedIsNew ==
    ASSUME IInv, found, rehashing
    PROVE  FALSE
<1>1. pc = "probe" /\ slots[i].key = probed.key
  BY DEF found
<1>2. g \in waiting /\ probed = old[g] /\ probed.key # empty
  BY <1>1, ProbedKey
<1>3. i \in used
  BY <1>1, <1>2 DEF IInv, Typed, used
<1> QED
  BY <1>1, <1>2, <1>3 DEF IInv, GrowSound

\* find and erase report a missing key, find a present one, insert refuses it.
LEMMA Step_ends ==
    ASSUME IInv, FindEnds \/ EraseMissing \/ InsertRefused
    PROVE  IInv'
<1>1. pc = "probe" /\ 0 \in 0 .. mask_ /\ i \in 0 .. mask_
  BY DEF FindEnds, EraseMissing, InsertRefused, found, missing, IInv, Typed
<1>2. "true" # NoAnswer /\ "false" # NoAnswer /\ null # NoAnswer /\ slots[i].val # NoAnswer
  <2>1. slots[i].val \in Val \cup {null}
    BY <1>1 DEF IInv, Typed, Entry
  <2>2. "true" # NoAnswer /\ "false" # NoAnswer
    BY DEF NoAnswer
  <2> QED
    BY <2>1, <2>2, ValAssumption DEF NoAnswer
<1>3. ~rehashing
  <2>1. CASE InsertRefused
    BY <2>1, MovedIsNew DEF InsertRefused
  <2>2. CASE FindEnds \/ EraseMissing
    BY <2>2 DEF FindEnds, EraseMissing, IInv, CallSound
  <2> QED
    BY <2>1, <2>2
<1>4. /\ UNCHANGED <<hash, table, op, hole, j, old, g>>
      /\ pc' = "done" /\ ret' # NoAnswer /\ i' = 0
  BY <1>2, <1>3 DEF FindEnds, EraseMissing, InsertRefused, answer
<1> QED
  BY <1>1, <1>3, <1>4, Step_answers

\* The caller takes the answer.
LEMMA Step_Returned == IInv /\ Returned => IInv'
<1> SUFFICES ASSUME IInv, Returned PROVE IInv'
  OBVIOUS
<1>1. /\ pc = "done" /\ pc' = "idle" /\ op' = NoCall /\ ret' = NoAnswer
      /\ UNCHANGED <<hash, table, hole, j, old, g, i>>
  BY DEF Returned, frame
<1>2. ~rehashing /\ i' \in 0 .. mask_
  BY <1>1 DEF IInv, CallSound, Typed
<1> QED
  BY <1>1, <1>2, Step_answers

\* The table is finite, and so is what waits in the old one.
LEMMA Finite ==
    ASSUME IInv
    PROVE  IsFiniteSet(used) /\ (rehashing => IsFiniteSet(waiting))
<1>1. IsFiniteSet(0 .. mask_) /\ used \subseteq 0 .. mask_
  BY FS_Interval DEF IInv, Typed, used
<1>2. ASSUME rehashing PROVE IsFiniteSet(waiting)
  <2>1. PICK s \in InitSlots .. MaxSlots : old \in [0 .. (s - 1) -> Entry]
    BY <1>2 DEF IInv, GrowSound
  <2>2. waiting \subseteq 0 .. (s - 1)
    BY <2>1 DEF waiting
  <2>3. IsFiniteSet(0 .. (s - 1))
    <3>1. s - 1 \in Int /\ 0 \in Int
      BY SizeAssumption
    <3> QED
      BY <3>1, FS_Interval
  <2> QED
    BY <2>2, <2>3, FS_Subset
<1> QED
  BY <1>1, <1>2, FS_Subset

\* While grow runs there is room for one more entry without growing again.
LEMMA RehashFits ==
    ASSUME IInv, rehashing
    PROVE  (count_ + 1) * 2 <= mask_ + 1
<1>1. PICK s \in InitSlots .. MaxSlots : mask_ + 1 = s * 2
  BY DEF IInv, GrowSound
<1>2. s >= 2 /\ s \in Nat
  BY SizeAssumption
<1>3. (count_ + Cardinality(waiting)) * 4 <= mask_ + 1 /\ Cardinality(waiting) \in Nat
  BY Finite, FS_CardinalityType DEF IInv, GrowSound
<1>4. \A c, a, m \in Nat : (c + a) * 4 <= m + 1 /\ m + 1 = s * 2 => (c + 1) * 2 <= m + 1
  BY <1>2
<1> QED
  BY <1>1, <1>3, <1>4 DEF IInv, Typed

\* What a put does to the table: the slot was free, and every key, the new one
\* included, is findable after it.
LEMMA PutTable ==
    ASSUME IInv, missing, slots' = [slots EXCEPT ![i] = probed], count_' = count_ + 1,
           UNCHANGED <<hash, mask_>>, pc' # "shift"
    PROVE  /\ used' = used \cup {i} /\ i \notin used
           /\ slots' \in [0 .. mask_ -> Entry] /\ slots'[i] = probed
           /\ \A x \in 0 .. mask_ : x # i => slots'[x] = slots[x]
           /\ (count_ = Cardinality(used))'
           /\ EveryKeyFindable'
<1>1. pc = "probe" /\ slots[i].key = empty /\ i \in 0 .. mask_ /\ mask_ \in Nat /\ Typed
  BY DEF missing, IInv, Typed
<1>2. probed \in Entry /\ probed.key \in Key /\ probed.key # empty
  BY <1>1, ProbedKey
<1>3. /\ slots' \in [0 .. mask_ -> Entry] /\ slots'[i] = probed
      /\ \A x \in 0 .. mask_ : x # i => slots'[x] = slots[x]
  BY <1>1, <1>2 DEF Typed
<1>4. used' = used \cup {i} /\ i \notin used
  BY <1>1, <1>2, <1>3 DEF used
<1>5. (count_ = Cardinality(used))'
  <2>1. IsFiniteSet(used) /\ count_ = Cardinality(used)
    BY Finite DEF IInv, CountSound
  <2>2. Cardinality(used \cup {i}) = Cardinality(used) + 1
    BY <1>4, <2>1, FS_AddElement
  <2> QED
    BY <1>4, <2>1, <2>2
<1>6. EveryKeyFindable'
  <2> SUFFICES ASSUME NEW x \in 0 .. mask_, slots'[x].key # empty,
                      NEW y \in run(home(slots'[x].key, mask_), x)
               PROVE  slots'[y].key \notin {empty, slots'[x].key}
    BY DEF EveryKeyFindable, home, run
  <2>1. CASE x = i
    <3>1. PICK h \in 0 .. mask_ : h = home(probed.key, mask_)
      BY <1>1, <1>2, HomeInTable
    <3>2. y \in run(h, i) /\ \A z \in run(h, i) : slots[z].key \notin {probed.key, empty}
      BY <1>1, <1>3, <2>1, <3>1 DEF IInv, ProbeSound
    <3>3. y # i /\ y \in 0 .. mask_
      BY <1>1, <3>2, RunPrefix
    <3> QED
      BY <1>3, <2>1, <3>2, <3>3
  <2>2. CASE x # i
    <3>1. x \in used /\ slots'[x] = slots[x]
      BY <1>3, <2>2 DEF used
    <3>2. slots[y].key \notin {empty, slots[x].key}
      BY <1>1, <3>1, Findable DEF IInv, homeOf
    <3>3. y \in 0 .. mask_
      <4>1. PICK h \in 0 .. mask_ : h = homeOf(x)
        BY <1>1, <3>1, UsedKey
      <4>2. y \in run(h, x)
        BY <3>1, <4>1 DEF homeOf
      <4> QED
        BY <1>1, <4>2, RunPrefix
    <3> QED
      BY <1>1, <1>3, <3>1, <3>2, <3>3
  <2> QED
    BY <2>1, <2>2
<1> QED
  BY <1>3, <1>4, <1>5, <1>6

\* insert writes a free slot, for the caller or for grow.
LEMMA Step_InsertPut == IInv /\ InsertPut => IInv'
<1> SUFFICES ASSUME IInv, InsertPut PROVE IInv'
  OBVIOUS
<1>1. /\ op.kind = "insert" /\ missing /\ slots' = [slots EXCEPT ![i] = probed]
      /\ count_' = count_ + 1 /\ i' = 0 /\ pc' \in {"grow", "done"}
      /\ UNCHANGED <<hash, mask_, grows_, op, hole, j, old>>
  BY DEF InsertPut, answer
<1>2. /\ used' = used \cup {i} /\ i \notin used
      /\ slots' \in [0 .. mask_ -> Entry] /\ slots'[i] = probed
      /\ \A x \in 0 .. mask_ : x # i => slots'[x] = slots[x]
      /\ (count_ = Cardinality(used))'
      /\ EveryKeyFindable'
  BY <1>1, PutTable
<1>3. /\ pc = "probe" /\ op \in Map!Call /\ ret = NoAnswer /\ count_ \in Nat /\ mask_ \in Nat
      /\ g \in Nat
  BY <1>1 DEF missing, IInv, CallSound, Typed
<1>4. Typed'
  <2>1. g' \in Nat
    BY <1>3 DEF InsertPut, answer
  <2> QED
    BY <1>1, <1>2, <1>3, <2>1 DEF IInv, Typed
<1>5. rehashing' = rehashing
  BY <1>1 DEF rehashing
<1>6. CASE ~rehashing
  <2>1. pc' = "done" /\ ret' = "true" /\ "true" # NoAnswer
    BY <1>6 DEF InsertPut, answer, NoAnswer
  <2>2. (count_ * 2 <= mask_ + 1)'
    BY <1>1, <1>3, <1>6 DEF IInv, CountSound
  <2>3. CountSound' /\ CallSound'
    BY <1>1, <1>2, <1>3, <1>5, <1>6, <2>1, <2>2 DEF CountSound, CallSound
  <2> QED
    BY <1>2, <1>4, <1>5, <1>6, <2>1, <2>3 DEF IInv, ProbeSound, GrowSound, ShiftSound
<1>7. CASE rehashing
  <2>1. pc' = "grow" /\ ret' = ret /\ g' = g + 1
    BY <1>7 DEF InsertPut
  <2>2. g \in waiting /\ probed = old[g]
    BY <1>3, <1>7, ProbedKey
  <2>3. PICK s \in InitSlots .. MaxSlots : mask_ + 1 = s * 2 /\ old \in [0 .. (s - 1) -> Entry]
    BY <1>7 DEF IInv, GrowSound
  <2>4. waiting' = waiting \ {g}
    <3>1. \A y \in 0 .. (s - 1) : y >= g + 1 <=> y >= g /\ y # g
      BY <1>3, <2>3, SizeAssumption
    <3> QED
      BY <1>1, <2>1, <2>3, <3>1 DEF waiting
  <2>5. /\ Cardinality(waiting)' = Cardinality(waiting) - 1
        /\ Cardinality(waiting) \in Nat /\ Cardinality(waiting) - 1 \in Nat
    <3>1. IsFiniteSet(waiting)
      BY <1>7, Finite
    <3>2. /\ Cardinality(waiting \ {g}) = Cardinality(waiting) - 1
          /\ Cardinality(waiting) \in Nat /\ Cardinality(waiting \ {g}) \in Nat
      BY <2>2, <3>1, FS_RemoveElement, FS_CardinalityType
    <3> QED
      BY <2>4, <3>2
  <2>6. (count_ + Cardinality(waiting)) * 4 <= mask_ + 1
    BY <1>7 DEF IInv, GrowSound
  <2>7. count_' + Cardinality(waiting)' = count_ + Cardinality(waiting)
    BY <1>1, <1>3, <2>5
  <2>8. (count_ * 2 <= mask_ + 1)'
    <3>1. \A c, a, m \in Nat : (c + a) * 4 <= m + 1 /\ a - 1 \in Nat => (c + 1) * 2 <= m + 1
      OBVIOUS
    <3>2. (count_ + 1) * 2 <= mask_ + 1
      BY <1>3, <2>5, <2>6, <3>1
    <3> QED
      BY <1>1, <3>2
  <2>9. \A y \in waiting' : \A x \in used' : slots'[x].key # old'[y].key
    <3> SUFFICES ASSUME NEW y \in waiting, y # g, NEW x \in used \cup {i}
                 PROVE  slots'[x].key # old[y].key
      BY <1>1, <1>2, <2>4
    <3>1. CASE x = i
      BY <1>2, <1>7, <2>2, <3>1 DEF IInv, GrowSound
    <3>2. CASE x # i
      BY <1>2, <1>7, <3>2 DEF IInv, GrowSound, used
    <3> QED
      BY <3>1, <3>2
  <2>10. \A y, z \in waiting' : old'[y].key = old'[z].key => y = z
    BY <1>1, <1>7, <2>4 DEF IInv, GrowSound
  <2>11. (count_' + Cardinality(waiting)') * 4 <= mask_' + 1
    BY <1>1, <2>6, <2>7, Zenon
  <2>12. GrowSound'
    BY <1>1, <2>1, <2>3, <2>9, <2>10, <2>11 DEF GrowSound
  <2>13. CountSound' /\ CallSound'
    BY <1>1, <1>2, <1>3, <1>5, <1>7, <2>1, <2>8 DEF CountSound, CallSound
  <2> QED
    BY <1>2, <1>4, <2>1, <2>12, <2>13 DEF IInv, ProbeSound, ShiftSound
<1> QED
  BY <1>6, <1>7

\* grow looks at the next old slot.
LEMMA Step_GrowNext == IInv /\ GrowNext => IInv'
<1> SUFFICES ASSUME IInv, GrowNext PROVE IInv'
  OBVIOUS
<1>1. /\ pc = "grow" /\ g \in DOMAIN old /\ UNCHANGED <<hash, table, op, ret, hole, j, old>>
      /\ pc' \in {"grow", "probe"} /\ rehashing /\ op \in Map!Call /\ op.kind = "insert"
      /\ ret = NoAnswer
  BY DEF GrowNext, start_probe, IInv, CallSound
<1>2. UNCHANGED <<slots, mask_, count_, grows_>> /\ Typed /\ g \in Nat /\ rehashing'
  BY <1>1 DEF table, IInv, Typed, rehashing
<1>3. PICK s \in InitSlots .. MaxSlots : mask_ + 1 = s * 2 /\ old \in [0 .. (s - 1) -> Entry]
  BY <1>1 DEF IInv, GrowSound
<1>4. /\ used' = used
      /\ (count_ = Cardinality(used))' /\ (count_ * 2 <= mask_ + 1)' /\ ShiftSound'
      /\ EveryKeyFindable'
  BY <1>1, TableKept
<1>5. CallSound' /\ CountSound'
  BY <1>1, <1>2, <1>4 DEF CallSound, CountSound
<1>6. CASE old[g].key = empty
  <2>1. pc' = "grow" /\ i' = i /\ g' = g + 1
    BY <1>1, <1>6 DEF GrowNext
  <2>2. Typed'
    BY <1>1, <1>2, <2>1 DEF Typed
  <2>3. waiting' = waiting
    <3>1. \A y \in 0 .. (s - 1) : y >= g + 1 <=> y >= g /\ y # g
      BY <1>2, SizeAssumption
    <3> QED
      BY <1>1, <1>3, <1>6, <2>1, <3>1 DEF waiting
  <2>4. GrowSound'
    BY <1>1, <1>2, <1>4, <2>1, <2>3 DEF IInv, GrowSound
  <2> QED
    BY <1>4, <1>5, <2>1, <2>2, <2>4 DEF IInv, ProbeSound
<1>7. CASE old[g].key # empty
  <2>1. pc' = "probe" /\ i' = home(old[g].key, mask_) /\ g' = g
    BY <1>1, <1>7 DEF GrowNext, start_probe
  <2>2. old[g].key \in Key /\ g \in waiting
    BY <1>1, <1>2, <1>3, <1>7 DEF Entry, waiting
  <2>3. PICK k \in Key : k = old[g].key
    BY <2>2
  <2>4. Typed'
    BY <1>1, <1>2, <2>1, <2>3, HomeInTable DEF Typed
  <2>5. waiting' = waiting
    BY <1>1, <2>1 DEF waiting
  <2>6. GrowSound'
    BY <1>1, <1>2, <1>4, <2>1, <2>2, <2>5 DEF IInv, GrowSound
  <2>7. ProbeSound'
    <3>1. (probed.key)' = k
      BY <1>1, <1>2, <2>1, <2>3 DEF probed
    <3>2. start_probe(k, mask_')
      BY <1>2, <2>1, <2>3 DEF start_probe
    <3> QED
      BY <1>1, <2>4, <3>1, <3>2, ProbeStarts
  <2> QED
    BY <1>4, <1>5, <2>4, <2>6, <2>7 DEF IInv
<1> QED
  BY <1>6, <1>7

\* grow is done and the insert goes on.
LEMMA Step_GrowEnds == IInv /\ GrowEnds => IInv'
<1> SUFFICES ASSUME IInv, GrowEnds PROVE IInv'
  OBVIOUS
<1>1. /\ pc = "grow" /\ old' = NoTable /\ g' = 0 /\ pc' = "probe" /\ i' = home(op.k, mask_)
      /\ UNCHANGED <<hash, table, op, ret, hole, j>>
      /\ rehashing /\ op \in Map!Call /\ op.kind = "insert" /\ ret = NoAnswer
  BY DEF GrowEnds, start_probe, IInv, CallSound
<1>2. UNCHANGED <<slots, mask_, count_, grows_>> /\ Typed /\ ~rehashing'
  BY <1>1 DEF table, IInv, rehashing
<1>3. PICK k \in Key : k = op.k
  BY <1>1 DEF Map!Call
<1>4. Typed'
  BY <1>1, <1>2, <1>3, HomeInTable DEF Typed
<1>5. /\ (count_ = Cardinality(used))' /\ (count_ * 2 <= mask_ + 1)' /\ ShiftSound'
      /\ EveryKeyFindable'
  BY <1>1, TableKept
<1>6. (count_ + 1) * 2 <= mask_ + 1
  BY <1>1, RehashFits
<1>7. CallSound' /\ CountSound'
  BY <1>1, <1>2, <1>5, <1>6 DEF CallSound, CountSound
<1>8. ProbeSound'
  <2>1. (probed.key)' = k
    BY <1>1, <1>2, <1>3 DEF probed
  <2>2. start_probe(k, mask_')
    BY <1>1, <1>2, <1>3 DEF start_probe
  <2> QED
    BY <1>1, <1>4, <2>1, <2>2, ProbeStarts
<1> QED
  BY <1>2, <1>4, <1>5, <1>7, <1>8 DEF IInv, GrowSound

\* erase has found its key: the slot becomes the hole.
LEMMA Step_EraseFound == IInv /\ EraseFound => IInv'
<1> SUFFICES ASSUME IInv, EraseFound PROVE IInv'
  OBVIOUS
<1>1. /\ op.kind = "erase" /\ pc = "probe" /\ slots[i].key = probed.key
      /\ pc' = "shift" /\ hole' = i /\ j' = next_slot(i) /\ i' = 0
      /\ UNCHANGED <<hash, table, op, ret, old, g>>
      /\ op \in Map!Call /\ ret = NoAnswer /\ ~rehashing
  BY DEF EraseFound, found, IInv, CallSound
<1>2. /\ UNCHANGED <<slots, mask_, count_, grows_>> /\ Typed /\ ~rehashing' /\ mask_ \in Nat
      /\ i \in 0 .. mask_ /\ mask_ >= 1
  BY <1>1, SizeAssumption DEF table, IInv, rehashing, Typed
<1>3. next_slot(i) \in 0 .. mask_ /\ next_slot(i) # i
  BY <1>2, NextSlot
<1>4. Typed'
  BY <1>1, <1>2, <1>3 DEF Typed
<1>5. used' = used /\ (\A x : homeOf(x)' = homeOf(x)) /\ \A x, y : run(x, y)' = run(x, y)
  BY <1>1, <1>2 DEF used, homeOf, home, run
<1>6. CallSound' /\ CountSound'
  BY <1>1, <1>2, <1>5 DEF IInv, CallSound, CountSound
<1>7. i \in used
  BY <1>1, <1>2, ProbedKey DEF used
<1>8. \A z \in run(i, next_slot(i)) : z = i
  BY <1>2, RunNext, RunPrefix
<1>9. \A x \in used : \A y \in run(homeOf(x), x) : y \in used /\ slots[y].key # slots[x].key
  <2> SUFFICES ASSUME NEW x \in used, NEW y \in run(homeOf(x), x)
               PROVE  y \in used /\ slots[y].key # slots[x].key
    OBVIOUS
  <2>1. slots[y].key \notin {empty, slots[x].key}
    BY <1>1, Findable DEF IInv
  <2>2. y \in 0 .. mask_
    BY <1>2, UsedKey, RunPrefix
  <2> QED
    BY <2>1, <2>2 DEF used
<1>10. ShiftSound'
  <2>1. run(hole, j)' = run(i, next_slot(i))
    BY <1>1, <1>2 DEF run
  <2>2. \A x : run(homeOf(x), x)' = run(homeOf(x), x)
    BY <1>2, <1>5 DEF run
  <2> QED
    BY <1>1, <1>2, <1>3, <1>5, <1>7, <1>8, <1>9, <2>1, <2>2 DEF ShiftSound
<1> QED
  BY <1>1, <1>2, <1>4, <1>6, <1>10 DEF IInv, ProbeSound, GrowSound, EveryKeyFindable

\* Not every slot is in use.
LEMMA SomeSlotFree ==
    ASSUME IInv
    PROVE  ~(0 .. mask_ \subseteq used)
<1> SUFFICES ASSUME 0 .. mask_ \subseteq used PROVE FALSE
  OBVIOUS
<1>1. used = 0 .. mask_ /\ mask_ \in Nat /\ count_ = Cardinality(used) /\ count_ * 2 <= mask_ + 1
  BY DEF used, IInv, CountSound, Typed
<1>2. Cardinality(0 .. mask_) = mask_ + 1
  <2>1. 0 \in Int /\ mask_ \in Int /\ 0 <= mask_
    BY <1>1
  <2>2. Cardinality(0 .. mask_) = mask_ - 0 + 1
    BY <2>1, FS_Interval
  <2> QED
    BY <1>1, <2>2
<1>3. count_ = mask_ + 1
  BY <1>1, <1>2
<1> QED
  BY <1>1, <1>3

\* The state of the shift, spelled out, and the slot it goes on to.
LEMMA ShiftFacts ==
    ASSUME IInv, pc = "shift", slots[j].key # empty
    PROVE  /\ mask_ \in Nat /\ hole \in 0 .. mask_ /\ j \in 0 .. mask_
           /\ hole \in used /\ j \in used /\ hole # j
           /\ next_slot(j) \in 0 .. mask_ /\ next_slot(j) # hole /\ next_slot(j) # j
           /\ \A x \in used : /\ x \in 0 .. mask_ /\ slots[x] \in Entry
                              /\ slots[x].key # empty /\ homeOf(x) \in 0 .. mask_
<1>1. mask_ \in Nat /\ mask_ >= 1 /\ hole \in 0 .. mask_ /\ j \in 0 .. mask_ /\ Typed
  BY SizeAssumption DEF IInv, Typed
<1>2. hole # j /\ run(hole, j) \subseteq used
  BY DEF IInv, ShiftSound
<1>3. hole \in used /\ j \in used
  BY <1>1, <1>2 DEF run, used
<1>4. next_slot(j) \in 0 .. mask_ /\ next_slot(j) # j
  BY <1>1, NextSlot
<1>5. next_slot(j) # hole
  <2> SUFFICES ASSUME next_slot(j) = hole PROVE FALSE
    OBVIOUS
  <2>1. 0 .. mask_ \subseteq run(hole, j) \cup {j}
    BY <1>1, RunWhole
  <2> QED
    BY <1>2, <1>3, <2>1, SomeSlotFree
<1> QED
  BY <1>1, <1>2, <1>3, <1>4, <1>5, UsedKey

\* The shift passes over an entry that does not want the hole.
LEMMA ShiftPasses ==
    ASSUME IInv, pc = "shift", slots[j].key # empty, hole \notin run(homeOf(j), j),
           UNCHANGED <<hash, table, pc, op, ret, i, hole, old, g>>, j' = next_slot(j)
    PROVE  IInv'
<1>1. /\ mask_ \in Nat /\ hole \in 0 .. mask_ /\ j \in 0 .. mask_
      /\ hole \in used /\ j \in used /\ hole # j
      /\ next_slot(j) \in 0 .. mask_ /\ next_slot(j) # hole
  BY ShiftFacts
<1>2. UNCHANGED <<slots, mask_, count_, grows_>>
  BY DEF table
<1>3. used' = used /\ (\A x : homeOf(x)' = homeOf(x)) /\ \A x, y : run(x, y)' = run(x, y)
  BY <1>2 DEF used, homeOf, home, run
<1>4. rehashing' = rehashing /\ ~rehashing
  BY DEF rehashing, IInv, CallSound
<1>5. Typed' /\ CallSound' /\ CountSound'
  BY <1>1, <1>2, <1>3, <1>4 DEF IInv, Typed, CallSound, CountSound
<1>6. \A z \in run(hole, next_slot(j)) : z \in run(hole, j) \/ z = j
  BY <1>1, RunNext
<1>7. ShiftSound'
  <2>1. run(hole, j)' = run(hole, next_slot(j))
    BY <1>2 DEF run
  <2>2. \A x : run(homeOf(x), x)' = run(homeOf(x), x)
    BY <1>2, <1>3 DEF run
  <2> QED
    BY <1>1, <1>2, <1>3, <1>6, <2>1, <2>2 DEF IInv, ShiftSound
<1> QED
  BY <1>4, <1>5, <1>7 DEF IInv, ProbeSound, GrowSound, EveryKeyFindable

\* The shift fills the hole and leaves another.
LEMMA ShiftMoves ==
    ASSUME IInv, pc = "shift", slots[j].key # empty, hole \in run(homeOf(j), j),
           slots' = [slots EXCEPT ![hole] = slots[j]], hole' = j, j' = next_slot(j),
           UNCHANGED <<hash, mask_, count_, grows_, pc, op, ret, i, old, g>>
    PROVE  IInv'
<1>1. /\ mask_ \in Nat /\ hole \in 0 .. mask_ /\ j \in 0 .. mask_
      /\ hole \in used /\ j \in used /\ hole # j
      /\ next_slot(j) \in 0 .. mask_ /\ next_slot(j) # j
      /\ \A x \in used : /\ x \in 0 .. mask_ /\ slots[x] \in Entry
                         /\ slots[x].key # empty /\ homeOf(x) \in 0 .. mask_
  BY ShiftFacts
<1>2. /\ slots' \in [0 .. mask_ -> Entry] /\ slots'[hole] = slots[j]
      /\ \A x \in 0 .. mask_ : x # hole => slots'[x] = slots[x]
  BY <1>1 DEF IInv, Typed
<1>3. used' = used
  BY <1>1, <1>2 DEF used
<1>4. rehashing' = rehashing /\ ~rehashing
  BY DEF rehashing, IInv, CallSound
<1>5. Typed' /\ CallSound' /\ CountSound'
  <2>1. Typed'
    BY <1>1, <1>2 DEF IInv, Typed
  <2> QED
    BY <1>3, <1>4, <2>1 DEF IInv, CallSound, CountSound
<1>6. \A x, y : run(x, y)' = run(x, y)
  BY DEF run
<1>7. /\ homeOf(hole)' = home(slots'[j].key, mask_)
      /\ home(slots'[hole].key, mask_) = homeOf(j)
      /\ \A x \in 0 .. mask_ : x # hole => home(slots'[x].key, mask_) = homeOf(x)
      /\ \A x : homeOf(x)' = home(slots'[x].key, mask_)
  BY <1>2 DEF homeOf, home
<1>8. \A x \in used \ {hole} : \A y \in run(homeOf(x), x) :
          y \in used /\ (y # hole => slots[y].key # slots[x].key)
  BY DEF IInv, ShiftSound
<1>9. ASSUME NEW x \in used, x # j, NEW y, y \in run(home(slots'[x].key, mask_), x)
      PROVE  y \in used /\ (y # j => slots'[y].key # slots'[x].key)
  <2>1. CASE x = hole
    <3>1. y \in run(homeOf(j), hole)
      BY <1>7, <1>9, <2>1
    <3>2. PICK h \in 0 .. mask_ : h = homeOf(j)
      BY <1>1
    <3>3. y \in run(h, j) /\ y # hole
      BY <1>1, <3>1, <3>2, RunPrefix
    <3> QED
      BY <1>1, <1>2, <1>8, <2>1, <3>2, <3>3
  <2>2. CASE x # hole
    <3>1. slots'[x] = slots[x] /\ y \in run(homeOf(x), x)
      BY <1>1, <1>2, <1>7, <1>9, <2>2
    <3>2. y \in used /\ (y # hole => slots[y].key # slots[x].key)
      BY <1>8, <2>2, <3>1
    <3>3. ASSUME y = hole PROVE slots[j].key # slots[x].key
      <4> SUFFICES ASSUME slots[j].key = slots[x].key PROVE FALSE
        OBVIOUS
      <4>1. homeOf(j) = homeOf(x)
        BY DEF homeOf
      <4>2. PICK h \in 0 .. mask_ : h = homeOf(x)
        BY <1>1
      <4>3. x \in run(h, j) \/ j \in run(h, x)
        BY <1>1, <1>9, RunNested
      <4> QED
        BY <1>1, <1>8, <1>9, <2>2, <4>1, <4>2, <4>3
    <3> QED
      BY <1>1, <1>2, <3>1, <3>2, <3>3
  <2> QED
    BY <2>1, <2>2
<1>10. \A z \in run(j, next_slot(j)) : z = j
  BY <1>1, RunNext, RunPrefix
<1>11. ShiftSound'
  <2>1. run(hole, j)' = run(j, next_slot(j))
    BY DEF run
  <2>2. \A x : run(homeOf(x), x)' = run(home(slots'[x].key, mask_), x)
    BY <1>7 DEF run
  <2>3. (hole # j)' /\ run(hole, j)' \subseteq used'
    BY <1>1, <1>3, <1>10, <2>1
  <2>4. \A x \in run(hole, j)' \ {hole'} : FALSE
    BY <1>10, <2>1
  <2>5. \A x \in used' \ {hole'} : \A y \in run(homeOf(x), x)' :
            y \in used' /\ (y # hole' => slots'[y].key # slots'[x].key)
    BY <1>3, <1>9, <2>2
  <2> QED
    BY <2>3, <2>4, <2>5 DEF ShiftSound
<1> QED
  BY <1>4, <1>5, <1>11 DEF IInv, ProbeSound, GrowSound, EveryKeyFindable

\* One slot of the backward shift.
LEMMA Step_Shift == IInv /\ Shift => IInv'
<1> SUFFICES ASSUME IInv, Shift PROVE IInv'
  OBVIOUS
<1>1. /\ pc = "shift" /\ slots[j].key # empty /\ j' = next_slot(j)
      /\ UNCHANGED <<hash, mask_, count_, grows_, pc, op, ret, i, old, g>>
  BY DEF Shift, shift_next
<1>2. mask_ \in Nat /\ hole \in 0 .. mask_ /\ j \in 0 .. mask_ /\ homeOf(j) \in 0 .. mask_
  BY <1>1, ShiftFacts
<1>3. in_cyclic_range(homeOf(j), hole, j) <=> hole \in run(homeOf(j), j)
  BY <1>2, InRun
<1>4. IF hole \in run(homeOf(j), j)
      THEN slots' = [slots EXCEPT ![hole] = slots[j]] /\ hole' = j
      ELSE UNCHANGED <<slots, hole>>
  BY <1>3 DEF Shift, shifted, homeOf
<1>5. CASE hole \in run(homeOf(j), j)
  BY <1>1, <1>4, <1>5, ShiftMoves
<1>6. CASE hole \notin run(homeOf(j), j)
  BY <1>1, <1>4, <1>6, ShiftPasses DEF table
<1> QED
  BY <1>5, <1>6

\* The shift ends at a free slot: nothing beyond it can want the hole, which
\* is freed.
LEMMA Step_ShiftEnds == IInv /\ ShiftEnds => IInv'
<1> SUFFICES ASSUME IInv, ShiftEnds PROVE IInv'
  OBVIOUS
<1>1. /\ pc = "shift" /\ slots[j].key = empty
      /\ slots' = [slots EXCEPT ![hole] = EmptySlot] /\ count_' = count_ - 1
      /\ hole' = 0 /\ j' = 0 /\ pc' = "done" /\ ret' = "true" /\ i' = 0
      /\ UNCHANGED <<hash, mask_, grows_, op, old, g>>
  BY DEF ShiftEnds, answer
<1>2. /\ mask_ \in Nat /\ hole \in 0 .. mask_ /\ j \in 0 .. mask_ /\ hole # j /\ Typed
      /\ count_ \in Nat /\ run(hole, j) \subseteq used
  BY <1>1 DEF IInv, Typed, ShiftSound
<1>3. hole \in used /\ j \notin used
  BY <1>1, <1>2 DEF run, used
<1>4. EmptySlot \in Entry /\ EmptySlot.key = empty
  BY DEF EmptySlot, Entry
<1>5. /\ slots' \in [0 .. mask_ -> Entry] /\ slots'[hole] = EmptySlot
      /\ \A x \in 0 .. mask_ : x # hole => slots'[x] = slots[x]
  BY <1>1, <1>2, <1>4 DEF Typed
<1>6. used' = used \ {hole}
  BY <1>1, <1>4, <1>5 DEF used
<1>7. /\ (count_ = Cardinality(used))' /\ count_' \in Nat
      /\ (count_ * 2 <= mask_ + 1)'
  <2>1. IsFiniteSet(used) /\ count_ = Cardinality(used) /\ count_ * 2 <= mask_ + 1
    BY Finite DEF IInv, CountSound
  <2>2. /\ Cardinality(used \ {hole}) = Cardinality(used) - 1
        /\ Cardinality(used \ {hole}) \in Nat
    BY <1>3, <2>1, FS_RemoveElement, FS_CardinalityType
  <2>3. count_' \in Nat /\ count_' = Cardinality(used')
    BY <1>1, <1>6, <2>1, <2>2
  <2>4. (count_ - 1) * 2 <= mask_ + 1
    BY <1>2, <2>1
  <2> QED
    BY <1>1, <2>3, <2>4
<1>8. Typed'
  BY <1>1, <1>2, <1>5, <1>7 DEF Typed
<1>9. op \in Map!Call /\ ~rehashing /\ ~rehashing' /\ "true" # NoAnswer /\ op.kind = "erase"
  BY <1>1 DEF IInv, CallSound, rehashing, NoAnswer
<1>10. CallSound' /\ CountSound'
  BY <1>1, <1>7, <1>9 DEF CallSound, CountSound
<1>11. EveryKeyFindable'
  <2> SUFFICES ASSUME NEW x \in 0 .. mask_, slots'[x].key # empty,
                      NEW y \in run(home(slots'[x].key, mask_), x)
               PROVE  slots'[y].key \notin {empty, slots'[x].key}
    BY <1>1 DEF EveryKeyFindable, home, run
  <2>1. x # hole /\ x \in used /\ slots'[x] = slots[x]
    BY <1>4, <1>5, <1>6 DEF used
  <2>2. y \in run(homeOf(x), x)
    BY <2>1 DEF homeOf
  <2>3. PICK h \in 0 .. mask_ : h = homeOf(x)
    BY <1>2, <2>1, UsedKey
  <2>4. /\ \A z \in run(h, x) : z \in used /\ (z # hole => slots[z].key # slots[x].key)
        /\ x \in run(hole, j) => hole \notin run(h, x)
    BY <1>1, <2>1, <2>3 DEF IInv, ShiftSound
  <2>5. hole \notin run(h, x)
    <3> SUFFICES ASSUME hole \in run(h, x) PROVE FALSE
      OBVIOUS
    <3>1. x \notin run(hole, j) /\ x # j
      BY <1>3, <2>1, <2>4
    <3>2. j \in run(h, x)
      BY <1>2, <3>1, RunPasses
    <3> QED
      BY <1>3, <2>4, <3>2
  <2>6. y \in used /\ y # hole /\ slots[y].key # slots[x].key
    BY <2>2, <2>3, <2>4, <2>5
  <2> QED
    BY <1>5, <2>1, <2>6 DEF used
<1> QED
  BY <1>1, <1>8, <1>9, <1>10, <1>11 DEF IInv, ProbeSound, GrowSound, ShiftSound

\* Every step preserves the invariant.
LEMMA Inductive == IInv /\ [Next]_vars => IInv'
<1> SUFFICES ASSUME IInv, [Next]_vars PROVE IInv'
  OBVIOUS
<1>1. CASE Step
  BY <1>1, Step_ProbeNext, Step_ends, Step_InsertPut, Step_GrowNext, Step_GrowEnds,
     Step_EraseFound, Step_Shift, Step_ShiftEnds, Step_Returned DEF Step
<1>2. CASE Caller
  BY <1>2, Step_find_erase, Step_insert DEF Caller
<1>3. CASE UNCHANGED vars
  <2>1. /\ UNCHANGED <<hash, slots, mask_, count_, grows_>>
        /\ UNCHANGED <<pc, op, ret, i, hole, j, old, g>>
    BY <1>3 DEF vars, table, frame
  <2>2. /\ used' = used /\ waiting' = waiting /\ rehashing' = rehashing /\ probed' = probed
        /\ (\A x : homeOf(x)' = homeOf(x)) /\ (\A x, y : run(x, y)' = run(x, y))
    BY <2>1 DEF used, waiting, rehashing, probed, homeOf, home, run
  <2>3. Typed' /\ CallSound' /\ CountSound'
    BY <2>1, <2>2 DEF IInv, Typed, CallSound, CountSound
  <2>4. GrowSound' /\ ProbeSound'
    BY <2>1, <2>2 DEF IInv, GrowSound, ProbeSound, home, run
  <2>5. ShiftSound'
    BY <2>1, <2>2 DEF IInv, ShiftSound, run
  <2>6. EveryKeyFindable'
    BY <2>1 DEF IInv, EveryKeyFindable, home, run
  <2> QED
    BY <2>3, <2>4, <2>5, <2>6 DEF IInv
<1> QED
  BY <1>1, <1>2, <1>3 DEF Next

\* The invariant holds in every reachable state.
THEOREM IdMapInvariance == Spec => []IInv
  BY InitIInv, Inductive, PTL DEF Spec

\* For every hash function and every table size: no index ever leaves the
\* table, a probe for a stored key finds it and finds it once, and the table
\* is never more than half full, neither while it shifts nor while it grows.
THEOREM IdMapTableSound == Spec => []TableSound
<1>1. IInv => TableSound
  <2> SUFFICES ASSUME IInv PROVE TableSound
    OBVIOUS
  <2>1. TypeOK
    BY DEF IInv, Typed, TypeOK
  <2>2. LoadAtMostHalf
    <3>1. rehashing => ~must_grow
      BY RehashFits DEF must_grow, slot_count, IInv, Typed
    <3>2. count_ = Cardinality(used) /\ count_ * 2 <= mask_ + 1
      BY DEF IInv, CountSound
    <3> QED
      BY <3>1, <3>2 DEF LoadAtMostHalf, slot_count, used
  <2> QED
    BY <2>1, <2>2 DEF IInv, TableSound
<1> QED
  BY <1>1, IdMapInvariance, PTL

-----------------------------------------------------------------------------
(* The table implements the abstract map *)

oneEach(S) == \A e, f \in S : e.key = f.key => e = f
live == IF pc = "shift" THEN used \ {hole} ELSE used

\* What as_map makes of a set of entries with different keys.
LEMMA MapAt ==
    ASSUME NEW S, oneEach(S), NEW e \in S
    PROVE  as_map(S)[e.key] = e.val /\ e.key \in DOMAIN as_map(S)
<1>1. \A f \in S : f.key = e.key => f = e
  BY DEF oneEach
<1>2. (CHOOSE f \in S : f.key = e.key) = e
  BY <1>1
<1> QED
  BY <1>2 DEF as_map

\* A key is in the map when an entry has it.
LEMMA MapDomain ==
    ASSUME NEW S
    PROVE  \A k : k \in DOMAIN as_map(S) <=> \E e \in S : k = e.key
<1>1. DOMAIN as_map(S) = {e.key : e \in S}
  BY DEF as_map
<1> QED
  BY <1>1

\* An entry with a new key extends the map by its key and value.
LEMMA MapAdd ==
    ASSUME NEW S, oneEach(S), NEW e, \A f \in S : f.key # e.key
    PROVE  /\ oneEach(S \cup {e})
           /\ as_map(S \cup {e}) = [k \in DOMAIN as_map(S) \cup {e.key} |->
                                       IF k \in DOMAIN as_map(S) THEN as_map(S)[k] ELSE e.val]
<1>1. oneEach(S \cup {e})
  BY DEF oneEach
<1>2. DOMAIN as_map(S \cup {e}) = DOMAIN as_map(S) \cup {e.key}
  <2>1. PICK T : T = S \cup {e}
    OBVIOUS
  <2>2. \A k : k \in DOMAIN as_map(T) <=> \E f \in T : k = f.key
    BY MapDomain
  <2>3. \A k : k \in DOMAIN as_map(S) <=> \E f \in S : k = f.key
    BY MapDomain
  <2> QED
    BY <2>1, <2>2, <2>3
<1>3. ASSUME NEW k \in DOMAIN as_map(S) \cup {e.key}
      PROVE  as_map(S \cup {e})[k] = IF k \in DOMAIN as_map(S) THEN as_map(S)[k] ELSE e.val
  <2>1. CASE k \in DOMAIN as_map(S)
    <3>1. PICK f \in S : f.key = k
      BY <2>1, MapDomain
    <3>2. as_map(S)[k] = f.val
      BY <3>1, MapAt
    <3>3. as_map(S \cup {e})[k] = f.val
      BY <1>1, <3>1, MapAt
    <3> QED
      BY <2>1, <3>2, <3>3
  <2>2. CASE k \notin DOMAIN as_map(S)
    <3>1. k = e.key
      BY <2>2
    <3>2. as_map(S \cup {e})[k] = e.val
      BY <1>1, <3>1, MapAt
    <3> QED
      BY <2>2, <3>2
  <2> QED
    BY <2>1, <2>2
<1>4. as_map(S \cup {e}) = [k \in DOMAIN as_map(S) \cup {e.key} |-> as_map(S \cup {e})[k]]
  BY <1>2 DEF as_map
<1> QED
  BY <1>1, <1>3, <1>4

\* Dropping an entry drops its key.
LEMMA MapDrop ==
    ASSUME NEW S, oneEach(S), NEW e \in S
    PROVE  as_map(S \ {e}) = [k \in DOMAIN as_map(S) \ {e.key} |-> as_map(S)[k]]
<1>1. oneEach(S \ {e})
  BY DEF oneEach
<1>2. DOMAIN as_map(S \ {e}) = DOMAIN as_map(S) \ {e.key}
  <2>1. PICK T : T = S \ {e}
    OBVIOUS
  <2>2. \A k : k \in DOMAIN as_map(T) <=> \E f \in T : k = f.key
    BY MapDomain
  <2>3. \A k : k \in DOMAIN as_map(S) <=> \E f \in S : k = f.key
    BY MapDomain
  <2>4. \A f \in S : f.key = e.key <=> f = e
    BY DEF oneEach
  <2>5. \A k : (\E f \in T : k = f.key) <=> (\E f \in S : k = f.key) /\ k # e.key
    BY <2>1, <2>4
  <2>6. \A k : k \in DOMAIN as_map(T) <=> k \in DOMAIN as_map(S) \ {e.key}
    BY <2>2, <2>3, <2>5, Zenon
  <2> QED
    BY <2>1, <2>6
<1>3. ASSUME NEW k \in DOMAIN as_map(S) \ {e.key}
      PROVE  as_map(S \ {e})[k] = as_map(S)[k]
  <2>1. PICK f \in S \ {e} : f.key = k
    BY MapDomain
  <2>2. as_map(S)[k] = f.val
    BY <2>1, MapAt
  <2>3. as_map(S \ {e})[k] = f.val
    BY <1>1, <2>1, MapAt
  <2> QED
    BY <2>2, <2>3
<1>4. as_map(S \ {e}) = [k \in DOMAIN as_map(S) \ {e.key} |-> as_map(S \ {e})[k]]
  BY <1>2 DEF as_map
<1> QED
  BY <1>3, <1>4

\* A map is the function of its own values.
LEMMA MapSame ==
    ASSUME NEW S
    PROVE  as_map(S) = [k \in DOMAIN as_map(S) |-> as_map(S)[k]]
  BY DEF as_map

\* The entries of the map are those of the live slots and of the waiting ones.
LEMMA StoredIs ==
    /\ stored = {slots[x] : x \in live} \cup {old[y] : y \in waiting}
    /\ stored' = {slots'[x] : x \in live'} \cup {old'[y] : y \in waiting'}
<1>1. stored = {slots[x] : x \in live} \cup {old[y] : y \in waiting}
  BY DEF stored, entries, live, waiting, used
<1>2. stored' = {slots'[x] : x \in live'} \cup {old'[y] : y \in waiting'}
  BY DEF stored, entries, live, waiting, used
<1> QED
  BY <1>1, <1>2

\* No two live slots hold one key.
LEMMA LiveDiffer ==
    ASSUME IInv, NEW x \in live, NEW y \in live, slots[x].key = slots[y].key
    PROVE  x = y
<1>1. CASE pc # "shift"
  BY <1>1, KeysDiffer DEF IInv, live
<1>2. CASE pc = "shift"
  <2> SUFFICES ASSUME x # y PROVE FALSE
    OBVIOUS
  <2>1. x \in used /\ x # hole /\ y \in used /\ y # hole
    BY <1>2 DEF live
  <2>2. x \in 0 .. mask_ /\ y \in 0 .. mask_ /\ homeOf(x) \in 0 .. mask_ /\ mask_ \in Nat
    BY <2>1, UsedKey DEF IInv, Typed
  <2>3. PICK h \in 0 .. mask_ : h = homeOf(x)
    BY <2>2
  <2>4. h = homeOf(y)
    BY <2>3 DEF homeOf
  <2>5. x \in run(h, y) \/ y \in run(h, x)
    BY <2>2, RunNested
  <2>6. \A z \in used \ {hole} : \A u \in run(homeOf(z), z) :
            u \in used /\ (u # hole => slots[u].key # slots[z].key)
    BY <1>2 DEF IInv, ShiftSound
  <2> QED
    BY <2>1, <2>3, <2>4, <2>5, <2>6
<1> QED
  BY <1>1, <1>2

\* Outside of grow nothing waits.
LEMMA NoneWaiting == ~rehashing => waiting = {}
<1>1. DOMAIN << >> = {}
  OBVIOUS
<1> QED
  BY <1>1 DEF rehashing, NoTable, waiting

\* A key has one entry, wherever it is.
LEMMA StoredOneEach == IInv => oneEach(stored)
<1> SUFFICES ASSUME IInv, NEW e \in stored, NEW f \in stored, e.key = f.key PROVE e = f
  BY DEF oneEach
<1>1. /\ (\E x \in live : e = slots[x]) \/ (\E x \in waiting : e = old[x])
      /\ (\E y \in live : f = slots[y]) \/ (\E y \in waiting : f = old[y])
  BY StoredIs
<1>2. waiting # {} => rehashing
  BY NoneWaiting
<1>3. rehashing => live = used
  BY DEF IInv, CallSound, live
<1> QED
  BY <1>1, <1>2, <1>3, LiveDiffer DEF IInv, GrowSound

\* A probe that has met a free slot is for a key that is nowhere.
LEMMA MissingIsNowhere ==
    ASSUME IInv, missing, ~rehashing
    PROVE  \A e \in stored : e.key # op.k
<1> SUFFICES ASSUME NEW e \in stored, e.key = op.k PROVE FALSE
  OBVIOUS
<1>1. /\ pc = "probe" /\ slots[i].key = empty /\ Typed /\ mask_ \in Nat /\ i \in 0 .. mask_
      /\ probed.key = op.k
  BY ProbedKey DEF missing, IInv, Typed
<1>2. PICK x \in used : e = slots[x]
  BY <1>1, StoredIs, NoneWaiting DEF live
<1>3. x \in 0 .. mask_ /\ homeOf(x) \in 0 .. mask_ /\ x # i
  BY <1>1, <1>2, UsedKey
<1>4. PICK h \in 0 .. mask_ : h = homeOf(x)
  BY <1>3
<1>5. x \in run(h, i) \/ i \in run(h, x)
  BY <1>1, <1>3, RunNested
<1>6. h = home(probed.key, mask_)
  BY <1>1, <1>2, <1>4 DEF homeOf
<1>7. x \notin run(h, i)
  BY <1>1, <1>2, <1>6 DEF IInv, ProbeSound
<1>8. i \notin run(h, x)
  BY <1>1, <1>4, Findable DEF IInv
<1> QED
  BY <1>5, <1>7, <1>8

\* A probe that has met its key has met the entry of the map.
LEMMA FoundIsStored ==
    ASSUME IInv, found, ~rehashing
    PROVE  i \in used /\ slots[i] \in stored /\ slots[i].key = op.k
<1>1. pc = "probe" /\ slots[i].key = op.k /\ op.k # empty
  BY ProbedKey DEF found
<1>2. i \in used /\ live = used
  BY <1>1 DEF used, live, IInv, Typed
<1> QED
  BY <1>1, <1>2, StoredIs

\* The initial table is the empty map.
LEMMA MapInit == Init => Map!Init
<1> SUFFICES ASSUME Init PROVE Map!Init
  OBVIOUS
<1>1. used = {} /\ ~rehashing /\ pc = "idle"
  BY DEF Init, used, EmptySlot, rehashing
<1>2. stored = {}
  BY <1>1, StoredIs, NoneWaiting DEF live
<1>3. as_map(stored) = << >>
  <2>1. as_map({}) = [k \in {} |-> (CHOOSE e \in {} : e.key = k).val]
    BY DEF as_map
  <2>2. [k \in {} |-> (CHOOSE e \in {} : e.key = k).val] = << >>
    OBVIOUS
  <2> QED
    BY <1>2, <2>1, <2>2
<1> QED
  BY <1>1, <1>3 DEF Init, Map!Init, Map!NoCall, Map!NoAnswer, NoCall, NoAnswer, answered

\* A step that leaves the entries and the answer alone is none of the map's.
LEMMA MapStutters ==
    ASSUME stored' = stored, answered' = answered, op' = op
    PROVE  UNCHANGED Map!vars
<1>1. as_map(stored)' = as_map(stored)
  BY DEF as_map
<1> QED
  BY <1>1 DEF Map!vars

\* A call begins; the entries that an insert hands to grow are the same.
LEMMA MapInvoke ==
    ASSUME IInv, IInv', Caller
    PROVE  Map!Invoke
<1>1. pc = "idle" /\ op = NoCall /\ ret = NoAnswer /\ ~rehashing /\ Typed
  BY DEF Caller, find, erase, insert, IInv, CallSound
<1>2. pc' \in {"probe", "grow"} /\ ret' = ret
  BY DEF Caller, find, erase, insert, start_probe, start_grow
<1>3. op' \in Map!Call
  BY <1>2 DEF IInv, CallSound
<1>4. live = used /\ waiting = {} /\ live' = used'
  BY <1>1, <1>2, NoneWaiting DEF live
<1>5. stored = {slots[x] : x \in used}
  BY <1>4, StoredIs
<1>6. stored' = {slots'[x] : x \in used'} \cup {old'[y] : y \in waiting'}
  BY <1>4, StoredIs
<1>7. CASE UNCHANGED <<slots, mask_, old, g>>
  <2>1. used' = used /\ waiting' = waiting
    BY <1>7 DEF used, waiting
  <2> QED
    BY <1>1, <1>2, <1>3, <1>4, <1>5, <1>6, <1>7, <2>1
    DEF Map!Invoke, Map!NoCall, NoCall, as_map, answered
<1>8. CASE start_grow
  <2>1. old' = slots /\ g' = 0 /\ slots' = [x \in 0 .. mask_' |-> EmptySlot]
    BY <1>8 DEF start_grow
  <2>2. used' = {}
    BY <2>1 DEF used, EmptySlot
  <2>3. waiting' = used
    BY <1>1, <2>1 DEF waiting, used, Typed
  <2>4. stored' = stored
    BY <1>5, <1>6, <2>1, <2>2, <2>3
  <2> QED
    BY <1>1, <1>2, <1>3, <2>4 DEF Map!Invoke, Map!NoCall, NoCall, as_map, answered
<1> QED
  BY <1>7, <1>8 DEF Caller, find, erase, insert, table

\* The steps between call and answer that touch no entry.
LEMMA MapSilent ==
    ASSUME IInv, ProbeNext \/ GrowNext \/ GrowEnds
    PROVE  UNCHANGED Map!vars
<1>1. /\ pc \in {"probe", "grow"} /\ pc' \in {"probe", "grow"}
      /\ UNCHANGED <<slots, mask_, op, ret>>
  BY DEF ProbeNext, GrowNext, GrowEnds, start_probe, table
<1>2. live' = live /\ answered' = answered
  BY <1>1 DEF live, used, answered
<1>3. \A y \in waiting' : y \in waiting /\ old'[y] = old[y]
  <2>1. CASE GrowEnds
    <3>1. ~rehashing'
      BY <2>1 DEF GrowEnds, rehashing
    <3>2. waiting' = {}
      <4>1. DOMAIN << >> = {}
        OBVIOUS
      <4> QED
        BY <2>1, <4>1 DEF GrowEnds, NoTable, waiting
    <3> QED
      BY <3>2
  <2>2. CASE ProbeNext
    BY <2>2 DEF ProbeNext, waiting
  <2>3. CASE GrowNext
    <3>1. rehashing /\ old' = old /\ g' \in {g, g + 1} /\ g \in Nat
      BY <2>3 DEF GrowNext, IInv, CallSound, Typed
    <3>2. \A y \in DOMAIN old : y \in Nat
      BY <3>1, SizeAssumption DEF IInv, GrowSound
    <3>3. \A y \in Nat : y >= g + 1 => y >= g
      BY <3>1
    <3> QED
      BY <3>1, <3>2, <3>3 DEF waiting
  <2> QED
    BY <2>1, <2>2, <2>3
<1>4. \A y \in waiting : y \in waiting'
  <2>1. CASE ProbeNext
    BY <2>1 DEF ProbeNext, waiting
  <2>2. CASE GrowNext \/ GrowEnds
    <3>1. rehashing /\ g \in Nat
      BY <2>2 DEF GrowNext, GrowEnds, IInv, CallSound, Typed
    <3>2. PICK s \in InitSlots .. MaxSlots : old \in [0 .. (s - 1) -> Entry]
      BY <3>1 DEF IInv, GrowSound
    <3>3. s \in Nat /\ DOMAIN old = 0 .. (s - 1)
      BY <3>2, SizeAssumption
    <3>4. CASE GrowEnds
      BY <3>1, <3>3, <3>4 DEF GrowEnds, waiting
    <3>5. CASE GrowNext
      <4>1. old' = old /\ (g' = g \/ (g' = g + 1 /\ old[g].key = empty))
        BY <3>5 DEF GrowNext
      <4>2. \A y \in 0 .. (s - 1) : y >= g /\ y # g => y >= g + 1
        BY <3>1, <3>3
      <4> QED
        BY <3>3, <4>1, <4>2 DEF waiting
    <3> QED
      BY <2>2, <3>4, <3>5
  <2> QED
    BY <2>1, <2>2
<1>5. stored' = stored
  <2>1. {old'[y] : y \in waiting'} = {old[y] : y \in waiting}
    BY <1>3, <1>4
  <2> QED
    BY <1>1, <1>2, <2>1, StoredIs
<1> QED
  BY <1>1, <1>2, <1>5, MapStutters

\* The answers that leave the table alone are the map's.
LEMMA MapEnds ==
    ASSUME IInv, FindEnds \/ EraseMissing \/ InsertRefused
    PROVE  Map!Next
<1>1. pc = "probe" /\ ret = NoAnswer
  BY DEF FindEnds, EraseMissing, InsertRefused, found, missing, IInv, CallSound
<1>2. ~rehashing
  <2>1. CASE InsertRefused
    BY <2>1, MovedIsNew DEF InsertRefused
  <2>2. CASE FindEnds \/ EraseMissing
    BY <2>2 DEF FindEnds, EraseMissing, IInv, CallSound
  <2> QED
    BY <2>1, <2>2
<1>3. pc' = "done" /\ UNCHANGED <<slots, mask_, op, old, g>>
  BY <1>2 DEF FindEnds, EraseMissing, InsertRefused, answer, table
<1>4. answered = NoAnswer /\ answered' = ret'
  BY <1>1, <1>3 DEF answered
<1>5. stored' = stored
  <2>1. live' = live /\ waiting' = waiting
    BY <1>1, <1>3 DEF live, used, waiting
  <2> QED
    BY <1>3, <2>1, StoredIs
<1>6. PICK S : S = stored
  OBVIOUS
<1>7. oneEach(S) /\ as_map(stored) = as_map(S) /\ as_map(stored)' = as_map(S)
  BY <1>5, <1>6, StoredOneEach DEF as_map, oneEach
<1>8. found => op.k \in DOMAIN as_map(S) /\ as_map(S)[op.k] = slots[i].val
  <2> SUFFICES ASSUME found PROVE op.k \in DOMAIN as_map(S) /\ as_map(S)[op.k] = slots[i].val
    OBVIOUS
  <2>1. PICK e \in S : e = slots[i] /\ e.key = op.k
    BY <1>2, <1>6, FoundIsStored
  <2> QED
    BY <1>7, <2>1, MapAt
<1>9. missing => op.k \notin DOMAIN as_map(S)
  BY <1>2, <1>6, MissingIsNowhere, MapDomain
<1>10. CASE FindEnds
  <2>1. op.kind = "find" /\ ((found /\ ret' = slots[i].val) \/ (missing /\ ret' = null)) /\ op' = op
    BY <1>10 DEF FindEnds, answer
  <2>2. Map!Find
    BY <1>4, <1>7, <1>8, <1>9, <2>1 DEF Map!Find, Map!Pending, Map!NoAnswer, NoAnswer
  <2> QED
    BY <2>2 DEF Map!Next
<1>11. CASE EraseMissing
  <2>1. op.kind = "erase" /\ missing /\ ret' = "false" /\ op' = op
    BY <1>11 DEF EraseMissing, answer
  <2>2. as_map(S) = [k \in DOMAIN as_map(S) \ {op.k} |-> as_map(S)[k]]
    <3>1. DOMAIN as_map(S) \ {op.k} = DOMAIN as_map(S)
      BY <1>9, <2>1
    <3> QED
      BY <3>1, MapSame
  <2>3. Map!Erase
    BY <1>4, <1>7, <1>9, <2>1, <2>2 DEF Map!Erase, Map!Pending, Map!NoAnswer, NoAnswer
  <2> QED
    BY <2>3 DEF Map!Next
<1>12. CASE InsertRefused
  <2>1. op.kind = "insert" /\ found /\ ret' = "false" /\ op' = op
    BY <1>2, <1>12 DEF InsertRefused, answer
  <2>2. as_map(S) = [k \in DOMAIN as_map(S) \cup {op.k} |->
                        IF k \in DOMAIN as_map(S) THEN as_map(S)[k] ELSE op.v]
    <3>1. DOMAIN as_map(S) \cup {op.k} = DOMAIN as_map(S)
      BY <1>8, <2>1
    <3> QED
      BY <3>1, MapSame
  <2>3. Map!Insert
    BY <1>4, <1>7, <1>8, <2>1, <2>2 DEF Map!Insert, Map!Pending, Map!NoAnswer, NoAnswer
  <2> QED
    BY <2>3 DEF Map!Next
<1> QED
  BY <1>10, <1>11, <1>12

\* A put adds the caller's entry, or moves one of the old table.
LEMMA MapPut ==
    ASSUME IInv, IInv', InsertPut
    PROVE  Map!Next \/ UNCHANGED Map!vars
<1>1. /\ op.kind = "insert" /\ missing /\ slots' = [slots EXCEPT ![i] = probed]
      /\ count_' = count_ + 1 /\ pc' \in {"grow", "done"}
      /\ UNCHANGED <<hash, mask_, op, old>>
  BY DEF InsertPut, answer
<1>2. /\ used' = used \cup {i} /\ i \notin used
      /\ slots'[i] = probed
      /\ \A x \in 0 .. mask_ : x # i => slots'[x] = slots[x]
  BY <1>1, PutTable
<1>3. pc = "probe" /\ ret = NoAnswer /\ live = used /\ live' = used' /\ answered = NoAnswer
  BY <1>1 DEF missing, IInv, CallSound, live, answered
<1>4. {slots'[x] : x \in used'} = {slots[x] : x \in used} \cup {probed}
  <2>1. \A x \in used : x \in 0 .. mask_ /\ x # i
    BY <1>2 DEF used
  <2> QED
    BY <1>2, <2>1
<1>5. CASE rehashing
  <2>1. pc' = "grow" /\ ret' = ret /\ g' = g + 1 /\ g \in Nat
    BY <1>5 DEF InsertPut, IInv, Typed
  <2>2. g \in waiting /\ probed = old[g]
    BY <1>3, <1>5, ProbedKey
  <2>3. PICK s \in InitSlots .. MaxSlots : old \in [0 .. (s - 1) -> Entry]
    BY <1>5 DEF IInv, GrowSound
  <2>4. waiting' = waiting \ {g}
    <3>1. \A y \in 0 .. (s - 1) : y >= g + 1 <=> y >= g /\ y # g
      BY <2>1, SizeAssumption
    <3> QED
      BY <1>1, <2>1, <2>3, <3>1 DEF waiting
  <2>5. {old[y] : y \in waiting} = {old'[y] : y \in waiting'} \cup {probed}
    BY <1>1, <2>2, <2>4
  <2>6. stored' = stored
    BY <1>3, <1>4, <2>5, StoredIs
  <2>7. answered' = answered
    BY <1>3, <2>1 DEF answered
  <2> QED
    BY <1>1, <2>6, <2>7, MapStutters
<1>6. CASE ~rehashing
  <2>1. pc' = "done" /\ ret' = "true" /\ g' = g /\ answered' = "true"
    BY <1>6 DEF InsertPut, answer, answered
  <2>2. waiting' = waiting /\ waiting = {}
    BY <1>1, <1>6, <2>1, NoneWaiting DEF waiting
  <2>3. stored' = stored \cup {probed}
    BY <1>3, <1>4, <2>2, StoredIs
  <2>4. PICK S, e : S = stored /\ e = probed
    OBVIOUS
  <2>5. e.key = op.k /\ e.val = op.v /\ oneEach(S) /\ \A f \in S : f.key # e.key
    BY <1>1, <1>6, <2>4, MissingIsNowhere, StoredOneEach DEF probed
  <2>6. as_map(S \cup {e}) = [k \in DOMAIN as_map(S) \cup {e.key} |->
                                 IF k \in DOMAIN as_map(S) THEN as_map(S)[k] ELSE e.val]
    BY <2>5, MapAdd
  <2>7. op.k \notin DOMAIN as_map(S)
    BY <2>5, MapDomain
  <2>8. as_map(stored) = as_map(S) /\ as_map(stored)' = as_map(S \cup {e})
    BY <2>3, <2>4 DEF as_map
  <2>9. Map!Insert
    BY <1>1, <1>3, <2>1, <2>5, <2>6, <2>7, <2>8
    DEF Map!Insert, Map!Pending, Map!NoAnswer, NoAnswer
  <2> QED
    BY <2>9 DEF Map!Next
<1> QED
  BY <1>5, <1>6

\* Finding the key to erase is the erase.
LEMMA MapErase ==
    ASSUME IInv, EraseFound
    PROVE  Map!Erase
<1>1. /\ op.kind = "erase" /\ found /\ pc = "probe" /\ pc' = "shift" /\ hole' = i
      /\ UNCHANGED <<slots, mask_, op, ret, old, g>> /\ ret = NoAnswer /\ ~rehashing
  BY DEF EraseFound, found, IInv, CallSound, table
<1>2. i \in used /\ slots[i] \in stored /\ slots[i].key = op.k
  BY <1>1, FoundIsStored
<1>3. used' = used /\ waiting' = {} /\ waiting = {} /\ live = used /\ live' = used \ {i}
  BY <1>1, NoneWaiting DEF used, waiting, live
<1>4. stored' = stored \ {slots[i]}
  <2>1. \A x \in used : slots[x] = slots[i] => x = i
    BY <1>2, <1>3, LiveDiffer
  <2> QED
    BY <1>1, <1>3, <2>1, StoredIs
<1>5. PICK S : S = stored
  OBVIOUS
<1>6. PICK e \in S : e = slots[i]
  BY <1>2, <1>5
<1>7. oneEach(S) /\ e.key = op.k
  BY <1>2, <1>5, <1>6, StoredOneEach
<1>8. /\ as_map(S \ {e}) = [k \in DOMAIN as_map(S) \ {e.key} |-> as_map(S)[k]]
      /\ op.k \in DOMAIN as_map(S)
  BY <1>7, MapDrop, MapAt
<1>9. as_map(stored) = as_map(S) /\ as_map(stored)' = as_map(S \ {e})
  BY <1>1, <1>4, <1>5, <1>6 DEF as_map
<1>10. answered = NoAnswer /\ answered' = "true"
  BY <1>1 DEF answered
<1> QED
  BY <1>1, <1>7, <1>8, <1>9, <1>10 DEF Map!Erase, Map!Pending, Map!NoAnswer, NoAnswer

\* Closing the hole moves entries and changes none.
LEMMA MapShift ==
    ASSUME IInv, Shift \/ ShiftEnds
    PROVE  UNCHANGED Map!vars
<1>1. /\ pc = "shift" /\ UNCHANGED <<mask_, op, old, g>> /\ ~rehashing
      /\ hole \in 0 .. mask_ /\ j \in 0 .. mask_ /\ hole # j /\ Typed
  BY DEF Shift, ShiftEnds, IInv, CallSound, ShiftSound, Typed
<1>2. waiting = {} /\ waiting' = {} /\ live = used \ {hole}
  BY <1>1, NoneWaiting DEF waiting, live
<1>3. CASE ShiftEnds
  <2>1. slots' = [slots EXCEPT ![hole] = EmptySlot] /\ pc' = "done" /\ ret' = "true"
    BY <1>3 DEF ShiftEnds, answer
  <2>2. slots'[hole] = EmptySlot /\ \A x \in 0 .. mask_ : x # hole => slots'[x] = slots[x]
    BY <1>1, <2>1 DEF Typed
  <2>3. live' = used \ {hole}
    BY <1>1, <2>1, <2>2 DEF live, used, EmptySlot
  <2>4. stored' = stored
    <3>1. \A x \in used \ {hole} : slots'[x] = slots[x]
      BY <2>2 DEF used
    <3> QED
      BY <1>2, <2>3, <3>1, StoredIs
  <2> QED
    BY <1>1, <2>1, <2>4, MapStutters DEF answered
<1>4. CASE Shift
  <2>1. slots[j].key # empty /\ pc' = "shift" /\ ret' = ret
    BY <1>4 DEF Shift
  <2>2. hole \in used /\ j \in used
    BY <1>1, <2>1, ShiftFacts
  <2>3. stored' = stored
    <3>1. CASE UNCHANGED <<slots, hole>>
      <4>1. live' = live
        BY <1>1, <2>1, <3>1 DEF live, used
      <4> QED
        BY <1>2, <3>1, <4>1, StoredIs
    <3>2. CASE slots' = [slots EXCEPT ![hole] = slots[j]] /\ hole' = j
      <4>1. slots'[hole] = slots[j] /\ \A x \in 0 .. mask_ : x # hole => slots'[x] = slots[x]
        BY <1>1, <3>2 DEF Typed
      <4>2. used' = used
        BY <1>1, <2>1, <2>2, <4>1 DEF used
      <4>3. live' = used \ {j}
        BY <2>1, <3>2, <4>2 DEF live
      <4>4. \A x \in used : x \in 0 .. mask_
        BY DEF used
      <4>5. {slots'[x] : x \in used \ {j}} = {slots[x] : x \in used \ {hole}}
        <5>1. ASSUME NEW x \in used \ {j} PROVE \E y \in used \ {hole} : slots'[x] = slots[y]
          BY <1>1, <2>2, <4>1, <4>4
        <5>2. ASSUME NEW y \in used \ {hole} PROVE \E x \in used \ {j} : slots'[x] = slots[y]
          BY <1>1, <2>2, <4>1, <4>4
        <5> QED
          BY <5>1, <5>2
      <4> QED
        BY <1>2, <4>3, <4>5, StoredIs
    <3> QED
      BY <1>4, <3>1, <3>2 DEF Shift, shifted
  <2> QED
    BY <1>1, <2>1, <2>3, MapStutters DEF answered
<1> QED
  BY <1>3, <1>4

\* The caller takes the answer.
LEMMA MapReturn ==
    ASSUME IInv, Returned
    PROVE  Map!Return
<1>1. /\ pc = "done" /\ pc' = "idle" /\ op' = NoCall /\ ret' = NoAnswer /\ ret # NoAnswer
      /\ UNCHANGED <<slots, mask_, old, g>>
  BY DEF Returned, IInv, CallSound, table, frame
<1>2. live' = live /\ waiting' = waiting
  BY <1>1 DEF live, used, waiting
<1>3. stored' = stored
  BY <1>1, <1>2, StoredIs
<1>4. as_map(stored)' = as_map(stored)
  BY <1>3 DEF as_map
<1> QED
  BY <1>1, <1>4 DEF Map!Return, Map!NoCall, Map!NoAnswer, NoCall, NoAnswer, answered

\* Every step of the table is a step of the map or none.
LEMMA MapStep == IInv /\ IInv' /\ [Next]_vars => [Map!Next]_(Map!vars)
<1> SUFFICES ASSUME IInv, IInv', [Next]_vars PROVE Map!Next \/ UNCHANGED Map!vars
  OBVIOUS
<1>1. CASE Caller
  BY <1>1, MapInvoke DEF Map!Next
<1>2. CASE Step
  BY <1>2, MapSilent, MapEnds, MapPut, MapErase, MapShift, MapReturn DEF Step, Map!Next
<1>3. CASE UNCHANGED vars
  <2>1. stored' = stored /\ answered' = answered /\ op' = op
    BY <1>3 DEF vars, table, frame, stored, entries, answered
  <2> QED
    BY <2>1, MapStutters
<1> QED
  BY <1>1, <1>2, <1>3 DEF Next

\* The open-addressing table is a map, whatever the hash function and however
\* often it shifts and grows: each insert, erase and find takes effect at one
\* moment, and no entry is lost, revived, duplicated or mixed up in between.
THEOREM IdMapRefinesMap == Spec => ImplementsMap
  BY MapInit, MapStep, IdMapInvariance, PTL DEF Spec, ImplementsMap, Map!Spec
=============================================================================
