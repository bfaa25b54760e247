------------------------------- MODULE IdMap -------------------------------
(***************************************************************************)
(* The open-addressing id map of include/lob/id_map.hpp, slot by slot: one *)
(* action per slot that a probe, the backward shift of erase or the rehash *)
(* of grow looks at.  The hash is any function to the top bits of a 64-bit *)
(* word, of which home keeps as many as the table has.                     *)
(***************************************************************************)
EXTENDS Integers, FiniteSets

CONSTANTS
    Key,         \* the ids in use, all different from 0
    empty,       \* key 0: the slot is free
    Val, null,   \* the values, and nullptr
    InitSlots,   \* slot count after construction: a power of two, at least 16
    MaxSlots,    \* bound: no growth beyond this many slots
    Hashes       \* the hash functions tried: bits of k * 2^64/phi

ASSUME KeyAssumption == empty \notin Key /\ null \notin Val
\* Values are pointers: none of them is the answer of an insert or an erase,
\* or the absence of one.
ASSUME ValAssumption == \A v \in Val \cup {null} : v \notin {"none", "true", "false"}
\* MaxSlots is a power of two too.  What the table needs of that: a slot count
\* that divides it can be doubled until it is reached.
ASSUME SizeAssumption ==
    /\ InitSlots \in Nat /\ MaxSlots \in Nat /\ 2 <= InitSlots /\ InitSlots <= MaxSlots
    /\ MaxSlots % InitSlots = 0
    /\ \A m \in InitSlots .. MaxSlots :
          MaxSlots % m = 0 /\ m * 2 <= MaxSlots => MaxSlots % (m * 2) = 0
ASSUME HashAssumption == Hashes \subseteq [Key -> 0 .. (MaxSlots - 1)]

VARIABLES
    hash,
    slots, mask_, count_, grows_,
    pc,      \* idle, grow, probe, shift, done
    op,      \* the call
    ret,     \* what it returns
    i,       \* the slot a probe stands at
    hole, j, \* erase: the hole, and the slot being looked at
    old, g   \* grow: the old table, and the index of the slot being rehashed

table == <<slots, mask_, count_, grows_>>
frame == <<i, hole, j, old, g>>
vars == <<hash, table, pc, op, ret, frame>>

Entry == [key : Key \cup {empty}, val : Val \cup {null}]
EmptySlot == [key |-> empty, val |-> null]
NoCall == [kind |-> "none", k |-> null, v |-> null]
NoAnswer == "none"

slot_count == mask_ + 1
NoTable == << >>
rehashing == old # NoTable

\* The top log2(slot_count) bits of the hash.
home(k, m) == hash[k] \div (MaxSlots \div (m + 1))

\* Mutant: the range never wraps.
Bug_no_wrap(ideal, x, y) == ideal <= x /\ x < y
\* Is x in the cyclic half-open range [ideal, y)?
in_cyclic_range(ideal, x, y) ==
    IF ideal <= y THEN ideal <= x /\ x < y ELSE ideal <= x \/ x < y

next_slot(x) == (x + 1) % slot_count

must_grow == (count_ + 1) * 2 > slot_count

Init ==
    /\ hash \in Hashes
    /\ slots = [x \in 0 .. (InitSlots - 1) |-> EmptySlot] /\ mask_ = InitSlots - 1
    /\ count_ = 0 /\ grows_ = 0
    /\ pc = "idle" /\ op = NoCall /\ ret = NoAnswer
    /\ i = 0 /\ hole = 0 /\ j = 0 /\ old = NoTable /\ g = 0

-----------------------------------------------------------------------------
(* The calls *)

start_probe(k, m) == pc' = "probe" /\ i' = home(k, m)

find(k) ==
    /\ pc = "idle"
    /\ op' = [kind |-> "find", k |-> k, v |-> null]
    /\ start_probe(k, mask_)
    /\ UNCHANGED <<hash, table, ret, hole, j, old, g>>

erase(k) ==
    /\ pc = "idle"
    /\ op' = [kind |-> "erase", k |-> k, v |-> null]
    /\ start_probe(k, mask_)
    /\ UNCHANGED <<hash, table, ret, hole, j, old, g>>

\* grow: the table is moved out and replaced by an empty one of twice the size.
start_grow ==
    /\ slot_count * 2 <= MaxSlots
    /\ old' = slots /\ g' = 0
    /\ mask_' = slot_count * 2 - 1
    /\ slots' = [x \in 0 .. mask_' |-> EmptySlot]
    /\ count_' = 0 /\ grows_' = grows_ + 1
    /\ pc' = "grow"
    /\ UNCHANGED i

insert(k, v) ==
    /\ pc = "idle"
    /\ op' = [kind |-> "insert", k |-> k, v |-> v]
    /\ IF must_grow THEN start_grow
       ELSE start_probe(k, mask_) /\ UNCHANGED <<table, old, g>>
    /\ UNCHANGED <<hash, ret, hole, j>>

-----------------------------------------------------------------------------
(* The loops *)

answer(r) == pc' = "done" /\ ret' = r /\ i' = 0

\* The entry the probe is for: an old one while grow rehashes.
probed == IF rehashing THEN old[g] ELSE [key |-> op.k, val |-> op.v]

ProbeNext ==
    /\ pc = "probe" /\ slots[i].key \notin {probed.key, empty}
    /\ i' = next_slot(i)
    /\ UNCHANGED <<hash, table, pc, op, ret, hole, j, old, g>>

found == pc = "probe" /\ slots[i].key = probed.key
missing == pc = "probe" /\ slots[i].key = empty

FindEnds ==
    /\ op.kind = "find"
    /\ \/ found /\ answer(slots[i].val)
       \/ missing /\ answer(null)
    /\ UNCHANGED <<hash, table, op, hole, j, old, g>>

\* The key is present: insert returns false.
InsertRefused ==
    /\ op.kind = "insert" /\ found
    /\ IF rehashing THEN pc' = "grow" /\ g' = g + 1 /\ i' = 0 /\ UNCHANGED ret
       ELSE answer("false") /\ UNCHANGED g
    /\ UNCHANGED <<hash, table, op, hole, j, old>>

InsertPut ==
    /\ op.kind = "insert" /\ missing
    /\ slots' = [slots EXCEPT ![i] = probed]
    /\ count_' = count_ + 1
    /\ IF rehashing THEN pc' = "grow" /\ g' = g + 1 /\ i' = 0 /\ UNCHANGED ret
       ELSE answer("true") /\ UNCHANGED g
    /\ UNCHANGED <<hash, mask_, grows_, op, hole, j, old>>

\* grow's loop reaches a slot of the old table: rehash it if it is in use.
GrowNext ==
    /\ pc = "grow" /\ g \in DOMAIN old
    /\ IF old[g].key # empty THEN start_probe(old[g].key, mask_) /\ UNCHANGED g
       ELSE g' = g + 1 /\ UNCHANGED <<pc, i>>
    /\ UNCHANGED <<hash, table, op, ret, hole, j, old>>

\* grow is done; the insert that called it probes the new table.
GrowEnds ==
    /\ pc = "grow" /\ g \notin DOMAIN old
    /\ old' = NoTable /\ g' = 0
    /\ start_probe(op.k, mask_)
    /\ UNCHANGED <<hash, table, op, ret, hole, j>>

EraseMissing ==
    /\ op.kind = "erase" /\ missing
    /\ answer("false")
    /\ UNCHANGED <<hash, table, op, hole, j, old, g>>

EraseFound ==
    /\ op.kind = "erase" /\ found
    /\ pc' = "shift" /\ hole' = i /\ j' = next_slot(i) /\ i' = 0
    /\ UNCHANGED <<hash, table, op, ret, old, g>>

\* Mutant: the entry's value stays behind.
Bug_shift_key_only == [key |-> slots[j].key, val |-> slots[hole].val]
shifted == slots[j]

\* Mutant: the search restarts at the hole.
Bug_shift_restarts == next_slot(hole)
shift_next == next_slot(j)

\* The entry at j moves into the hole unless its home lies behind the hole.
Shift ==
    /\ pc = "shift" /\ slots[j].key # empty
    /\ IF in_cyclic_range(home(slots[j].key, mask_), hole, j)
       THEN slots' = [slots EXCEPT ![hole] = shifted] /\ hole' = j
       ELSE UNCHANGED <<slots, hole>>
    /\ j' = shift_next
    /\ UNCHANGED <<hash, mask_, count_, grows_, pc, op, ret, i, old, g>>

\* The end of the run: the hole is freed.  The code resets only the key; the
\* value left there is out of reach, since a value is read under its key only
\* and written together with it.
ShiftEnds ==
    /\ pc = "shift" /\ slots[j].key = empty
    /\ slots' = [slots EXCEPT ![hole] = EmptySlot]
    /\ count_' = count_ - 1
    /\ hole' = 0 /\ j' = 0
    /\ answer("true")
    /\ UNCHANGED <<hash, mask_, grows_, op, old, g>>

Returned ==
    /\ pc = "done"
    /\ pc' = "idle" /\ op' = NoCall /\ ret' = NoAnswer
    /\ UNCHANGED <<hash, table, frame>>

Step ==
    \/ ProbeNext \/ FindEnds \/ InsertRefused \/ InsertPut \/ GrowNext \/ GrowEnds
    \/ EraseMissing \/ EraseFound \/ Shift \/ ShiftEnds \/ Returned

Caller == \E k \in Key : find(k) \/ erase(k) \/ \E v \in Val : insert(k, v)

Next == Step \/ Caller

Spec == Init /\ [][Next]_vars
\* The map is called from one thread, which runs every call to its end.
FairSpec == Spec /\ WF_vars(Step)

-----------------------------------------------------------------------------
\* Slots, indices and locals have their types: no index leaves the table.
TypeOK ==
    /\ slots \in [0 .. mask_ -> Entry] /\ mask_ + 1 \in InitSlots .. MaxSlots
    /\ count_ \in Nat /\ grows_ \in Nat
    /\ pc \in {"idle", "grow", "probe", "shift", "done"}
    /\ i \in 0 .. mask_ /\ hole \in 0 .. mask_ /\ j \in 0 .. mask_

\* The slots from x to y, cyclically, without y.
run(x, y) == IF x <= y THEN x .. (y - 1) ELSE (x .. mask_) \cup (0 .. (y - 1))

\* The probe sequence of every stored key reaches it before an empty slot and
\* before another copy: the backward shift, across the end of the array too,
\* leaves no key stranded behind the hole it fills and none in two places.
EveryKeyFindable ==
    pc # "shift" =>
        \A x \in 0 .. mask_ :
            slots[x].key # empty =>
                \A y \in run(home(slots[x].key, mask_), x) :
                    slots[y].key \notin {empty, slots[x].key}

\* The load factor is at most 0.5 ("keeps load <= 0.5"), and the count is the
\* number of keys; the insert that grow makes for each old entry never has
\* to grow the table in its turn.
LoadAtMostHalf ==
    /\ count_ * 2 <= slot_count
    /\ rehashing => ~must_grow
    /\ pc # "shift" => count_ = Cardinality({x \in 0 .. mask_ : slots[x].key # empty})

\* The table is as open addressing needs it: no index leaves it, every key is
\* findable, and half of the slots are free so that a probe for a missing key
\* meets an empty one.
TableSound == TypeOK /\ EveryKeyFindable /\ LoadAtMostHalf

\* The entries of the map: the table without the hole being closed, and what
\* grow has still to move.
entries ==
    {slots[x] : x \in {y \in 0 .. mask_ : ~(pc = "shift" /\ y = hole)}}
        \cup {old[x] : x \in {y \in DOMAIN old : y >= g}}
stored == {e \in entries : e.key # empty}

as_map(S) == [k \in {e.key : e \in S} |-> (CHOOSE e \in S : e.key = k).val]
\* An erase is decided when it has found its key.
answered == IF pc = "shift" THEN "true" ELSE ret

Map == INSTANCE AbstractMap WITH map <- as_map(stored), ret <- answered

\* The table behaves as a map at every moment, shifting and rehashing
\* included: no entry is lost, revived, duplicated or given another's value.
ImplementsMap == Map!Spec

\* Every call returns: probes, shifts and rehashes always come to an end.
EveryCallReturns == pc # "idle" ~> pc = "idle"

\* insert "returns false (and changes nothing) if the key is already
\* present": the comment above insert.
RefusedInsertStep ==
    pc = "idle" /\ op'.kind = "insert" /\ op'.k \in {slots[x].key : x \in 0 .. mask_}
        => UNCHANGED table
RefusedInsertChangesNothing == [][RefusedInsertStep]_vars
=============================================================================
