-------------------------------- MODULE Pool --------------------------------
(***************************************************************************)
(* The slab pool of include/lob/pool.hpp, from which OrderBook takes the   *)
(* storage of its orders.  A slot is named by its number in the order in   *)
(* which the slabs hand them out, so a slab is a range of numbers, cursor_ *)
(* is the number of the next slot never used and slab_end_ the one past    *)
(* the last slab.  A free slot's first word is the free-list link; the     *)
(* first word of a live slot belongs to the object.                        *)
(***************************************************************************)
EXTENDS Integers, FiniteSets

CONSTANTS
    initial_capacity,
    MaxSlot,    \* bound: no slab is added that would reach beyond this slot
    null,       \* nullptr
    object      \* whatever an object keeps in its first word

ASSUME CapacityAssumption == initial_capacity \in Nat \ {0}
ASSUME MaxSlotAssumption == MaxSlot \in Nat /\ initial_capacity <= MaxSlot
ASSUME NullAssumption == null \notin Nat /\ object \notin Nat /\ null # object

Slot == 1 .. MaxSlot
Link == Slot \cup {null}

VARIABLES
    word,            \* the first word of every slot
    free_,           \* the head of the free list
    cursor_, slab_end_, last_slab_elems_, capacity_,
    slabs,           \* slabs_.size()
    live,            \* history: the slots handed out and not yet destroyed
    objects,         \* history: creates so far less destroys so far
    below            \* history: for each slot on the free list, those under it

list == <<word, free_>>
slab == <<cursor_, slab_end_, last_slab_elems_, capacity_, slabs>>
history == <<live, objects, below>>
vars == <<list, slab, history>>

\* add_slab zeroes the slab.
Init ==
    /\ word = [a \in Slot |-> null]
    /\ free_ = null
    /\ cursor_ = 1 /\ slab_end_ = initial_capacity + 1
    /\ last_slab_elems_ = initial_capacity /\ capacity_ = initial_capacity
    /\ slabs = 1
    /\ live = {} /\ objects = 0
    /\ below = [a \in Slot |-> {}]

\* The caller gets slot a and constructs its object there.
hand_out(a) ==
    /\ word' = [word EXCEPT ![a] = object]
    /\ live' = live \cup {a} /\ objects' = objects + 1
    /\ below' = [below EXCEPT ![a] = {}]

\* Mutant: the free list is popped without following the link.
Bug_pop_keeps_head == free_
pop == word[free_]

\* create, from the free list
create_recycled ==
    /\ free_ # null
    /\ free_' = pop
    /\ hand_out(free_)
    /\ UNCHANGED slab

bump == cursor_ + 1

\* create, from the current slab
create_fresh ==
    /\ free_ = null /\ cursor_ # slab_end_
    /\ cursor_' = bump
    /\ hand_out(cursor_)
    /\ UNCHANGED <<free_, slab_end_, last_slab_elems_, capacity_, slabs>>

\* create, from a new slab twice the size of the last: add_slab, then the cursor
create_grown ==
    LET elems == last_slab_elems_ * 2
    IN  /\ free_ = null /\ cursor_ = slab_end_
        /\ slab_end_ + elems <= MaxSlot + 1
        /\ slab_end_' = slab_end_ + elems
        /\ last_slab_elems_' = elems
        /\ capacity_' = capacity_ + elems
        /\ slabs' = slabs + 1
        /\ cursor_' = bump
        /\ hand_out(cursor_)
        /\ UNCHANGED free_

\* what destroy writes into the slot
link == free_

\* The caller owns p: Next says so.
destroy(p) ==
    /\ word' = [word EXCEPT ![p] = link]
    /\ free_' = p
    /\ live' = live \ {p} /\ objects' = objects - 1
    /\ below' = [below EXCEPT ![p] = (1 .. (cursor_ - 1)) \ live]
    /\ UNCHANGED slab

Next == create_recycled \/ create_fresh \/ create_grown \/ \E p \in live : destroy(p)

Spec == Init /\ [][Next]_vars

-----------------------------------------------------------------------------
\* Slots are where the pool may put an object, links lead to slots.
TypeOK ==
    /\ word \in [Slot -> Link \cup {object}]
    /\ free_ \in Link
    /\ cursor_ \in 1 .. (MaxSlot + 1) /\ slab_end_ \in 1 .. (MaxSlot + 1) /\ cursor_ <= slab_end_
    /\ last_slab_elems_ \in Nat \ {0} /\ capacity_ = slab_end_ - 1 /\ slabs \in Nat \ {0}
    /\ live \subseteq 1 .. (cursor_ - 1) /\ objects \in Int
    /\ below \in [Slot -> SUBSET Slot]

\* The slots used before and not in use now.
idle == (1 .. (cursor_ - 1)) \ live

\* The links, followed from free_, visit every idle slot once and no other:
\* the list has no cycle, loses no slot and never runs into a live object.
FreeListExact ==
    /\ IF free_ = null THEN idle = {}
       ELSE free_ \in idle /\ below[free_] = idle \ {free_}
    /\ \A a \in idle :
          IF word[a] = null THEN below[a] = {}
          ELSE /\ word[a] \in idle /\ word[a] # a
               /\ a \notin below[a]
               /\ below[a] = below[word[a]] \cup {word[a]}

\* Two live orders never share storage: there are as many slots in use as
\* there are objects, so create never returned one that somebody held.
NoAliasing == Cardinality(live) = objects

\* Growth is the last resort: a slab is added only when every slot of the
\* pool is in use, so a pool sized for the session never grows.
GrowsOnlyWhenFull == [][slabs' # slabs => live = 1 .. capacity_]_vars
=============================================================================
