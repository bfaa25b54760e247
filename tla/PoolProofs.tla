----------------------------- MODULE PoolProofs -----------------------------
(***************************************************************************)
(* The pool never hands out a slot that is in use and never loses one, for *)
(* every initial capacity.  FreeListExact is not inductive by itself: when *)
(* the head is popped, nothing in it says that no other slot links to that *)
(* head.  The ghost `below' being nested along the list says so.           *)
(*                                                                         *)
(* The second part is about the engines that keep their orders in it, v2   *)
(* to v4: they implement the pool's specification, which is the contract   *)
(* of a caller, and no pointer they follow leads to a slot given back.     *)
(***************************************************************************)
EXTENDS PooledBook, TLAPS, FiniteSetTheorems, WellFoundedInduction

\* What is under a slot of the free list is on the free list, and what is
\* under that is under the slot too.
BelowNested ==
    /\ \A a \in idle : below[a] \subseteq idle \ {a}
    /\ \A a, b \in idle : b \in below[a] => below[b] \subseteq below[a]

IInv == TypeOK /\ FreeListExact /\ BelowNested /\ NoAliasing

\* The slots the pool has ever handed out are slots.
LEMMA IdleSlots == ASSUME TypeOK PROVE idle \subseteq Slot /\ live \subseteq Slot /\ idle \cap live = {}
  BY MaxSlotAssumption DEF TypeOK, idle, Slot

\* A set of slots is finite; adding a new one makes it larger by one.
LEMMA LiveCard ==
    ASSUME TypeOK
    PROVE  /\ IsFiniteSet(live) /\ Cardinality(live) \in Nat
           /\ \A a : a \notin live => Cardinality(live \cup {a}) = Cardinality(live) + 1
           /\ \A a \in live : Cardinality(live \ {a}) = Cardinality(live) - 1
<1>1. IsFiniteSet(1 .. (cursor_ - 1))
  BY FS_Interval DEF TypeOK
<1>2. IsFiniteSet(live)
  BY <1>1, FS_Subset DEF TypeOK
<1> QED
  BY <1>2, FS_CardinalityType, FS_AddElement, FS_RemoveElement

\* The first slab is unused and the free list is empty.
LEMMA InitIInv == Init => IInv
<1> SUFFICES ASSUME Init PROVE IInv
  OBVIOUS
<1>1. TypeOK
  BY CapacityAssumption, MaxSlotAssumption, NullAssumption DEF Init, TypeOK, Slot, Link
<1>2. idle = {}
  BY DEF Init, idle
<1>3. NoAliasing
  BY FS_EmptySet DEF Init, NoAliasing
<1> QED
  BY <1>1, <1>2, <1>3 DEF Init, IInv, FreeListExact, BelowNested

\* create pops the head: the rest of the list was under it, and nothing
\* links to it.
LEMMA Step_create_recycled == IInv /\ create_recycled => IInv'
<1> SUFFICES ASSUME IInv, create_recycled PROVE IInv'
  OBVIOUS
<1> DEFINE f == free_
<1>1. /\ f # null /\ free_' = word[f] /\ word' = [word EXCEPT ![f] = object]
      /\ live' = live \cup {f} /\ objects' = objects + 1 /\ below' = [below EXCEPT ![f] = {}]
      /\ UNCHANGED <<cursor_, slab_end_, last_slab_elems_, capacity_, slabs>>
  BY DEF create_recycled, hand_out, pop, slab
<1>2. f \in idle /\ f \in Slot /\ below[f] = idle \ {f}
  BY <1>1, IdleSlots DEF IInv, FreeListExact
<1>3. idle' = idle \ {f}
  BY <1>1, <1>2 DEF idle
<1>4. \A a \in idle \ {f} : word'[a] = word[a] /\ below'[a] = below[a]
  BY <1>1, IdleSlots DEF IInv, TypeOK
<1>5. \A a \in idle \ {f} : word[a] # f /\ f \notin below[a]
  <2> SUFFICES ASSUME NEW a \in idle \ {f} PROVE word[a] # f /\ f \notin below[a]
    OBVIOUS
  <2>1. f \notin below[a]
    BY <1>2 DEF IInv, BelowNested
  <2>2. word[a] = f => f \in below[a]
    BY <1>1 DEF IInv, FreeListExact
  <2> QED
    BY <2>1, <2>2
<1>6. TypeOK'
  <2>1. word[f] \in Link
    BY <1>2, IdleSlots DEF IInv, FreeListExact, Link
  <2>2. live' \subseteq 1 .. (cursor_' - 1)
    BY <1>1, <1>2 DEF IInv, TypeOK, idle
  <2>3. word' \in [Slot -> Link \cup {object}] /\ below' \in [Slot -> SUBSET Slot]
    BY <1>1, <1>2 DEF IInv, TypeOK
  <2> QED
    BY <1>1, <2>1, <2>2, <2>3 DEF IInv, TypeOK
<1>7. FreeListExact'
  <2>1. IF word[f] = null THEN idle \ {f} = {}
        ELSE word[f] \in idle \ {f} /\ below[word[f]] = (idle \ {f}) \ {word[f]}
    BY <1>2 DEF IInv, FreeListExact, BelowNested
  <2>2. IF free_' = null THEN idle' = {}
        ELSE free_' \in idle' /\ below'[free_'] = idle' \ {free_'}
    BY <1>1, <1>3, <1>4, <2>1
  <2>3. \A a \in idle \ {f} :
          IF word[a] = null THEN below[a] = {}
          ELSE /\ word[a] \in idle \ {f} /\ word[a] # a
               /\ a \notin below[a]
               /\ below[a] = below[word[a]] \cup {word[a]}
    BY <1>5 DEF IInv, FreeListExact
  <2>4. \A a \in idle' :
          IF word'[a] = null THEN below'[a] = {}
          ELSE /\ word'[a] \in idle' /\ word'[a] # a
               /\ a \notin below'[a]
               /\ below'[a] = below'[word'[a]] \cup {word'[a]}
    BY <1>3, <1>4, <2>3
  <2> QED
    BY <2>2, <2>4 DEF FreeListExact
<1>8. BelowNested'
  BY <1>3, <1>4, <1>5 DEF IInv, BelowNested
<1>9. NoAliasing'
  BY <1>1, <1>2, IdleSlots, LiveCard DEF IInv, NoAliasing
<1> QED
  BY <1>6, <1>7, <1>8, <1>9 DEF IInv

\* create takes the slot at the cursor: it was never used, and the free list
\* is as it was.
LEMMA FromCursor ==
    ASSUME IInv, cursor_ \in Slot, cursor_' = cursor_ + 1, free_' = free_, hand_out(cursor_)
    PROVE  /\ FreeListExact' /\ BelowNested' /\ NoAliasing'
           /\ word' \in [Slot -> Link \cup {object}] /\ below' \in [Slot -> SUBSET Slot]
           /\ live' \subseteq 1 .. (cursor_' - 1) /\ objects' \in Int
<1>1. /\ word' = [word EXCEPT ![cursor_] = object]
      /\ live' = live \cup {cursor_} /\ objects' = objects + 1 /\ below' = [below EXCEPT ![cursor_] = {}]
  BY DEF hand_out
<1>2. cursor_ \notin idle /\ cursor_ \notin live
  BY DEF IInv, TypeOK, idle
<1>3. live' \subseteq 1 .. (cursor_' - 1) /\ objects' \in Int
  BY <1>1 DEF IInv, TypeOK, Slot
<1>4. idle' = idle
  BY <1>1, <1>2 DEF IInv, TypeOK, idle, Slot
<1>5. \A a \in idle : word'[a] = word[a] /\ below'[a] = below[a]
  BY <1>1, <1>2, IdleSlots DEF IInv, TypeOK
<1>6. word' \in [Slot -> Link \cup {object}] /\ below' \in [Slot -> SUBSET Slot]
  BY <1>1 DEF IInv, TypeOK
<1>7. FreeListExact'
  BY <1>4, <1>5 DEF IInv, FreeListExact
<1>8. BelowNested'
  BY <1>4, <1>5 DEF IInv, BelowNested
<1>9. NoAliasing'
  BY <1>1, <1>2, LiveCard DEF IInv, NoAliasing
<1> QED
  BY <1>3, <1>6, <1>7, <1>8, <1>9

\* create within the slab preserves the invariant.
LEMMA Step_create_fresh == IInv /\ create_fresh => IInv'
<1> SUFFICES ASSUME IInv, create_fresh PROVE IInv'
  OBVIOUS
<1>1. /\ cursor_ # slab_end_ /\ cursor_' = cursor_ + 1 /\ hand_out(cursor_)
      /\ UNCHANGED <<free_, slab_end_, last_slab_elems_, capacity_, slabs>>
  BY DEF create_fresh, bump
<1>2. cursor_ \in Slot /\ cursor_' \in 1 .. (MaxSlot + 1) /\ cursor_' <= slab_end_
  BY <1>1, MaxSlotAssumption DEF IInv, TypeOK, Slot
<1> QED
  BY <1>1, <1>2, FromCursor DEF IInv, TypeOK

\* create with a new slab preserves the invariant.
LEMMA Step_create_grown == IInv /\ create_grown => IInv'
<1> SUFFICES ASSUME IInv, create_grown PROVE IInv'
  OBVIOUS
<1> DEFINE e == last_slab_elems_ * 2
<1>1. /\ cursor_ = slab_end_ /\ slab_end_ + e <= MaxSlot + 1
      /\ slab_end_' = slab_end_ + e /\ last_slab_elems_' = e /\ capacity_' = capacity_ + e
      /\ slabs' = slabs + 1 /\ cursor_' = cursor_ + 1 /\ hand_out(cursor_) /\ free_' = free_
  BY DEF create_grown, bump
<1>2. e \in Nat \ {0}
  BY DEF IInv, TypeOK
<1>3. cursor_ \in Slot /\ cursor_' \in 1 .. (MaxSlot + 1) /\ slab_end_' \in 1 .. (MaxSlot + 1)
        /\ cursor_' <= slab_end_' /\ capacity_' = slab_end_' - 1 /\ slabs' \in Nat \ {0}
  BY <1>1, <1>2, MaxSlotAssumption DEF IInv, TypeOK, Slot
<1> QED
  BY <1>1, <1>2, <1>3, FromCursor DEF IInv, TypeOK

\* destroy pushes the slot: all of the old list is under it.
LEMMA Step_destroy == ASSUME IInv, NEW p \in live, destroy(p) PROVE IInv'
<1>1. /\ word' = [word EXCEPT ![p] = free_] /\ free_' = p
      /\ live' = live \ {p} /\ objects' = objects - 1
      /\ below' = [below EXCEPT ![p] = idle]
      /\ UNCHANGED <<cursor_, slab_end_, last_slab_elems_, capacity_, slabs>>
  BY DEF destroy, link, slab, idle
<1>2. p \in Slot /\ p \notin idle /\ idle \subseteq Slot /\ p # null
  BY IdleSlots, NullAssumption DEF IInv, Slot
<1>3. idle' = idle \cup {p}
  BY <1>1 DEF IInv, TypeOK, idle
<1>4. /\ \A a \in idle : word'[a] = word[a] /\ below'[a] = below[a]
      /\ word'[p] = free_ /\ below'[p] = idle
  BY <1>1, <1>2 DEF IInv, TypeOK
<1>5. TypeOK'
  <2>1. word' \in [Slot -> Link \cup {object}] /\ below' \in [Slot -> SUBSET Slot]
    BY <1>1, <1>2 DEF IInv, TypeOK
  <2>2. free_' \in Link
    BY <1>1, <1>2 DEF Link
  <2>3. live' \subseteq 1 .. (cursor_' - 1) /\ objects' \in Int
    BY <1>1 DEF IInv, TypeOK
  <2> QED
    BY <1>1, <2>1, <2>2, <2>3 DEF IInv, TypeOK
<1>6. FreeListExact'
  <2>1. IF free_ = null THEN idle = {} ELSE free_ \in idle /\ below[free_] = idle \ {free_}
    BY DEF IInv, FreeListExact
  <2>2. IF word'[p] = null THEN below'[p] = {}
        ELSE /\ word'[p] \in idle' /\ word'[p] # p /\ p \notin below'[p]
             /\ below'[p] = below'[word'[p]] \cup {word'[p]}
    BY <1>2, <1>3, <1>4, <2>1
  <2>3. \A a \in idle :
          IF word'[a] = null THEN below'[a] = {}
          ELSE /\ word'[a] \in idle /\ word'[a] # a
               /\ a \notin below'[a]
               /\ below'[a] = below'[word'[a]] \cup {word'[a]}
    BY <1>4 DEF IInv, FreeListExact
  <2> QED
    BY <1>1, <1>2, <1>3, <1>4, <2>2, <2>3 DEF FreeListExact
<1>7. BelowNested'
  BY <1>2, <1>3, <1>4 DEF IInv, BelowNested
<1>8. NoAliasing'
  BY <1>1, LiveCard DEF IInv, NoAliasing
<1> QED
  BY <1>5, <1>6, <1>7, <1>8 DEF IInv

\* Every step of the pool preserves the invariant.
LEMMA Inductive == IInv /\ [Next]_vars => IInv'
<1> SUFFICES ASSUME IInv, [Next]_vars PROVE IInv'
  OBVIOUS
<1>1. CASE UNCHANGED vars
  BY <1>1 DEF vars, list, slab, history, IInv, TypeOK, FreeListExact, BelowNested, NoAliasing, idle
<1> QED
  BY <1>1, Step_create_recycled, Step_create_fresh, Step_create_grown, Step_destroy DEF Next

\* ... so it holds always.
LEMMA Invariance == Spec => []IInv
  BY InitIInv, Inductive, PTL DEF Spec

\* The free list is exactly the idle slots, once each, for every capacity.
THEOREM FreeListCorrect == Spec => []FreeListExact
<1>1. IInv => FreeListExact
  BY DEF IInv
<1> QED
  BY <1>1, Invariance, PTL

\* create never returns the storage of an object that is still in use.
THEOREM NoSharedStorage == Spec => []NoAliasing
<1>1. IInv => NoAliasing
  BY DEF IInv
<1> QED
  BY <1>1, Invariance, PTL

\* A slab is added only when every slot of the pool holds an object.
THEOREM GrowthIsLastResort == Spec => GrowsOnlyWhenFull
<1>1. IInv /\ [Next]_vars => [slabs' # slabs => live = 1 .. capacity_]_vars
  <2> SUFFICES ASSUME IInv, [Next]_vars, slabs' # slabs PROVE live = 1 .. capacity_
    OBVIOUS
  <2>1. create_grown
    BY DEF Next, create_recycled, create_fresh, destroy, vars, slab
  <2>2. idle = {} /\ cursor_ - 1 = capacity_
    BY <2>1 DEF create_grown, IInv, FreeListExact, TypeOK
  <2> QED
    BY <2>2 DEF idle, IInv, TypeOK
<1> QED
  BY <1>1, Invariance, PTL DEF Spec, GrowsOnlyWhenFull
-----------------------------------------------------------------------------
(* The pool under engines v2 to v4 *)

OrderRec == [prev : Link, next : Link, id : OrderId \cup {nil}, price : Int, qty : Int,
             side : Side, owner : Owner]
LevelRec == [head : Link, tail : Link, total_qty : Int, count : Int]

\* What the slots and the maps hold.
BookTyped ==
    /\ mem \in [Slot -> OrderRec]
    /\ DOMAIN orders_ \subseteq OrderId
    /\ DOMAIN book = Side
    /\ \A s \in Side : /\ DOMAIN book[s] \subseteq PriceArg
                       /\ \A px \in DOMAIN book[s] : book[s][px] \in LevelRec

\* The index leads to every slot in use, under the id of the order in it.
Indexed ==
    /\ live = {orders_[id] : id \in DOMAIN orders_}
    /\ \A id \in DOMAIN orders_ : mem[orders_[id]].id = id

\* x and y are in the same level.
together(x, y) == mem[x].side = mem[y].side /\ mem[x].price = mem[y].price

\* The links of a resting order lead to its neighbours, which link back, and
\* an order without a neighbour is an end of its level.
linked(x) ==
    LET s == mem[x].side  px == mem[x].price  n == mem[x].next  q == mem[x].prev
    IN  /\ px \in DOMAIN book[s]
        /\ IF n = null THEN book[s][px].tail = x
           ELSE n \in live /\ mem[n].prev = x /\ together(n, x)
        /\ IF q = null THEN book[s][px].head = x
           ELSE q \in live /\ mem[q].next = x /\ together(q, x)

\* The ends of a level are resting orders of that level.
ended(s, px) ==
    LET h == book[s][px].head  t == book[s][px].tail
    IN  /\ h # null => /\ h \in live /\ mem[h].side = s /\ mem[h].price = px
                       /\ mem[h].prev = null
        /\ t # null => /\ t \in live /\ mem[t].side = s /\ mem[t].price = px
                       /\ mem[t].next = null
        /\ h = null <=> t = null

\* The links run in one direction: there is a rank that grows along them.
Ranked ==
    \E rank \in [Slot -> Nat], top \in Nat :
        \A x \in live : /\ rank[x] < top
                        /\ mem[x].next # null => rank[x] < rank[mem[x].next]

ListsSound ==
    /\ \A x \in live : linked(x)
    /\ \A s \in Side : \A px \in DOMAIN book[s] : ended(s, px)
    /\ Ranked

\* The locals of match: as long as it goes on, the pointer is the head of the
\* level being consumed.
MatchSound ==
    /\ op.side \in Side /\ op.qty \in Int /\ op.owner \in Owner /\ filled \in Int
    /\ pc \in {"outer", "inner"} =>
          /\ op.id \in OrderId \ DOMAIN orders_
          /\ op.kind # "market" => op.px \in PriceArg
    /\ pc = "inner" =>
          /\ it \in DOMAIN book[opp]
          /\ o \in live \cup {null}
          /\ ~stopped /\ filled # want => o = lvl.head

BookInv == BookTyped /\ Indexed /\ ListsSound /\ MatchSound

\* A nonempty set of naturals has a least element.
LEMMA NatMin ==
    ASSUME NEW T \in SUBSET Nat, T # {}
    PROVE  \E x \in T : \A y \in T : x <= y
<1> DEFINE R == OpToRel(<, Nat)
<1>1. \A x, y \in Nat : y < x => <<y, x>> \in R
  BY DEF OpToRel
<1>2. IsWellFoundedOn(R, Nat)
  BY NatLessThanWellFounded
<1> HIDE DEF R
<1>3. PICK x \in T : \A y \in T : ~(<<y, x>> \in R)
  BY <1>2, WFMin
<1>4. \A y \in T : ~(y < x) /\ y \in Nat /\ x \in Nat
  BY <1>1, <1>3
<1> QED
  BY <1>4

HasEnds(S) == (\E x \in S : \A y \in S : x >= y) /\ (\E x \in S : \A y \in S : x =< y)

\* A finite nonempty set of prices has a highest and a lowest one: no
\* smallest set is without.
LEMMA FiniteHasEnds ==
    ASSUME NEW S \in SUBSET Int, IsFiniteSet(S), S # {}
    PROVE  HasEnds(S)
<1> DEFINE D == {A \in SUBSET Int : IsFiniteSet(A) /\ A # {} /\ ~HasEnds(A)}
           N == {Cardinality(A) : A \in D}
<1> SUFFICES ASSUME ~HasEnds(S) PROVE FALSE
  OBVIOUS
<1>1. S \in D /\ N # {}
  OBVIOUS
<1>2. \A A \in D : Cardinality(A) \in Nat
  BY FS_CardinalityType
<1>3. PICK n \in N : \A m \in N : n <= m
  <2>1. N \in SUBSET Nat
    BY <1>2
  <2> HIDE DEF N
  <2> QED
    BY <1>1, <2>1, NatMin
<1>4. PICK A \in D : \A B \in D : Cardinality(A) <= Cardinality(B)
  BY <1>3
<1>5. PICK x \in A : TRUE
  OBVIOUS
<1>6. /\ IsFiniteSet(A \ {x}) /\ Cardinality(A \ {x}) = Cardinality(A) - 1
      /\ Cardinality(A) \in Nat /\ A \subseteq Int
  BY <1>2, <1>5, FS_RemoveElement
<1>7. A \ {x} \notin D
  <2> SUFFICES ASSUME A \ {x} \in D PROVE FALSE
    OBVIOUS
  <2>1. Cardinality(A) <= Cardinality(A \ {x})
    BY <1>4
  <2> QED
    BY <1>6, <2>1
<1>8. CASE A \ {x} = {}
  <2>1. A = {x} /\ x \in Int
    BY <1>5, <1>6, <1>8
  <2>2. HasEnds(A)
    BY <2>1 DEF HasEnds
  <2> QED
    BY <2>2
<1>9. CASE A \ {x} # {}
  <2>1. HasEnds(A \ {x})
    BY <1>6, <1>7, <1>9
  <2>2. PICK h \in A \ {x} : \A y \in A \ {x} : h >= y
    BY <2>1 DEF HasEnds
  <2>3. PICK l \in A \ {x} : \A y \in A \ {x} : l <= y
    BY <2>1 DEF HasEnds
  <2>4. \A y \in A : y \in Int
    BY <1>6
  <2>5. (\E z \in A : \A y \in A : z >= y)
    <3>1. CASE x >= h
      BY <1>5, <2>2, <2>4, <3>1
    <3>2. CASE ~(x >= h)
      BY <1>5, <2>2, <2>4, <3>2
    <3> QED
      BY <3>1, <3>2
  <2>6. (\E z \in A : \A y \in A : z =< y)
    <3>1. CASE x <= l
      BY <1>5, <2>3, <2>4, <3>1
    <3>2. CASE ~(x <= l)
      BY <1>5, <2>3, <2>4, <3>2
    <3> QED
      BY <3>1, <3>2
  <2> QED
    BY <2>5, <2>6 DEF HasEnds
<1> QED
  BY <1>8, <1>9

\* opp.begin() is a level of the map, unless the map is empty.
LEMMA BeginInMap ==
    ASSUME BookTyped, NEW s \in Side, begin(s) # kNoPrice
    PROVE  begin(s) \in DOMAIN book[s]
<1>0. PICK P : P = DOMAIN book[s]
  OBVIOUS
<1>1. P \in SUBSET PriceArg /\ P \in SUBSET Int /\ P # {}
  BY <1>0, ArgAssumption DEF BookTyped, begin, first
<1>2. IsFiniteSet(P)
  BY <1>1, ArgAssumption, FS_Subset
<1>3. HasEnds(P)
  BY <1>1, <1>2, FiniteHasEnds
<1>4. Max(P) \in P /\ Min(P) \in P
  BY <1>3 DEF HasEnds, Max, Min
<1> QED
  BY <1>0, <1>1, <1>4 DEF begin, first

\* A nonempty part of a level that holds the predecessors of its orders
\* holds the head.
LEMMA ClosedHasHead ==
    ASSUME BookTyped, ListsSound, live \subseteq Slot, NEW s \in Side, NEW px,
           NEW T \in SUBSET live, T # {},
           \A x \in T : mem[x].side = s /\ mem[x].price = px,
           \A x \in T : mem[x].prev # null => mem[x].prev \in T
    PROVE  book[s][px].head \in T
<1>1. PICK rank \in [Slot -> Nat] :
         \A x \in live : mem[x].next # null => rank[x] < rank[mem[x].next]
  BY DEF ListsSound, Ranked
<1>2. \A x \in T : rank[x] \in Nat
  BY <1>1
<1> DEFINE N == {rank[x] : x \in T}
<1>3. PICK n \in N : \A m \in N : n <= m
  <2>1. N \in SUBSET Nat /\ N # {}
    BY <1>2
  <2> HIDE DEF N
  <2> QED
    BY <2>1, NatMin
<1>4. PICK x \in T : \A y \in T : rank[x] <= rank[y]
  BY <1>3
<1>5. linked(x)
  BY DEF ListsSound
<1>6. mem[x].prev = null
  <2> SUFFICES ASSUME mem[x].prev # null PROVE FALSE
    OBVIOUS
  <2>1. PICK y : y = mem[x].prev
    OBVIOUS
  <2>2. y \in T /\ mem[y].next = x /\ y \in live /\ x \in Slot
    BY <1>5, <2>1 DEF linked
  <2>3. x # null
    BY <2>2, NullAssumption, MaxSlotAssumption DEF Slot
  <2>4. rank[y] < rank[x]
    BY <1>1, <2>2, <2>3
  <2> QED
    BY <1>2, <1>4, <2>2, <2>4
<1> QED
  BY <1>5, <1>6 DEF linked

\* The level (s, px) has become one with ends h and t, or is gone because it
\* has none; the other levels are as they were.
LevelBecomes(s, px, h, t) ==
    /\ DOMAIN book' = Side
    /\ \A u \in Side : \A q : u # s \/ q # px =>
          /\ q \in DOMAIN book'[u] <=> q \in DOMAIN book[u]
          /\ q \in DOMAIN book[u] => book'[u][q] = book[u][q]
    /\ IF px \in DOMAIN book'[s]
       THEN book'[s][px] \in LevelRec /\ book'[s][px].head = h /\ book'[s][px].tail = t
       ELSE h = null

\* The ends of a level when p has left.
head_after(p) ==
    IF mem[p].prev = null THEN mem[p].next ELSE book[mem[p].side][mem[p].price].head
tail_after(p) ==
    IF mem[p].next = null THEN mem[p].prev ELSE book[mem[p].side][mem[p].price].tail

\* p leaves the lists and its slot goes back.
Leaves(p, s, px) ==
    /\ BookTyped /\ ListsSound /\ live \subseteq Slot
    /\ p \in live /\ s = mem[p].side /\ px = mem[p].price
    /\ mem' = unlinked(p) /\ live' = live \ {p}
    /\ LevelBecomes(s, px, head_after(p), tail_after(p))

\* What unlink does to the other orders.
LEMMA UnlinkedFields ==
    ASSUME BookTyped, NEW p \in Slot, mem' = unlinked(p)
    PROVE  /\ mem' \in [Slot -> OrderRec]
           /\ \A x \in Slot \ {p} :
                 /\ mem'[x].side = mem[x].side /\ mem'[x].price = mem[x].price
                 /\ mem'[x].id = mem[x].id
                 /\ mem'[x].next = IF x = mem[p].prev THEN mem[p].next ELSE mem[x].next
                 /\ mem'[x].prev = IF x = mem[p].next THEN mem[p].prev ELSE mem[x].prev
<1>1. Dead \in OrderRec
  BY OwnerAssumption DEF Dead, OrderRec, Link, Side, kNoPrice
<1> QED
  BY <1>1 DEF unlinked, BookTyped, OrderRec

\* What the invariant says around an order.
LEMMA Around ==
    ASSUME BookTyped, ListsSound, live \subseteq Slot, NEW p \in live
    PROVE  /\ p \in Slot /\ p # null /\ mem[p].side \in Side /\ linked(p)
           /\ mem[p].next # p /\ mem[p].prev # p
           /\ book[mem[p].side][mem[p].price].head # null
           /\ ended(mem[p].side, mem[p].price)
<1>0. PICK s, px : s = mem[p].side /\ px = mem[p].price
  OBVIOUS
<1>1. p \in Slot /\ p # null /\ s \in Side /\ linked(p) /\ px \in DOMAIN book[s] /\ null \notin live
  BY <1>0, NullAssumption, MaxSlotAssumption DEF BookTyped, OrderRec, ListsSound, linked, Slot
<1>2. mem[p].next # p
  <2> SUFFICES ASSUME mem[p].next = p PROVE FALSE
    OBVIOUS
  <2>1. PICK rank \in [Slot -> Nat] : mem[p].next # null => rank[p] < rank[mem[p].next]
    BY DEF ListsSound, Ranked
  <2> QED
    BY <1>1, <2>1
<1>3. mem[p].prev # p
  BY <1>1, <1>2 DEF linked
<1>4. book[s][px].head # null
  <2> DEFINE T == {x \in live : mem[x].side = s /\ mem[x].price = px}
  <2>1. T # {} /\ T \in SUBSET live
    BY <1>0
  <2>2. \A x \in T : mem[x].prev # null => mem[x].prev \in T
    BY DEF ListsSound, linked, together
  <2>3. book[s][px].head \in T
    <3>1. \A x \in T : mem[x].side = s /\ mem[x].price = px
      OBVIOUS
    <3> HIDE DEF T
    <3> QED
      BY <1>1, <2>1, <2>2, <3>1, ClosedHasHead
  <2> QED
    BY <1>1, <2>3
<1> QED
  BY <1>0, <1>1, <1>2, <1>3, <1>4 DEF ListsSound

\* An order that leaves others behind in its level leaves it a head.
LEMMA HeadRemains ==
    ASSUME BookTyped, ListsSound, live \subseteq Slot, NEW p \in live, NEW x \in live \ {p},
           together(x, p)
    PROVE  head_after(p) # null
<1>0. PICK s, px : s = mem[p].side /\ px = mem[p].price
  OBVIOUS
<1>1. /\ p \in Slot /\ p # null /\ s \in Side /\ linked(p) /\ book[s][px].head # null
  BY <1>0, Around
<1> SUFFICES ASSUME mem[p].prev = null, mem[p].next = null PROVE FALSE
  BY <1>0, <1>1 DEF head_after
<1> DEFINE T == {y \in live \ {p} : mem[y].side = s /\ mem[y].price = px}
<1>2. T # {} /\ T \in SUBSET live /\ p \notin T
  BY <1>0 DEF together
<1>3. \A y \in T : mem[y].prev # null => mem[y].prev \in T
  <2> SUFFICES ASSUME NEW y \in T, mem[y].prev # null PROVE mem[y].prev \in T
    OBVIOUS
  <2>1. y # null
    BY Around
  <2> QED
    BY <2>1 DEF ListsSound, linked, together
<1>4. book[s][px].head \in T
  <2>1. \A y \in T : mem[y].side = s /\ mem[y].price = px
    OBVIOUS
  <2> HIDE DEF T
  <2> QED
    BY <1>1, <1>2, <1>3, <2>1, ClosedHasHead
<1>5. book[s][px].head = p
  BY <1>0, <1>1 DEF linked
<1> QED
  BY <1>2, <1>4, <1>5

\* The links of the orders that stay are sound when p has left.
LEMMA LeavesNodes ==
    ASSUME NEW p, NEW s, NEW px, Leaves(p, s, px), NEW x \in live \ {p}
    PROVE  linked(x)'
<1>1. /\ BookTyped /\ ListsSound /\ live \subseteq Slot /\ p \in live /\ s = mem[p].side
      /\ px = mem[p].price /\ live' = live \ {p}
      /\ LevelBecomes(s, px, head_after(p), tail_after(p))
  BY DEF Leaves
<1>2. /\ p \in Slot /\ p # null /\ s \in Side /\ linked(p) /\ mem[p].next # p /\ mem[p].prev # p
      /\ x \in Slot /\ x # null /\ mem[x].side \in Side /\ linked(x)
      /\ mem[x].next # x /\ mem[x].prev # x
  BY <1>1, Around
<1>3. \A y \in Slot \ {p} :
         /\ mem'[y].side = mem[y].side /\ mem'[y].price = mem[y].price
         /\ mem'[y].next = IF y = mem[p].prev THEN mem[p].next ELSE mem[y].next
         /\ mem'[y].prev = IF y = mem[p].next THEN mem[p].prev ELSE mem[y].prev
  BY <1>1, <1>2, UnlinkedFields DEF Leaves
<1>4. PICK u, q, n, m : u = mem[x].side /\ q = mem[x].price /\ n = mem'[x].next /\ m = mem'[x].prev
  OBVIOUS
<1>5. q \in DOMAIN book'[u]
  <2>1. CASE u = s /\ q = px
    <3>1. together(x, p)
      BY <1>1, <1>4, <2>1 DEF together
    <3>2. head_after(p) # null
      BY <1>1, <3>1, HeadRemains
    <3> QED
      BY <1>1, <2>1, <3>2 DEF LevelBecomes
  <2>2. CASE u # s \/ q # px
    BY <1>1, <1>2, <1>4, <2>2 DEF LevelBecomes, linked
  <2> QED
    BY <2>1, <2>2
<1>6. \A y \in live : y \in Slot /\ y # null
  BY <1>1, Around
<1>7. IF n = null THEN book'[u][q].tail = x
      ELSE n \in live \ {p} /\ mem'[n].prev = x /\ mem'[n].side = u /\ mem'[n].price = q
  <2>1. CASE x = mem[p].prev
    <3>1. n = mem[p].next /\ u = s /\ q = px
      BY <1>1, <1>2, <1>3, <1>4, <2>1 DEF linked, together
    <3>2. CASE n = null
      <4>1. tail_after(p) = x
        BY <2>1, <3>1, <3>2 DEF tail_after
      <4> QED
        BY <1>1, <1>5, <3>1, <3>2, <4>1 DEF LevelBecomes
    <3>3. CASE n # null
      <4>1. n \in live \ {p} /\ mem[n].side = s /\ mem[n].price = px
        BY <1>1, <1>2, <3>1, <3>3 DEF linked, together
      <4>2. n \in Slot \ {p}
        BY <1>6, <4>1
      <4>3. mem'[n].prev = x
        BY <1>3, <2>1, <3>1, <4>2
      <4> QED
        BY <1>3, <3>1, <3>3, <4>1, <4>2, <4>3
    <3> QED
      BY <3>2, <3>3
  <2>2. CASE x # mem[p].prev
    <3>1. n = mem[x].next /\ n # p
      BY <1>2, <1>3, <1>4, <2>2 DEF linked
    <3>2. CASE n = null
      <4>1. book[u][q].tail = x /\ q \in DOMAIN book[u]
        BY <1>2, <1>4, <3>1, <3>2 DEF linked
      <4>2. CASE u = s /\ q = px
        <5>1. mem[p].next # null
          BY <1>1, <1>2, <4>1, <4>2 DEF linked
        <5>2. tail_after(p) = x
          BY <1>1, <4>1, <4>2, <5>1 DEF tail_after
        <5> QED
          BY <1>1, <1>5, <3>2, <4>2, <5>2 DEF LevelBecomes
      <4>3. CASE u # s \/ q # px
        BY <1>1, <1>2, <1>4, <3>2, <4>1, <4>3 DEF LevelBecomes
      <4> QED
        BY <4>2, <4>3
    <3>3. CASE n # null
      <4>1. n \in live \ {p} /\ mem[n].side = u /\ mem[n].price = q /\ mem[n].prev = x
        BY <1>2, <1>4, <3>1, <3>3 DEF linked, together
      <4>2. n \in Slot \ {p}
        BY <1>6, <4>1
      <4>3. n # mem[p].next
        BY <1>2, <3>3, <4>1 DEF linked
      <4>4. mem'[n].prev = x
        BY <1>3, <4>1, <4>2, <4>3
      <4> QED
        BY <1>3, <3>3, <4>1, <4>2, <4>4
    <3> QED
      BY <3>2, <3>3
  <2> QED
    BY <2>1, <2>2
<1>8. IF m = null THEN book'[u][q].head = x
      ELSE m \in live \ {p} /\ mem'[m].next = x /\ mem'[m].side = u /\ mem'[m].price = q
  <2>1. CASE x = mem[p].next
    <3>1. m = mem[p].prev /\ u = s /\ q = px
      BY <1>1, <1>2, <1>3, <1>4, <2>1 DEF linked, together
    <3>2. CASE m = null
      <4>1. head_after(p) = x
        BY <2>1, <3>1, <3>2 DEF head_after
      <4> QED
        BY <1>1, <1>5, <3>1, <3>2, <4>1 DEF LevelBecomes
    <3>3. CASE m # null
      <4>1. m \in live \ {p} /\ mem[m].side = s /\ mem[m].price = px
        BY <1>1, <1>2, <3>1, <3>3 DEF linked, together
      <4>2. m \in Slot \ {p}
        BY <1>6, <4>1
      <4>3. mem'[m].next = x
        BY <1>3, <2>1, <3>1, <4>2
      <4> QED
        BY <1>3, <3>1, <3>3, <4>1, <4>2, <4>3
    <3> QED
      BY <3>2, <3>3
  <2>2. CASE x # mem[p].next
    <3>1. m = mem[x].prev /\ m # p
      BY <1>2, <1>3, <1>4, <2>2 DEF linked
    <3>2. CASE m = null
      <4>1. book[u][q].head = x /\ q \in DOMAIN book[u]
        BY <1>2, <1>4, <3>1, <3>2 DEF linked
      <4>2. CASE u = s /\ q = px
        <5>1. mem[p].prev # null
          BY <1>1, <1>2, <4>1, <4>2 DEF linked
        <5>2. head_after(p) = x
          BY <1>1, <4>1, <4>2, <5>1 DEF head_after
        <5> QED
          BY <1>1, <1>5, <3>2, <4>2, <5>2 DEF LevelBecomes
      <4>3. CASE u # s \/ q # px
        BY <1>1, <1>2, <1>4, <3>2, <4>1, <4>3 DEF LevelBecomes
      <4> QED
        BY <4>2, <4>3
    <3>3. CASE m # null
      <4>1. m \in live \ {p} /\ mem[m].side = u /\ mem[m].price = q /\ mem[m].next = x
        BY <1>2, <1>4, <3>1, <3>3 DEF linked, together
      <4>2. m \in Slot \ {p}
        BY <1>6, <4>1
      <4>3. m # mem[p].prev
        BY <1>2, <3>3, <4>1 DEF linked
      <4>4. mem'[m].next = x
        BY <1>3, <4>1, <4>2, <4>3
      <4> QED
        BY <1>3, <3>3, <4>1, <4>2, <4>4
    <3> QED
      BY <3>2, <3>3
  <2> QED
    BY <2>1, <2>2
<1>9. mem'[x].side = u /\ mem'[x].price = q
  BY <1>2, <1>3, <1>4
<1> QED
  BY <1>1, <1>4, <1>5, <1>7, <1>8, <1>9 DEF linked, together

\* The ends of every level are sound when p has left.
LEMMA LeavesEnds ==
    ASSUME NEW p, NEW s, NEW px, Leaves(p, s, px),
           NEW u \in Side, NEW q \in DOMAIN book'[u]
    PROVE  ended(u, q)'
<1>1. /\ BookTyped /\ ListsSound /\ live \subseteq Slot /\ p \in live /\ s = mem[p].side
      /\ px = mem[p].price /\ live' = live \ {p}
      /\ LevelBecomes(s, px, head_after(p), tail_after(p))
  BY DEF Leaves
<1>2. /\ p \in Slot /\ p # null /\ s \in Side /\ linked(p) /\ mem[p].next # p /\ mem[p].prev # p
      /\ book[s][px].head # null /\ ended(s, px)
  BY <1>1, Around
<1>3. \A y \in live : /\ y \in Slot /\ y # null
                      /\ mem[y].prev = null => mem[p].next # y
                      /\ mem[y].next = null => mem[p].prev # y
  <2>1. \A y \in live : y \in Slot /\ y # null
    BY <1>1, Around
  <2> QED
    BY <1>2, <2>1 DEF linked
<1>4. \A y \in Slot \ {p} :
         /\ mem'[y].side = mem[y].side /\ mem'[y].price = mem[y].price
         /\ mem'[y].next = IF y = mem[p].prev THEN mem[p].next ELSE mem[y].next
         /\ mem'[y].prev = IF y = mem[p].next THEN mem[p].prev ELSE mem[y].prev
  BY <1>1, <1>2, UnlinkedFields DEF Leaves
<1>5. PICK h, t : h = book'[u][q].head /\ t = book'[u][q].tail
  OBVIOUS
<1>6. CASE u # s \/ q # px
  <2>1. q \in DOMAIN book[u] /\ h = book[u][q].head /\ t = book[u][q].tail
    BY <1>1, <1>5, <1>6 DEF LevelBecomes
  <2>2. ended(u, q)
    BY <1>1, <2>1 DEF ListsSound
  <2>3. h # null => h \in live' /\ mem'[h].side = u /\ mem'[h].price = q /\ mem'[h].prev = null
    BY <1>1, <1>3, <1>4, <1>6, <2>1, <2>2 DEF ended
  <2>4. t # null => t \in live' /\ mem'[t].side = u /\ mem'[t].price = q /\ mem'[t].next = null
    BY <1>1, <1>3, <1>4, <1>6, <2>1, <2>2 DEF ended
  <2> QED
    BY <1>5, <2>1, <2>2, <2>3, <2>4 DEF ended
<1>7. CASE u = s /\ q = px
  <2>0. PICK g, l : g = book[s][px].head /\ l = book[s][px].tail
    OBVIOUS
  <2>1. /\ h = IF mem[p].prev = null THEN mem[p].next ELSE g
        /\ t = IF mem[p].next = null THEN mem[p].prev ELSE l
    BY <1>1, <1>5, <1>7, <2>0 DEF LevelBecomes, head_after, tail_after
  <2>2. /\ g \in live /\ mem[g].side = s /\ mem[g].price = px /\ mem[g].prev = null
        /\ l \in live /\ mem[l].side = s /\ mem[l].price = px /\ mem[l].next = null
    BY <1>2, <2>0 DEF ended
  <2>3. h # null => h \in live' /\ mem'[h].side = s /\ mem'[h].price = px /\ mem'[h].prev = null
    <3>1. CASE mem[p].prev = null
      <4>1. h # null => h \in live \ {p} /\ mem[h].side = s /\ mem[h].price = px /\ h \in Slot
        BY <1>1, <1>2, <1>3, <2>1, <3>1 DEF linked, together
      <4> QED
        BY <1>1, <1>4, <2>1, <3>1, <4>1
    <3>2. CASE mem[p].prev # null
      <4>1. h = g /\ g # p /\ g \in Slot
        BY <1>3, <2>1, <2>2, <3>2
      <4> QED
        BY <1>1, <1>3, <1>4, <2>2, <4>1
    <3> QED
      BY <3>1, <3>2
  <2>4. t # null => t \in live' /\ mem'[t].side = s /\ mem'[t].price = px /\ mem'[t].next = null
    <3>1. CASE mem[p].next = null
      <4>1. t # null => t \in live \ {p} /\ mem[t].side = s /\ mem[t].price = px /\ t \in Slot
        BY <1>1, <1>2, <1>3, <2>1, <3>1 DEF linked, together
      <4> QED
        BY <1>1, <1>4, <2>1, <3>1, <4>1
    <3>2. CASE mem[p].next # null
      <4>1. t = l /\ l # p /\ l \in Slot
        BY <1>3, <2>1, <2>2, <3>2
      <4> QED
        BY <1>1, <1>3, <1>4, <2>2, <4>1
    <3> QED
      BY <3>1, <3>2
  <2>5. h = null <=> t = null
    BY <1>3, <2>1, <2>2
  <2> QED
    BY <1>5, <1>7, <2>3, <2>4, <2>5 DEF ended
<1> QED
  BY <1>6, <1>7

\* An order that leaves keeps the lists sound, whatever slot it had.
LEMMA LeavesLists ==
    ASSUME NEW p, NEW s, NEW px, Leaves(p, s, px)
    PROVE  ListsSound'
<1>1. /\ BookTyped /\ ListsSound /\ live \subseteq Slot /\ p \in live /\ live' = live \ {p}
  BY DEF Leaves
<1>2. \A x \in live' : linked(x)'
  BY <1>1, LeavesNodes
<1>3. \A u \in Side : \A q \in DOMAIN book'[u] : ended(u, q)'
  BY LeavesEnds
<1>4. Ranked'
  <2>1. PICK rank \in [Slot -> Nat], top \in Nat :
           \A x \in live : /\ rank[x] < top
                           /\ mem[x].next # null => rank[x] < rank[mem[x].next]
    BY <1>1 DEF ListsSound, Ranked
  <2>2. p \in Slot /\ linked(p) /\ p # null
    BY <1>1, Around
  <2>3. ASSUME NEW x \in live \ {p}, mem'[x].next # null PROVE rank[x] < rank[mem'[x].next]
    <3>1. x \in Slot /\ linked(x) /\ x # null
      BY <1>1, Around
    <3>2. mem'[x].next = IF x = mem[p].prev THEN mem[p].next ELSE mem[x].next
      BY <1>1, <2>2, <3>1, UnlinkedFields DEF Leaves
    <3>3. CASE x # mem[p].prev
      BY <2>1, <2>3, <3>2, <3>3
    <3>4. CASE x = mem[p].prev
      <4>1. PICK n : n = mem[p].next
        OBVIOUS
      <4>2. mem[x].next = p /\ n # null /\ n \in Slot /\ mem'[x].next = n
        BY <1>1, <2>2, <2>3, <3>1, <3>2, <3>4, <4>1 DEF linked
      <4>3. rank[x] < rank[p] /\ rank[p] < rank[n]
        BY <1>1, <2>1, <2>2, <4>1, <4>2
      <4> QED
        BY <2>1, <2>2, <3>1, <4>2, <4>3
    <3> QED
      BY <3>3, <3>4
  <2> QED
    BY <1>1, <2>1, <2>3 DEF Ranked
<1> QED
  BY <1>2, <1>3, <1>4 DEF ListsSound

\* The index follows an order that leaves.
LEMMA LeavesIndex ==
    ASSUME BookTyped, Indexed, live \subseteq Slot, NEW p \in live, mem' = unlinked(p),
           live' = live \ {p}, orders_' = drop(orders_, mem[p].id)
    PROVE  /\ Indexed' /\ mem' \in [Slot -> OrderRec]
           /\ DOMAIN orders_' = DOMAIN orders_ \ {mem[p].id} /\ DOMAIN orders_' \subseteq OrderId
<1>1. /\ DOMAIN orders_' = DOMAIN orders_ \ {mem[p].id}
      /\ \A id \in DOMAIN orders_' : orders_'[id] = orders_[id]
  BY DEF drop
<1>2. /\ mem' \in [Slot -> OrderRec]
      /\ \A x \in Slot \ {p} : mem'[x].id = mem[x].id
  BY UnlinkedFields
<1>3. mem[p].id \in DOMAIN orders_ /\ orders_[mem[p].id] = p
  BY DEF Indexed
<1>4. \A id \in DOMAIN orders_ : orders_[id] \in live /\ (orders_[id] = p <=> id = mem[p].id)
  BY <1>3 DEF Indexed
<1>5. live' = {orders_'[id] : id \in DOMAIN orders_'}
  <2>1. \A x \in live : \E id \in DOMAIN orders_ : x = orders_[id]
    BY DEF Indexed
  <2> QED
    BY <1>1, <1>4, <2>1
<1>6. \A id \in DOMAIN orders_' : mem'[orders_'[id]].id = id
  <2> SUFFICES ASSUME NEW id \in DOMAIN orders_' PROVE mem'[orders_'[id]].id = id
    OBVIOUS
  <2>1. orders_'[id] = orders_[id] /\ orders_[id] \in Slot \ {p} /\ mem[orders_[id]].id = id
    BY <1>1, <1>4 DEF Indexed
  <2> QED
    BY <1>2, <2>1
<1> QED
  BY <1>1, <1>2, <1>5, <1>6 DEF Indexed, BookTyped

\* create returns a slot that is not in use.
LEMMA RawSlotUnused ==
    ASSUME IInv, create_recycled \/ create_fresh \/ create_grown
    PROVE  raw_slot \in Slot \ live /\ live' = live \cup {raw_slot}
<1>1. CASE create_recycled
  <2>1. free_ # null /\ free_ \in idle /\ live' = live \cup {free_}
    BY <1>1 DEF create_recycled, hand_out, IInv, FreeListExact
  <2>2. free_ \in Slot /\ free_ \notin live
    BY <2>1, IdleSlots DEF IInv
  <2> QED
    BY <2>1, <2>2 DEF raw_slot
<1>2. CASE create_fresh \/ create_grown
  <2>1. free_ = null /\ live' = live \cup {cursor_}
    BY <1>2 DEF create_fresh, create_grown, hand_out
  <2>2. cursor_ \in Slot
    BY <1>2, MaxSlotAssumption DEF create_fresh, create_grown, IInv, TypeOK, Slot
  <2>3. cursor_ \notin live
    BY DEF IInv, TypeOK
  <2> QED
    BY <2>1, <2>2, <2>3 DEF raw_slot
<1> QED
  BY <1>1, <1>2

\* The level an order is about to join.
joined(s, px) == IF px \in DOMAIN book[s] THEN book[s][px] ELSE NoLevel

\* An order comes to rest in slot p, behind the others of its level.
Joins(p, s, id, px, qty, owner) ==
    LET l == joined(s, px)
    IN  /\ BookTyped /\ ListsSound /\ live \subseteq Slot
        /\ p \in Slot \ live /\ s \in Side /\ px \in PriceArg /\ id \in OrderId
        /\ qty \in Int /\ owner \in Owner
        /\ live' = live \cup {p}
        /\ mem' = [x \in Slot |->
              IF x = p THEN [prev |-> l.tail, next |-> null, id |-> id, price |-> px,
                             qty |-> qty, side |-> s, owner |-> owner]
              ELSE IF x = l.tail THEN [mem[x] EXCEPT !.next = p] ELSE mem[x]]
        /\ book' = [book EXCEPT ![s] =
              put(@, px, [head |-> IF l.tail = null THEN p ELSE l.head, tail |-> p,
                          total_qty |-> l.total_qty + qty, count |-> l.count + 1])]

\* What rest does to the slots.
LEMMA JoinsFields ==
    ASSUME NEW p, NEW s, NEW id, NEW px, NEW qty, NEW owner, Joins(p, s, id, px, qty, owner)
    PROVE  /\ mem' \in [Slot -> OrderRec]
           /\ \A x \in Slot \ {p} :
                 /\ mem'[x].side = mem[x].side /\ mem'[x].price = mem[x].price
                 /\ mem'[x].id = mem[x].id /\ mem'[x].prev = mem[x].prev
                 /\ mem'[x].next = IF x = joined(s, px).tail THEN p ELSE mem[x].next
           /\ mem'[p].side = s /\ mem'[p].price = px /\ mem'[p].id = id
           /\ mem'[p].prev = joined(s, px).tail /\ mem'[p].next = null
<1>1. joined(s, px) \in LevelRec
  BY DEF Joins, joined, BookTyped, NoLevel, LevelRec, Link
<1>2. joined(s, px).tail \in Link
  BY <1>1 DEF LevelRec
<1>3. PICK l : l = joined(s, px)
  OBVIOUS
<1>4. mem' = [x \in Slot |->
              IF x = p THEN [prev |-> l.tail, next |-> null, id |-> id, price |-> px,
                             qty |-> qty, side |-> s, owner |-> owner]
              ELSE IF x = l.tail THEN [mem[x] EXCEPT !.next = p] ELSE mem[x]]
  BY <1>3 DEF Joins
<1>5. /\ mem \in [Slot -> OrderRec] /\ p \in Slot /\ s \in Side /\ px \in Int /\ id \in OrderId
      /\ qty \in Int /\ owner \in Owner
  BY ArgAssumption DEF Joins, BookTyped
<1>6. mem' \in [Slot -> OrderRec]
  BY <1>2, <1>3, <1>4, <1>5 DEF OrderRec, Link
<1> QED
  BY <1>3, <1>4, <1>5, <1>6 DEF OrderRec

\* What rest does to the levels.
LEMMA JoinsLevels ==
    ASSUME NEW p, NEW s, NEW id, NEW px, NEW qty, NEW owner, Joins(p, s, id, px, qty, owner)
    PROVE  /\ DOMAIN book' = Side
           /\ \A u \in Side : \A q : u # s \/ q # px =>
                 /\ q \in DOMAIN book'[u] <=> q \in DOMAIN book[u]
                 /\ q \in DOMAIN book[u] => book'[u][q] = book[u][q]
           /\ px \in DOMAIN book'[s] /\ book'[s][px] \in LevelRec
           /\ book'[s][px].tail = p
           /\ book'[s][px].head = IF joined(s, px).tail = null THEN p ELSE joined(s, px).head
<1>0. PICK l : l = joined(s, px)
  OBVIOUS
<1>1. l \in LevelRec
  BY <1>0 DEF Joins, joined, BookTyped, NoLevel, LevelRec, Link
<1>2. PICK v : v = [head |-> IF l.tail = null THEN p ELSE l.head, tail |-> p,
                    total_qty |-> l.total_qty + qty, count |-> l.count + 1]
  OBVIOUS
<1>3. v \in LevelRec /\ v.tail = p /\ v.head = IF l.tail = null THEN p ELSE l.head
  <2>1. l.head \in Link /\ l.total_qty \in Int /\ l.count \in Int /\ p \in Link /\ qty \in Int
    BY <1>1 DEF LevelRec, Joins, Link
  <2>2. l.total_qty + qty \in Int /\ l.count + 1 \in Int
    BY <2>1
  <2> QED
    BY <1>2, <2>1, <2>2 DEF LevelRec
<1>4. book' = [book EXCEPT ![s] = put(@, px, v)] /\ DOMAIN book = Side /\ s \in Side
  BY <1>0, <1>2 DEF Joins, BookTyped
<1>5. DOMAIN book' = Side /\ book'[s] = put(book[s], px, v) /\ \A u \in Side \ {s} : book'[u] = book[u]
  BY <1>4
<1>6. /\ DOMAIN put(book[s], px, v) = DOMAIN book[s] \cup {px}
      /\ put(book[s], px, v)[px] = v
      /\ \A q \in DOMAIN book[s] : q # px => put(book[s], px, v)[q] = book[s][q]
  BY DEF put
<1> QED
  BY <1>0, <1>3, <1>5, <1>6

\* An order that comes to rest keeps the lists sound.
LEMMA JoinsLists ==
    ASSUME NEW p, NEW s, NEW id, NEW px, NEW qty, NEW owner, Joins(p, s, id, px, qty, owner)
    PROVE  ListsSound'
<1>0. PICK l, h, t : l = joined(s, px) /\ h = l.head /\ t = l.tail
  OBVIOUS
<1>1. /\ BookTyped /\ ListsSound /\ live \subseteq Slot /\ p \in Slot /\ p \notin live
      /\ s \in Side /\ live' = live \cup {p} /\ p # null
  BY NullAssumption, MaxSlotAssumption DEF Joins, Slot
<1>2. /\ \A x \in Slot \ {p} :
            /\ mem'[x].side = mem[x].side /\ mem'[x].price = mem[x].price
            /\ mem'[x].prev = mem[x].prev
            /\ mem'[x].next = IF x = t THEN p ELSE mem[x].next
      /\ mem'[p].side = s /\ mem'[p].price = px /\ mem'[p].prev = t /\ mem'[p].next = null
  BY <1>0, JoinsFields
<1>3. /\ \A u \in Side : \A q : u # s \/ q # px =>
            /\ q \in DOMAIN book'[u] <=> q \in DOMAIN book[u]
            /\ q \in DOMAIN book[u] => book'[u][q] = book[u][q]
      /\ px \in DOMAIN book'[s] /\ book'[s][px].tail = p
      /\ book'[s][px].head = IF t = null THEN p ELSE h
  BY <1>0, JoinsLevels
<1>4. /\ h # null => h \in live /\ mem[h].side = s /\ mem[h].price = px /\ mem[h].prev = null
      /\ t # null => t \in live /\ mem[t].side = s /\ mem[t].price = px /\ mem[t].next = null
      /\ h = null <=> t = null
  <2>1. CASE px \in DOMAIN book[s]
    BY <1>0, <1>1, <2>1 DEF joined, ListsSound, ended
  <2>2. CASE px \notin DOMAIN book[s]
    BY <1>0, <2>2 DEF joined, NoLevel
  <2> QED
    BY <2>1, <2>2
<1>5. \A x \in live : x \in Slot \ {p} /\ x # null /\ mem[x].side \in Side /\ linked(x)
  BY <1>1, Around
<1>6. ASSUME NEW x \in live PROVE linked(x)'
  <2>0. PICK u, q, n, m : u = mem[x].side /\ q = mem[x].price /\ n = mem'[x].next /\ m = mem[x].prev
    OBVIOUS
  <2>1. x \in Slot \ {p} /\ x # null /\ u \in Side /\ linked(x)
    BY <1>5, <2>0
  <2>2. mem'[x].side = u /\ mem'[x].price = q /\ mem'[x].prev = m
    BY <1>2, <2>0, <2>1
  <2>3. q \in DOMAIN book[u] /\ q \in DOMAIN book'[u]
    BY <1>3, <2>0, <2>1 DEF linked
  <2>4. IF n = null THEN book'[u][q].tail = x
        ELSE n \in live' /\ mem'[n].prev = x /\ mem'[n].side = u /\ mem'[n].price = q
    <3>1. CASE x = t
      BY <1>1, <1>2, <1>4, <2>0, <2>1, <3>1
    <3>2. CASE x # t
      <4>1. n = mem[x].next
        BY <1>2, <2>0, <2>1, <3>2
      <4>2. CASE n = null
        <5>1. book[u][q].tail = x
          BY <2>0, <2>1, <4>1, <4>2 DEF linked
        <5>2. u # s \/ q # px
          BY <1>0, <2>3, <3>2, <5>1 DEF joined
        <5> QED
          BY <1>3, <2>1, <2>3, <4>2, <5>1, <5>2
      <4>3. CASE n # null
        <5>1. n \in live /\ mem[n].prev = x /\ mem[n].side = u /\ mem[n].price = q
          BY <2>0, <2>1, <4>1, <4>3 DEF linked, together
        <5> QED
          BY <1>1, <1>2, <1>5, <4>3, <5>1
      <4> QED
        BY <4>2, <4>3
    <3> QED
      BY <3>1, <3>2
  <2>5. IF m = null THEN book'[u][q].head = x
        ELSE m \in live' /\ mem'[m].next = x /\ mem'[m].side = u /\ mem'[m].price = q
    <3>1. CASE m = null
      <4>1. book[u][q].head = x
        BY <2>0, <2>1, <3>1 DEF linked
      <4>2. CASE u = s /\ q = px
        <5>1. h = x /\ t # null
          BY <1>0, <1>4, <2>1, <2>3, <4>1, <4>2 DEF joined
        <5> QED
          BY <1>3, <3>1, <4>2, <5>1
      <4>3. CASE u # s \/ q # px
        BY <1>3, <2>1, <2>3, <3>1, <4>1, <4>3
      <4> QED
        BY <4>2, <4>3
    <3>2. CASE m # null
      <4>1. m \in live /\ mem[m].next = x /\ mem[m].side = u /\ mem[m].price = q
        BY <2>0, <2>1, <3>2 DEF linked, together
      <4>2. m # t
        BY <1>4, <2>1, <3>2, <4>1
      <4> QED
        BY <1>1, <1>2, <1>5, <3>2, <4>1, <4>2
    <3> QED
      BY <3>1, <3>2
  <2> QED
    BY <2>0, <2>2, <2>3, <2>4, <2>5 DEF linked, together
<1>7. linked(p)'
  <2>1. IF t = null THEN book'[s][px].head = p
        ELSE t \in live' /\ mem'[t].next = p /\ mem'[t].side = s /\ mem'[t].price = px
    BY <1>1, <1>2, <1>3, <1>4, <1>5
  <2> QED
    BY <1>2, <1>3, <2>1 DEF linked, together
<1>8. ASSUME NEW u \in Side, NEW q \in DOMAIN book'[u] PROVE ended(u, q)'
  <2>0. PICK g, e : g = book'[u][q].head /\ e = book'[u][q].tail
    OBVIOUS
  <2>1. CASE u = s /\ q = px
    <3>1. e = p /\ g = IF t = null THEN p ELSE h
      BY <1>3, <2>0, <2>1
    <3>2. g \in live' /\ mem'[g].side = s /\ mem'[g].price = px /\ mem'[g].prev = null /\ g # null
      <4>1. CASE t = null
        BY <1>1, <1>2, <3>1, <4>1
      <4>2. CASE t # null
        BY <1>1, <1>2, <1>4, <1>5, <3>1, <4>2
      <4> QED
        BY <4>1, <4>2
    <3>3. e \in live' /\ mem'[e].side = s /\ mem'[e].price = px /\ mem'[e].next = null /\ e # null
      BY <1>1, <1>2, <3>1
    <3> QED
      BY <2>0, <2>1, <3>2, <3>3 DEF ended
  <2>2. CASE u # s \/ q # px
    <3>1. q \in DOMAIN book[u] /\ g = book[u][q].head /\ e = book[u][q].tail
      BY <1>3, <2>0, <2>2
    <3>2. ended(u, q)
      BY <1>1, <3>1 DEF ListsSound
    <3>3. g # null => g \in live' /\ mem'[g].side = u /\ mem'[g].price = q /\ mem'[g].prev = null
      BY <1>1, <1>2, <1>5, <3>1, <3>2 DEF ended
    <3>4. e # null => e \in live' /\ mem'[e].side = u /\ mem'[e].price = q /\ mem'[e].next = null
      BY <1>1, <1>2, <1>4, <1>5, <2>2, <3>1, <3>2 DEF ended
    <3> QED
      BY <2>0, <3>1, <3>2, <3>3, <3>4 DEF ended
  <2> QED
    BY <2>1, <2>2
<1>9. Ranked'
  <2>1. PICK rank \in [Slot -> Nat], top \in Nat :
           \A x \in live : /\ rank[x] < top
                           /\ mem[x].next # null => rank[x] < rank[mem[x].next]
    BY <1>1 DEF ListsSound, Ranked
  <2>2. PICK r : r = [rank EXCEPT ![p] = top]
    OBVIOUS
  <2>3. r \in [Slot -> Nat] /\ r[p] = top /\ \A x \in live : r[x] = rank[x] /\ rank[x] \in Nat
    BY <1>1, <1>5, <2>1, <2>2
  <2>4. ASSUME NEW x \in live', mem'[x].next # null PROVE r[x] < r[mem'[x].next]
    <3>1. x \in live
      BY <1>1, <1>2, <2>4
    <3>2. CASE x = t
      BY <1>2, <1>5, <2>1, <2>3, <3>1, <3>2
    <3>3. CASE x # t
      <4>1. mem'[x].next = mem[x].next /\ mem[x].next \in live
        BY <1>2, <1>5, <2>4, <3>1, <3>3 DEF linked
      <4> QED
        BY <2>1, <2>3, <2>4, <3>1, <4>1
    <3> QED
      BY <3>2, <3>3
  <2>5. \A x \in live' : r[x] < top + 1
    BY <1>1, <2>1, <2>3
  <2>6. top + 1 \in Nat
    BY <2>1
  <2> QED
    BY <2>3, <2>4, <2>5, <2>6 DEF Ranked
<1> QED
  BY <1>1, <1>6, <1>7, <1>8, <1>9 DEF ListsSound

\* The book after an order has left it.
LEMMA LeavesBook ==
    ASSUME NEW p, NEW s, NEW px, Leaves(p, s, px), Indexed, orders_' = drop(orders_, mem[p].id)
    PROVE  /\ BookTyped' /\ Indexed' /\ ListsSound'
           /\ DOMAIN orders_' = DOMAIN orders_ \ {mem[p].id}
<1>1. /\ BookTyped /\ ListsSound /\ live \subseteq Slot /\ p \in live /\ s = mem[p].side
      /\ px = mem[p].price /\ live' = live \ {p} /\ mem' = unlinked(p)
      /\ LevelBecomes(s, px, head_after(p), tail_after(p))
  BY DEF Leaves
<1>2. /\ Indexed' /\ mem' \in [Slot -> OrderRec]
      /\ DOMAIN orders_' = DOMAIN orders_ \ {mem[p].id} /\ DOMAIN orders_' \subseteq OrderId
  BY <1>1, LeavesIndex
<1>3. s \in Side /\ px \in DOMAIN book[s]
  BY <1>1, Around DEF linked
<1>4. ASSUME NEW u \in Side, NEW q \in DOMAIN book'[u]
      PROVE  q \in PriceArg /\ book'[u][q] \in LevelRec
  <2>1. CASE u = s /\ q = px
    BY <1>1, <1>3, <2>1 DEF LevelBecomes, BookTyped
  <2>2. CASE u # s \/ q # px
    BY <1>1, <2>2 DEF LevelBecomes, BookTyped
  <2> QED
    BY <2>1, <2>2
<1>5. BookTyped'
  BY <1>1, <1>2, <1>4 DEF BookTyped, LevelBecomes
<1> QED
  BY <1>2, <1>5, LeavesLists

\* The book after an order has come to rest in it.
LEMMA JoinsBook ==
    ASSUME NEW p, NEW s, NEW id, NEW px, NEW qty, NEW owner, Joins(p, s, id, px, qty, owner),
           Indexed, id \notin DOMAIN orders_, orders_' = put(orders_, id, p)
    PROVE  BookTyped' /\ Indexed' /\ ListsSound'
<1>1. /\ BookTyped /\ live \subseteq Slot /\ p \in Slot \ live /\ live' = live \cup {p}
      /\ s \in Side /\ px \in PriceArg /\ id \in OrderId
  BY DEF Joins
<1>2. /\ DOMAIN orders_' = DOMAIN orders_ \cup {id} /\ orders_'[id] = p
      /\ \A x \in DOMAIN orders_ : orders_'[x] = orders_[x]
  BY DEF put
<1>3. /\ mem' \in [Slot -> OrderRec] /\ mem'[p].id = id
      /\ \A x \in Slot \ {p} : mem'[x].id = mem[x].id
  BY JoinsFields
<1>4. \A x \in DOMAIN orders_ : orders_[x] \in live /\ orders_[x] \in Slot \ {p}
  BY <1>1 DEF Indexed
<1>5. Indexed'
  <2>1. live' = {orders_'[x] : x \in DOMAIN orders_'}
    <3>1. \A x \in live : \E y \in DOMAIN orders_ : x = orders_[y]
      BY DEF Indexed
    <3> QED
      BY <1>1, <1>2, <1>4, <3>1
  <2>2. \A x \in DOMAIN orders_' : mem'[orders_'[x]].id = x
    BY <1>2, <1>3, <1>4 DEF Indexed
  <2> QED
    BY <2>1, <2>2 DEF Indexed
<1>6. BookTyped'
  <2>1. ASSUME NEW u \in Side, NEW q \in DOMAIN book'[u]
        PROVE  q \in PriceArg /\ book'[u][q] \in LevelRec
    <3>1. CASE u = s /\ q = px
      BY <1>1, <3>1, JoinsLevels
    <3>2. CASE u # s \/ q # px
      <4>1. q \in DOMAIN book[u] /\ book'[u][q] = book[u][q]
        BY <3>2, JoinsLevels
      <4> QED
        BY <1>1, <4>1 DEF BookTyped
    <3> QED
      BY <3>1, <3>2
  <2>2. DOMAIN book' = Side
    BY JoinsLevels
  <2> QED
    BY <1>1, <1>2, <1>3, <2>1, <2>2 DEF BookTyped
<1> QED
  BY <1>5, <1>6, JoinsLists

\* Nothing moves: the quantities may change, the links and the ends do not.
Stays ==
    /\ live' = live /\ orders_' = orders_
    /\ mem' \in [Slot -> OrderRec]
    /\ \A x \in Slot : /\ mem'[x].prev = mem[x].prev /\ mem'[x].next = mem[x].next
                       /\ mem'[x].id = mem[x].id
                       /\ mem'[x].side = mem[x].side /\ mem'[x].price = mem[x].price
    /\ DOMAIN book' = Side
    /\ \A s \in Side :
          /\ DOMAIN book'[s] = DOMAIN book[s]
          /\ \A px \in DOMAIN book[s] :
                /\ book'[s][px] \in LevelRec
                /\ book'[s][px].head = book[s][px].head /\ book'[s][px].tail = book[s][px].tail

\* A change of quantities keeps the book sound.
LEMMA StaysBook ==
    ASSUME BookTyped, Indexed, ListsSound, live \subseteq Slot, Stays
    PROVE  BookTyped' /\ Indexed' /\ ListsSound'
<1>1. BookTyped'
  BY DEF BookTyped, Stays
<1>2. Indexed'
  BY DEF Indexed, Stays
<1>3. \A x \in live : x \in Slot /\ mem[x].side \in Side /\ linked(x)
  BY Around
<1>4. ASSUME NEW x \in live PROVE linked(x)'
  BY <1>3 DEF linked, together, Stays
<1>5. ASSUME NEW s \in Side, NEW px \in DOMAIN book[s] PROVE ended(s, px)'
  <2>1. ended(s, px)
    BY DEF ListsSound
  <2> QED
    BY <2>1 DEF ended, Stays
<1>6. Ranked'
  <2>1. PICK rank \in [Slot -> Nat], top \in Nat :
           \A x \in live : /\ rank[x] < top
                           /\ mem[x].next # null => rank[x] < rank[mem[x].next]
    BY DEF ListsSound, Ranked
  <2>2. \A x \in live' : /\ rank[x] < top
                         /\ mem'[x].next # null => rank[x] < rank[mem'[x].next]
    BY <1>3, <2>1 DEF Stays
  <2> QED
    BY <2>1, <2>2 DEF Ranked
<1> QED
  BY <1>1, <1>2, <1>4, <1>5, <1>6 DEF ListsSound, Stays

\* A step that leaves the maps and the slots alone is a special case.
LEMMA UnchangedStays ==
    ASSUME BookTyped, UNCHANGED <<live, levels>>
    PROVE  Stays
  BY DEF BookTyped, Stays, levels

\* The quantity of p becomes v and the total of its level w.
Reduces(p, v, s, px, w) ==
    mem' = [mem EXCEPT ![p].qty = v] /\ book' = [book EXCEPT ![s][px].total_qty = w]

\* An order that is reduced where it stands moves nothing.
LEMMA ReducedStays ==
    ASSUME BookTyped, NEW p \in Slot, NEW v \in Int, NEW s \in Side, NEW px \in DOMAIN book[s],
           NEW w \in Int, Reduces(p, v, s, px, w), live' = live, orders_' = orders_
    PROVE  Stays
<1>0. mem' = [mem EXCEPT ![p].qty = v] /\ book' = [book EXCEPT ![s][px].total_qty = w]
  BY DEF Reduces
<1>1. /\ mem' \in [Slot -> OrderRec]
      /\ \A x \in Slot : /\ mem'[x].prev = mem[x].prev /\ mem'[x].next = mem[x].next
                         /\ mem'[x].id = mem[x].id
                         /\ mem'[x].side = mem[x].side /\ mem'[x].price = mem[x].price
  BY <1>0 DEF BookTyped, OrderRec
<1>2. /\ DOMAIN book' = Side
      /\ \A u \in Side : DOMAIN book'[u] = DOMAIN book[u]
      /\ \A u \in Side : \A q \in DOMAIN book[u] :
            u # s \/ q # px => book'[u][q] = book[u][q]
      /\ book'[s][px] = [book[s][px] EXCEPT !.total_qty = w]
  BY <1>0 DEF BookTyped
<1>3. /\ book'[s][px] \in LevelRec /\ book'[s][px].head = book[s][px].head
      /\ book'[s][px].tail = book[s][px].tail
  BY <1>2 DEF LevelRec, BookTyped
<1> QED
  BY <1>1, <1>2, <1>3 DEF Stays, BookTyped

\* The level that EndLevel drops is one that no order is in.
LEMMA DropsBook ==
    ASSUME BookTyped, Indexed, ListsSound, live \subseteq Slot, NEW s \in Side,
           NEW px \in DOMAIN book[s], book[s][px].head = null,
           UNCHANGED <<live, mem, orders_>>, book' = [book EXCEPT ![s] = drop(@, px)]
    PROVE  BookTyped' /\ Indexed' /\ ListsSound'
<1>1. /\ DOMAIN book' = Side
      /\ \A u \in Side : \A q \in DOMAIN book'[u] :
            q \in DOMAIN book[u] /\ book'[u][q] = book[u][q]
      /\ \A u \in Side : \A q \in DOMAIN book[u] :
            u # s \/ q # px => q \in DOMAIN book'[u] /\ book'[u][q] = book[u][q]
  BY DEF BookTyped, drop
<1>2. \A x \in live : /\ mem[x].side \in Side /\ linked(x)
                      /\ mem[x].side # s \/ mem[x].price # px
  <2> SUFFICES ASSUME NEW x \in live
               PROVE  /\ mem[x].side \in Side /\ linked(x)
                      /\ mem[x].side # s \/ mem[x].price # px
    OBVIOUS
  <2>1. mem[x].side \in Side /\ linked(x) /\ book[mem[x].side][mem[x].price].head # null
    BY Around
  <2> QED
    BY <2>1
<1>3. ASSUME NEW x \in live PROVE linked(x)'
  BY <1>1, <1>2 DEF linked, together
<1>4. ASSUME NEW u \in Side, NEW q \in DOMAIN book'[u] PROVE ended(u, q)'
  <2>1. ended(u, q) /\ book'[u][q] = book[u][q]
    BY <1>1 DEF ListsSound
  <2> QED
    BY <2>1 DEF ended
<1>5. Ranked'
  BY DEF ListsSound, Ranked
<1>6. BookTyped'
  BY <1>1 DEF BookTyped
<1> QED
  BY <1>3, <1>4, <1>5, <1>6 DEF ListsSound, Indexed

\* cancel, and the first half of a reprice: an order leaves from anywhere in
\* its level.
LEMMA RemoveBook ==
    ASSUME BookTyped, Indexed, ListsSound, live \subseteq Slot, NEW p \in live, remove_from_book(p)
    PROVE  /\ BookTyped' /\ Indexed' /\ ListsSound'
           /\ DOMAIN orders_' = DOMAIN orders_ \ {mem[p].id}
<1>0. PICK s, px, b : s = mem[p].side /\ px = mem[p].price /\ b = book[s][px]
  OBVIOUS
<1>1. PICK l : l = unlink(b, p, mem[p].qty)
  OBVIOUS
<1>2. /\ mem' = unlinked(p) /\ orders_' = drop(orders_, mem[p].id) /\ live' = live \ {p}
      /\ book' = [book EXCEPT ![s] = IF l.head = null THEN drop(book[s], px) ELSE put(book[s], px, l)]
  BY <1>0, <1>1 DEF remove_from_book, take_off, destroy
<1>3. /\ s \in Side /\ px \in DOMAIN book[s] /\ b \in LevelRec /\ DOMAIN book = Side
      /\ mem[p] \in OrderRec
  BY <1>0, Around DEF linked, BookTyped
<1>4. l \in LevelRec /\ l.head = head_after(p) /\ l.tail = tail_after(p)
  <2>1. b.head \in Link /\ b.tail \in Link /\ b.total_qty \in Int /\ b.count \in Int
    BY <1>3 DEF LevelRec
  <2>2. mem[p].prev \in Link /\ mem[p].next \in Link /\ mem[p].qty \in Int
    BY <1>3 DEF OrderRec
  <2>3. b.total_qty - mem[p].qty \in Int /\ b.count - 1 \in Int
    BY <2>1, <2>2
  <2>4. l \in LevelRec
    BY <1>1, <2>1, <2>2, <2>3 DEF unlink, LevelRec
  <2> QED
    BY <1>0, <1>1, <2>4 DEF unlink, head_after, tail_after
<1>5. /\ DOMAIN book' = Side /\ \A u \in Side \ {s} : book'[u] = book[u]
      /\ book'[s] = IF l.head = null THEN drop(book[s], px) ELSE put(book[s], px, l)
  BY <1>2, <1>3
<1>6. LevelBecomes(s, px, head_after(p), tail_after(p))
  <2>1. CASE l.head = null
    <3>1. /\ DOMAIN book'[s] = DOMAIN book[s] \ {px}
          /\ \A q \in DOMAIN book'[s] : book'[s][q] = book[s][q]
      BY <1>5, <2>1 DEF drop
    <3> QED
      BY <1>4, <1>5, <2>1, <3>1 DEF LevelBecomes
  <2>2. CASE l.head # null
    <3>1. /\ DOMAIN book'[s] = DOMAIN book[s] \cup {px} /\ book'[s][px] = l
          /\ \A q \in DOMAIN book[s] : q # px => book'[s][q] = book[s][q]
      BY <1>5, <2>2 DEF put
    <3> QED
      BY <1>4, <1>5, <3>1 DEF LevelBecomes
  <2> QED
    BY <2>1, <2>2
<1>7. Leaves(p, s, px)
  BY <1>0, <1>2, <1>6 DEF Leaves
<1> QED
  BY <1>2, <1>7, LeavesBook

\* The order match looks at is the head of the level it is consuming.
LEMMA AtHead ==
    ASSUME BookInv, live \subseteq Slot, meets_order
    PROVE  /\ o \in live /\ opp \in Side /\ it \in DOMAIN book[opp] /\ o = book[opp][it].head
           /\ mem[o].side = opp /\ mem[o].price = it /\ mem[o].prev = null
           /\ mem[o] \in OrderRec /\ mem[o].next \in live \cup {null}
           /\ ~stopped /\ filled # want /\ pc = "inner"
<1>1. /\ pc = "inner" /\ ~stopped /\ filled # want /\ o # null
  BY DEF meets_order, level_ended
<1>2. /\ o \in live /\ it \in DOMAIN book[opp] /\ o = book[opp][it].head /\ opp \in Side
  BY <1>1 DEF BookInv, MatchSound, lvl, opp, opposite_book, Side
<1>3. ended(opp, it)
  BY <1>2 DEF BookInv, ListsSound
<1>4. /\ mem[o].side = opp /\ mem[o].price = it /\ mem[o].prev = null
  BY <1>1, <1>2, <1>3 DEF ended
<1>5. mem[o] \in OrderRec /\ mem[o].next \in live \cup {null}
  BY <1>2 DEF BookInv, BookTyped, ListsSound, linked
<1> QED
  BY <1>1, <1>2, <1>4, <1>5

\* The maker is used up or killed: the next one is the new head, and the
\* level stays in the map until EndLevel, empty or not.
LEMMA ConsumeBook ==
    ASSUME BookInv, live \subseteq Slot, meets_order, take_off(o), NEW l,
           l.head = mem[o].next /\ l.tail = tail_after(o) /\ l \in LevelRec,
           book' = [book EXCEPT ![opp][it] = l]
    PROVE  /\ BookTyped' /\ Indexed' /\ ListsSound'
           /\ DOMAIN orders_' \subseteq DOMAIN orders_
           /\ it \in DOMAIN book'[opp] /\ book'[opp][it].head = mem[o].next
           /\ mem[o].next \in live' \cup {null}
<1>0. PICK p, s, px : p = o /\ s = opp /\ px = it
  OBVIOUS
<1>1. /\ p \in live /\ s \in Side /\ px \in DOMAIN book[s] /\ mem[p].side = s /\ mem[p].price = px
      /\ mem[p].prev = null /\ mem[p].next \in live \cup {null}
  BY <1>0, AtHead
<1>2. /\ mem' = unlinked(p) /\ orders_' = drop(orders_, mem[p].id) /\ live' = live \ {p}
      /\ book' = [book EXCEPT ![s][px] = l] /\ BookTyped /\ Indexed /\ ListsSound
  BY <1>0 DEF take_off, destroy, BookInv
<1>3. /\ DOMAIN book' = Side /\ \A u \in Side \ {s} : book'[u] = book[u]
      /\ DOMAIN book'[s] = DOMAIN book[s] /\ book'[s][px] = l
      /\ \A q \in DOMAIN book[s] : q # px => book'[s][q] = book[s][q]
  BY <1>1, <1>2 DEF BookTyped
<1>4. l.head = head_after(p) /\ l.tail = tail_after(p)
  BY <1>0, <1>1 DEF head_after
<1>5. LevelBecomes(s, px, head_after(p), tail_after(p))
  BY <1>1, <1>3, <1>4 DEF LevelBecomes
<1>6. Leaves(p, s, px)
  BY <1>1, <1>2, <1>5 DEF Leaves
<1>7. /\ BookTyped' /\ Indexed' /\ ListsSound'
      /\ DOMAIN orders_' = DOMAIN orders_ \ {mem[p].id}
  BY <1>2, <1>6, LeavesBook
<1>8. mem[p].next # p
  BY <1>1, <1>2, Around
<1> QED
  BY <1>0, <1>1, <1>2, <1>3, <1>7, <1>8

\* What is left of a level when its head o is unlinked.
LEMMA ConsumedLevel ==
    ASSUME BookInv, live \subseteq Slot, meets_order, NEW b \in LevelRec, NEW left \in Int,
           b.head = lvl.head, b.tail = lvl.tail
    PROVE  LET l == unlink(b, o, left)
           IN  l.head = mem[o].next /\ l.tail = tail_after(o) /\ l \in LevelRec
<1>0. PICK l : l = unlink(b, o, left)
  OBVIOUS
<1>1. /\ mem[o].prev = null /\ mem[o] \in OrderRec /\ mem[o].side = opp /\ mem[o].price = it
  BY AtHead
<1>2. b.tail = book[mem[o].side][mem[o].price].tail
  BY <1>1 DEF lvl
<1>3. b.head \in Link /\ b.tail \in Link /\ b.total_qty \in Int /\ b.count \in Int
  BY DEF LevelRec
<1>4. mem[o].prev \in Link /\ mem[o].next \in Link
  BY <1>1 DEF OrderRec
<1>5. b.total_qty - left \in Int /\ b.count - 1 \in Int
  BY <1>3
<1>6. l \in LevelRec
  BY <1>0, <1>3, <1>4, <1>5 DEF unlink, LevelRec
<1>7. l.head = mem[o].next /\ l.tail = tail_after(o)
  BY <1>0, <1>1, <1>2 DEF unlink, tail_after
<1> QED
  BY <1>0, <1>6, <1>7

-----------------------------------------------------------------------------
(* Every step of the engine keeps pool and book sound *)

StorageInv == IInv /\ BookInv

\* What the engine does to the pool is what the pool expects of its caller.
LEMMA PoolKept ==
    ASSUME IInv, \/ UNCHANGED pool_
                 \/ create_recycled \/ create_fresh \/ create_grown
                 \/ \E p \in live : destroy(p)
    PROVE  IInv'
<1>1. [Next]_vars
  BY DEF Next, vars, pool_
<1> QED
  BY <1>1, Inductive

\* The pool and the book of a step that changes neither.
LEMMA NothingMoves ==
    ASSUME StorageInv, UNCHANGED <<pool_, levels>>
    PROVE  IInv' /\ BookTyped' /\ Indexed' /\ ListsSound' /\ orders_' = orders_ /\ live' = live
<1>1. live' = live /\ orders_' = orders_ /\ UNCHANGED <<live, levels>>
  BY DEF pool_, history, levels
<1>2. live \subseteq Slot /\ BookTyped /\ Indexed /\ ListsSound
  BY IdleSlots DEF StorageInv, IInv, BookInv
<1>3. Stays
  BY <1>1, <1>2, UnchangedStays
<1> QED
  BY <1>1, <1>2, <1>3, StaysBook, PoolKept DEF StorageInv

\* submit_limit and submit_market look, and go on to match or return.
LEMMA Step_submit ==
    ASSUME StorageInv, NEW c, c.id \in OrderId, c.side \in Side, c.qty \in Int, c.owner \in Owner,
           c.kind # "market" => c.px \in PriceArg,
           submit_limit(c) \/ submit_market(c)
    PROVE  StorageInv'
<1>1. IInv' /\ BookTyped' /\ Indexed' /\ ListsSound' /\ orders_' = orders_
  BY NothingMoves DEF submit_limit, submit_market
<1>2. /\ op' = c /\ filled' = filled /\ filled \in Int
      /\ pc' = "done" \/ (pc' = "outer" /\ c.id \notin DOMAIN orders_)
  <2>1. filled \in Int
    BY DEF StorageInv, BookInv, MatchSound
  <2>2. \/ \E r : Return(c, r)
        \/ EnterMatch(c) /\ c.id \notin DOMAIN orders_
    <3>1. CASE submit_limit(c)
      <4>1. PICK r : r = [NoResult EXCEPT !.rejected = TRUE]
        OBVIOUS
      <4>2. CASE c.id \in DOMAIN orders_
        BY <3>1, <4>1, <4>2 DEF submit_limit
      <4>3. CASE c.id \notin DOMAIN orders_
        BY <3>1, <4>1, <4>3 DEF submit_limit
      <4> QED
        BY <4>2, <4>3
    <3>2. CASE submit_market(c)
      BY <3>2 DEF submit_market
    <3> QED
      BY <3>1, <3>2
  <2> QED
    BY <2>1, <2>2 DEF Return, EnterMatch
<1>3. MatchSound'
  BY <1>1, <1>2 DEF MatchSound
<1> QED
  BY <1>1, <1>3 DEF StorageInv, BookInv

\* The fields of a call that is made up of NoCall.
LEMMA CancelCall ==
    ASSUME NEW id, NEW k
    PROVE  LET c == [NoCall EXCEPT !.kind = k, !.id = id]
           IN  c.side \in Side /\ c.qty \in Int /\ c.owner \in Owner
  BY OwnerAssumption DEF NoCall, Side

LEMMA Step_cancel ==
    ASSUME StorageInv, NEW id \in OrderId, cancel(id)
    PROVE  StorageInv'
<1>0. live \subseteq Slot /\ BookTyped /\ Indexed /\ ListsSound /\ MatchSound /\ IInv
  BY IdleSlots DEF StorageInv, IInv, BookInv
<1>1. pc' = "done" /\ filled' = filled /\ op' = [NoCall EXCEPT !.kind = "cancel", !.id = id]
  BY DEF cancel, Return
<1>2. MatchSound'
  BY <1>0, <1>1, CancelCall DEF MatchSound
<1>3. IInv' /\ BookTyped' /\ Indexed' /\ ListsSound'
  <2>1. CASE id \in DOMAIN orders_
    <3>1. PICK p \in live : p = orders_[id]
      BY <1>0, <2>1 DEF Indexed
    <3>2. remove_from_book(p)
      BY <2>1, <3>1 DEF cancel
    <3>3. destroy(p)
      BY <3>2 DEF remove_from_book, take_off
    <3>4. IInv'
      BY <1>0, <3>3, PoolKept
    <3> QED
      BY <1>0, <3>2, <3>4, RemoveBook
  <2>2. CASE id \notin DOMAIN orders_
    BY <2>2, NothingMoves DEF cancel
  <2> QED
    BY <2>1, <2>2
<1> QED
  BY <1>2, <1>3 DEF StorageInv, BookInv

\* modify: in place, or out of the book and through match like a new order.
LEMMA Step_modify ==
    ASSUME StorageInv, NEW id \in OrderId, NEW new_px \in PriceArg, NEW new_qty \in QtyArg,
           modify(id, new_px, new_qty)
    PROVE  StorageInv'
<1>0. live \subseteq Slot /\ BookTyped /\ Indexed /\ ListsSound /\ MatchSound /\ IInv
  BY IdleSlots DEF StorageInv, IInv, BookInv
<1>1. PICK c : c = [NoCall EXCEPT !.kind = "modify", !.id = id, !.px = new_px, !.qty = new_qty]
  OBVIOUS
<1>2. c.side \in Side /\ c.qty = new_qty /\ c.owner \in Owner /\ c.id = id /\ c.px = new_px
  BY <1>1, OwnerAssumption DEF NoCall, Side
<1>3. c.qty \in Int
  BY <1>2, ArgAssumption
<1>4. ASSUME Return(c, res'), IInv', BookTyped', Indexed', ListsSound' PROVE StorageInv'
  <2>1. MatchSound'
    BY <1>0, <1>2, <1>3, <1>4 DEF Return, MatchSound
  <2> QED
    BY <1>4, <2>1 DEF StorageInv, BookInv
<1>5. CASE id \notin DOMAIN orders_
  BY <1>1, <1>4, <1>5, NothingMoves DEF modify, Return
<1>6. CASE id \in DOMAIN orders_
  <2>1. PICK p \in live : p = orders_[id] /\ mem[p].id = id
    BY <1>0, <1>6 DEF Indexed
  <2>2. modify_found(c, p)
    BY <1>1, <1>6, <2>1 DEF modify
  <2>3. mem[p] \in OrderRec /\ p \in Slot
    BY <1>0 DEF BookTyped
  <2>4. CASE c.qty = 0 \/ c.px <= 0
    BY <1>4, <2>2, <2>4, NothingMoves DEF modify_found, Return
  <2>5. CASE ~(c.qty = 0 \/ c.px <= 0) /\ c.px = mem[p].price /\ c.qty <= mem[p].qty
    <3>0. PICK s, px, w : /\ s = mem[p].side /\ px = mem[p].price
                          /\ w = book[s][px].total_qty - (mem[p].qty - c.qty)
      OBVIOUS
    <3>1. /\ book' = [book EXCEPT ![s][px].total_qty = w] /\ mem' = [mem EXCEPT ![p].qty = c.qty]
          /\ orders_' = orders_ /\ UNCHANGED pool_ /\ Return(c, res')
      BY <2>2, <2>5, <3>0 DEF modify_found, Return
    <3>2. s \in Side /\ px \in DOMAIN book[s] /\ book[s][px] \in LevelRec
      BY <1>0, <3>0, Around DEF linked, BookTyped
    <3>3. w \in Int
      <4>1. book[s][px].total_qty \in Int /\ mem[p].qty \in Int
        BY <2>3, <3>2 DEF LevelRec, OrderRec
      <4> QED
        BY <1>3, <3>0, <4>1
    <3>4. live' = live
      BY <3>1 DEF pool_, history
    <3>5. Reduces(p, c.qty, s, px, w)
      BY <3>1 DEF Reduces
    <3>6. Stays
      BY <1>0, <1>3, <2>3, <3>1, <3>2, <3>3, <3>4, <3>5, ReducedStays
    <3> QED
      BY <1>0, <1>4, <3>1, <3>6, StaysBook, PoolKept
  <2>6. CASE ~(c.qty = 0 \/ c.px <= 0) /\ ~(c.px = mem[p].price /\ c.qty <= mem[p].qty)
    <3>0. PICK d : d = [c EXCEPT !.side = mem[p].side, !.owner = mem[p].owner]
      OBVIOUS
    <3>1. remove_from_book(p) /\ EnterMatch(d)
      BY <2>2, <2>6, <3>0 DEF modify_found
    <3>2. destroy(p)
      BY <3>1 DEF remove_from_book, take_off
    <3>3. IInv'
      BY <1>0, <3>2, PoolKept
    <3>4. /\ BookTyped' /\ Indexed' /\ ListsSound'
          /\ DOMAIN orders_' = DOMAIN orders_ \ {mem[p].id}
      BY <1>0, <3>1, RemoveBook
    <3>5. d.side \in Side /\ d.owner \in Owner /\ d.qty \in Int /\ d.id = id /\ d.px = new_px
      BY <1>1, <1>2, <1>3, <2>3, <3>0 DEF OrderRec, NoCall
    <3>6. MatchSound'
      BY <1>0, <2>1, <3>1, <3>4, <3>5 DEF EnterMatch, MatchSound
    <3> QED
      BY <3>3, <3>4, <3>6 DEF StorageInv, BookInv
  <2> QED
    BY <2>4, <2>5, <2>6
<1> QED
  BY <1>5, <1>6

LEMMA Step_NextLevel == ASSUME StorageInv, NextLevel PROVE StorageInv'
<1>1. /\ IInv' /\ BookTyped' /\ Indexed' /\ ListsSound'
      /\ live' = live /\ orders_' = orders_ /\ book' = book
  BY NothingMoves DEF NextLevel, levels
<1>2. /\ pc' = "inner" /\ it' = begin(opp) /\ o' = book[opp][it'].head
      /\ UNCHANGED <<op, filled, stopped>> /\ pc = "outer" /\ begin(opp) # kNoPrice
  BY DEF NextLevel, sweep_over
<1>3. BookTyped /\ ListsSound /\ MatchSound /\ opp \in Side
  BY DEF StorageInv, BookInv, MatchSound, opp, opposite_book, Side
<1>4. it' \in DOMAIN book[opp]
  BY <1>2, <1>3, BeginInMap
<1>5. o' \in live \cup {null}
  <2>1. ended(opp, it')
    BY <1>3, <1>4 DEF ListsSound
  <2> QED
    BY <1>2, <2>1 DEF ended
<1>6. opp' = opp /\ want' = want
  BY <1>2 DEF opp, want
<1>7. MatchSound'
  BY <1>1, <1>2, <1>3, <1>4, <1>5, <1>6 DEF MatchSound, lvl
<1> QED
  BY <1>1, <1>7 DEF StorageInv, BookInv

LEMMA Step_Stop == ASSUME StorageInv, Stop PROVE StorageInv'
<1>1. /\ IInv' /\ BookTyped' /\ Indexed' /\ ListsSound'
      /\ live' = live /\ orders_' = orders_ /\ book' = book
  BY NothingMoves DEF Stop, levels
<1>2. /\ stopped' = TRUE /\ UNCHANGED <<op, filled, pc, it, o>> /\ MatchSound
  BY DEF Stop, StorageInv, BookInv
<1>3. opp' = opp
  BY <1>2 DEF opp
<1>4. MatchSound'
  BY <1>1, <1>2, <1>3 DEF MatchSound
<1> QED
  BY <1>1, <1>4 DEF StorageInv, BookInv

\* The maker at the head goes, by a fill or by self-trade prevention, and the
\* loop goes on with the link it read before.
LEMMA Consumed ==
    ASSUME StorageInv, meets_order, take_off(o), NEW b \in LevelRec, NEW left \in Int,
           b.head = lvl.head, b.tail = lvl.tail,
           book' = [book EXCEPT ![opp][it] = unlink(b, o, left)],
           o' = next, UNCHANGED <<pc, op, stopped, it>>, filled' \in Int
    PROVE  StorageInv'
<1>0. BookInv /\ live \subseteq Slot /\ IInv /\ MatchSound
  BY IdleSlots DEF StorageInv, IInv, BookInv
<1>1. PICK l : l = unlink(b, o, left)
  OBVIOUS
<1>2. l.head = mem[o].next /\ l.tail = tail_after(o) /\ l \in LevelRec
  BY <1>0, <1>1, ConsumedLevel
<1>3. /\ BookTyped' /\ Indexed' /\ ListsSound'
      /\ DOMAIN orders_' \subseteq DOMAIN orders_
      /\ it \in DOMAIN book'[opp] /\ book'[opp][it].head = mem[o].next
      /\ mem[o].next \in live' \cup {null}
  BY <1>0, <1>1, <1>2, ConsumeBook
<1>4. o \in live /\ destroy(o) /\ pc = "inner"
  BY <1>0, AtHead DEF take_off
<1>5. IInv'
  BY <1>0, <1>4, PoolKept
<1>6. opp' = opp
  BY DEF opp
<1>7. MatchSound'
  BY <1>0, <1>3, <1>4, <1>6 DEF MatchSound, lvl, next
<1> QED
  BY <1>3, <1>5, <1>7 DEF StorageInv, BookInv

\* The level being consumed, as the loop finds it.
LEMMA LevelTyped ==
    ASSUME StorageInv, meets_order
    PROVE  /\ lvl \in LevelRec /\ mem[o].qty \in Int /\ remaining \in Int /\ filled \in Int
           /\ want \in Int /\ opp \in Side /\ it \in DOMAIN book[opp] /\ DOMAIN book = Side
<1>0. BookInv /\ live \subseteq Slot
  BY IdleSlots DEF StorageInv, IInv
<1>1. opp \in Side /\ it \in DOMAIN book[opp] /\ mem[o] \in OrderRec
  BY <1>0, AtHead
<1>2. lvl \in LevelRec /\ DOMAIN book = Side
  BY <1>0, <1>1 DEF BookInv, BookTyped, lvl
<1>3. mem[o].qty \in Int
  BY <1>1 DEF OrderRec
<1>4. op.qty \in Int /\ filled \in Int
  BY <1>0 DEF BookInv, MatchSound
<1> QED
  BY <1>1, <1>2, <1>3, <1>4 DEF remaining, want

LEMMA Step_Kill == ASSUME StorageInv, Kill PROVE StorageInv'
<1>1. /\ meets_order /\ take_off(o) /\ o' = next /\ UNCHANGED <<pc, op, filled, stopped, it>>
      /\ book' = [book EXCEPT ![opp][it] = unlink(book[opp][it], o, mem[o].qty)]
  BY DEF Kill
<1>2. lvl \in LevelRec /\ mem[o].qty \in Int /\ filled' \in Int
  BY <1>1, LevelTyped
<1>3. PICK b, left : b = lvl /\ left = mem[o].qty
  OBVIOUS
<1>4. book' = [book EXCEPT ![opp][it] = unlink(b, o, left)]
  BY <1>1, <1>3 DEF lvl
<1>5. b \in LevelRec /\ left \in Int /\ b.head = lvl.head /\ b.tail = lvl.tail
  BY <1>2, <1>3
<1> QED
  BY <1>1, <1>2, <1>4, <1>5, Consumed

LEMMA Step_FullFill == ASSUME StorageInv, FullFill PROVE StorageInv'
<1>1. /\ meets_order /\ take_off(o) /\ o' = next /\ UNCHANGED <<pc, op, stopped, it>>
      /\ book' = [book EXCEPT ![opp][it] = unlink(book[opp][it], o, mem[o].qty)]
      /\ filled' = filled + mem[o].qty
  BY DEF FullFill
<1>2. lvl \in LevelRec /\ mem[o].qty \in Int /\ filled' \in Int
  BY <1>1, LevelTyped
<1>3. PICK b, left : b = lvl /\ left = mem[o].qty
  OBVIOUS
<1>4. book' = [book EXCEPT ![opp][it] = unlink(b, o, left)]
  BY <1>1, <1>3 DEF lvl
<1>5. b \in LevelRec /\ left \in Int /\ b.head = lvl.head /\ b.tail = lvl.tail
  BY <1>2, <1>3
<1> QED
  BY <1>1, <1>2, <1>4, <1>5, Consumed

\* A maker that outlives the taker stays where it is.
LEMMA HeadReduced ==
    ASSUME StorageInv, meets_order, NEW take \in Int, UNCHANGED <<pool_, orders_>>,
           mem' = [mem EXCEPT ![o].qty = mem[o].qty - take]
             /\ book' = [book EXCEPT ![opp][it].total_qty = book[opp][it].total_qty - take]
    PROVE  Stays
<1>0. BookTyped /\ BookInv /\ live \subseteq Slot
  BY IdleSlots DEF StorageInv, IInv, BookInv
<1>1. PICK p, s, px, v, w : /\ p = o /\ s = opp /\ px = it /\ v = mem[o].qty - take
                            /\ w = book[opp][it].total_qty - take
  OBVIOUS
<1>2. /\ p \in Slot /\ s \in Side /\ px \in DOMAIN book[s] /\ mem[p] \in OrderRec
      /\ book[s][px] \in LevelRec
  BY <1>0, <1>1, AtHead DEF BookTyped
<1>3. v \in Int /\ w \in Int
  <2>1. book[s][px].total_qty \in Int /\ mem[p].qty \in Int
    BY <1>2 DEF LevelRec, OrderRec
  <2> QED
    BY <1>1, <2>1
<1>4. Reduces(p, v, s, px, w)
  BY <1>1 DEF Reduces
<1>5. live' = live /\ orders_' = orders_
  BY DEF pool_, history
<1> QED
  BY <1>0, <1>2, <1>3, <1>4, <1>5, ReducedStays

\* After such a fill the taker is done and the sweep is over.
LEMMA Reduced ==
    ASSUME StorageInv, meets_order, Stays, UNCHANGED <<pool_, pc, op, stopped, it>>,
           filled' = want, o' \in live \cup {null}
    PROVE  StorageInv'
<1>0. /\ BookInv /\ live \subseteq Slot /\ IInv /\ BookTyped /\ MatchSound /\ Indexed /\ ListsSound
  BY IdleSlots DEF StorageInv, IInv, BookInv
<1>1. /\ opp \in Side /\ it \in DOMAIN book[opp]
  BY <1>0, AtHead
<1>2. BookTyped' /\ Indexed' /\ ListsSound'
  BY <1>0, StaysBook
<1>3. IInv'
  BY <1>0, PoolKept
<1>4. opp' = opp /\ want' = want /\ pc = "inner" /\ live' = live
  BY DEF opp, want, meets_order, pool_, history
<1>5. MatchSound'
  BY <1>0, <1>1, <1>4 DEF MatchSound, Stays, want
<1> QED
  BY <1>2, <1>3, <1>5 DEF StorageInv, BookInv

LEMMA Step_PartialFill == ASSUME StorageInv, PartialFill PROVE StorageInv'
<1>1. /\ meets_order /\ mem' = [mem EXCEPT ![o].qty = mem[o].qty - remaining]
      /\ book' = [book EXCEPT ![opp][it].total_qty = book[opp][it].total_qty - remaining]
      /\ UNCHANGED <<pool_, orders_, pc, op, stopped, it>>
      /\ filled' = want /\ o' = o
  BY DEF PartialFill
<1>2. remaining \in Int
  BY <1>1, LevelTyped
<1>3. o \in live
  BY <1>1, IdleSlots, AtHead DEF StorageInv, IInv
<1>4. PICK take \in Int : take = remaining
  BY <1>2
<1>5. Stays
  BY <1>1, <1>4, HeadReduced
<1> QED
  BY <1>1, <1>3, <1>5, Reduced

\* v2's loop does the two with one piece of code; when the maker is not used
\* up, the taker is.
LEMMA Step_Fill == ASSUME StorageInv, Fill PROVE StorageInv'
<1>0. PICK take : take = Min({mem[o].qty, remaining})
  OBVIOUS
<1>1. meets_order /\ o' = next /\ filled' = filled + take /\ UNCHANGED <<pc, op, stopped, it>>
  BY <1>0 DEF Fill
<1>2. /\ lvl \in LevelRec /\ mem[o].qty \in Int /\ remaining \in Int /\ filled \in Int
      /\ want \in Int /\ opp \in Side /\ it \in DOMAIN book[opp] /\ DOMAIN book = Side
  BY <1>1, LevelTyped
<1>3. take \in {mem[o].qty, remaining}
  <2>1. PICK q, r : q = mem[o].qty /\ r = remaining
    OBVIOUS
  <2>2. \E x \in {q, r} : \A y \in {q, r} : x =< y
    BY <1>2, <2>1
  <2>3. Min({q, r}) \in {q, r}
    BY <2>2 DEF Min
  <2> QED
    BY <1>0, <2>1, <2>3
<1>4. take \in Int /\ filled' \in Int
  BY <1>1, <1>2, <1>3
<1>5. CASE mem[o].qty = take
  <2>1. PICK b : b = [lvl EXCEPT !.total_qty = lvl.total_qty - take]
    OBVIOUS
  <2>2. lvl.total_qty - take \in Int
    BY <1>2, <1>4 DEF LevelRec
  <2>3. b \in LevelRec /\ b.head = lvl.head /\ b.tail = lvl.tail
    BY <1>2, <2>1, <2>2 DEF LevelRec
  <2>4. take_off(o) /\ book' = [book EXCEPT ![opp][it] = unlink(b, o, 0)]
    <3>1. /\ take_off(o)
          /\ book' = [book EXCEPT ![opp][it] =
                unlink([lvl EXCEPT !.total_qty = lvl.total_qty - take], o, 0)]
      BY <1>0, <1>5 DEF Fill
    <3> QED
      BY <2>1, <3>1
  <2>5. PICK left \in Int : left = 0
    OBVIOUS
  <2>6. book' = [book EXCEPT ![opp][it] = unlink(b, o, left)]
    BY <2>4, <2>5
  <2> QED
    BY <1>1, <1>4, <2>3, <2>4, <2>5, <2>6, Consumed
<1>6. CASE mem[o].qty # take
  <2>1. take = remaining /\ filled' = want
    BY <1>1, <1>2, <1>3, <1>6 DEF remaining
  <2>2. /\ mem' = [mem EXCEPT ![o].qty = mem[o].qty - take]
        /\ book' = [book EXCEPT ![opp][it].total_qty = book[opp][it].total_qty - take]
        /\ UNCHANGED <<pool_, orders_>>
    BY <1>0, <1>6 DEF Fill
  <2>3. o' \in live \cup {null}
    BY <1>1, IdleSlots, AtHead DEF StorageInv, IInv, next
  <2>4. Stays
    BY <1>1, <1>4, <2>2, HeadReduced
  <2> QED
    BY <1>1, <2>1, <2>2, <2>3, <2>4, Reduced
<1> QED
  BY <1>5, <1>6

\* An emptied level leaves the map when the sweep is through with it.
LEMMA Step_EndLevel == ASSUME StorageInv, EndLevel PROVE StorageInv'
<1>0. /\ live \subseteq Slot /\ IInv /\ BookTyped /\ MatchSound /\ Indexed /\ ListsSound
  BY IdleSlots DEF StorageInv, IInv, BookInv
<1>1. /\ pc = "inner" /\ pc' = "outer" /\ UNCHANGED <<pool_, mem, orders_, op, filled, stopped>>
      /\ book' = IF lvl.head = null THEN [book EXCEPT ![opp] = drop(@, it)] ELSE book
  BY DEF EndLevel
<1>2. live' = live /\ mem' = mem /\ orders_' = orders_
  BY <1>1 DEF pool_, history
<1>3. opp \in Side /\ it \in DOMAIN book[opp]
  BY <1>0, <1>1 DEF MatchSound, opp, opposite_book, Side
<1>4. BookTyped' /\ Indexed' /\ ListsSound'
  <2>1. CASE lvl.head = null
    <3>1. PICK s, px : s = opp /\ px = it
      OBVIOUS
    <3>2. /\ s \in Side /\ px \in DOMAIN book[s] /\ book[s][px].head = null
          /\ book' = [book EXCEPT ![s] = drop(@, px)]
      BY <1>1, <1>3, <2>1, <3>1 DEF lvl
    <3> QED
      BY <1>0, <1>2, <3>2, DropsBook
  <2>2. CASE lvl.head # null
    <3>1. UNCHANGED <<live, levels>>
      BY <1>1, <1>2, <2>2 DEF levels
    <3>2. Stays
      BY <1>0, <3>1, UnchangedStays
    <3> QED
      BY <1>0, <3>2, StaysBook
  <2> QED
    BY <2>1, <2>2
<1>5. IInv'
  BY <1>0, <1>1, PoolKept
<1>6. MatchSound'
  BY <1>0, <1>1, <1>2 DEF MatchSound
<1> QED
  BY <1>4, <1>5, <1>6 DEF StorageInv, BookInv

\* What is left of a GTC order takes a slot and the place behind the others.
LEMMA Step_Finish == ASSUME StorageInv, Finish PROVE StorageInv'
<1>0. /\ live \subseteq Slot /\ IInv /\ BookTyped /\ MatchSound /\ Indexed /\ ListsSound
  BY IdleSlots DEF StorageInv, IInv, BookInv
<1>1. pc = "outer" /\ pc' = "done" /\ filled' = 0 /\ op' = op
  BY DEF Finish
<1>2. MatchSound'
  BY <1>0, <1>1 DEF MatchSound
<1>3. CASE rests
  <2>0. PICK p, s, id, px, qty, owner :
           p = raw_slot /\ s = op.side /\ id = op.id /\ px = op.px /\ qty = remaining /\ owner = op.owner
    OBVIOUS
  <2>1. rest(s, id, px, qty, owner)
    BY <1>3, <2>0 DEF Finish
  <2>2. create_recycled \/ create_fresh \/ create_grown
    BY <2>1 DEF rest
  <2>3. p \in Slot \ live /\ live' = live \cup {p} /\ IInv'
    BY <1>0, <2>0, <2>2, RawSlotUnused, PoolKept
  <2>4. /\ s \in Side /\ px \in PriceArg /\ id \in OrderId \ DOMAIN orders_ /\ owner \in Owner
        /\ qty \in Int
    <3>1. op.qty \in Int /\ filled \in Int /\ op.kind # "market"
      BY <1>0, <1>3 DEF MatchSound, rests
    <3>2. remaining \in Int
      BY <3>1 DEF remaining, want
    <3> QED
      BY <1>0, <1>1, <2>0, <3>1, <3>2 DEF MatchSound
  <2>5. Joins(p, s, id, px, qty, owner) /\ orders_' = put(orders_, id, p)
    BY <1>0, <2>0, <2>1, <2>3, <2>4 DEF rest, Joins, joined
  <2>6. BookTyped' /\ Indexed' /\ ListsSound'
    BY <1>0, <2>4, <2>5, JoinsBook
  <2> QED
    BY <1>2, <2>3, <2>6 DEF StorageInv, BookInv
<1>4. CASE ~rests
  <2>1. IInv' /\ BookTyped' /\ Indexed' /\ ListsSound'
    BY <1>4, NothingMoves DEF Finish
  <2> QED
    BY <1>2, <2>1 DEF StorageInv, BookInv
<1> QED
  BY <1>3, <1>4

LEMMA Step_Returned == ASSUME StorageInv, Returned PROVE StorageInv'
<1>1. IInv' /\ BookTyped' /\ Indexed' /\ ListsSound'
  BY NothingMoves DEF Returned
<1>2. pc' = "idle" /\ op' = NoCall /\ filled' = filled /\ filled \in Int
  BY DEF Returned, StorageInv, BookInv, MatchSound
<1>3. NoCall.side \in Side /\ NoCall.qty \in Int /\ NoCall.owner \in Owner
  BY OwnerAssumption DEF NoCall, Side
<1>4. MatchSound'
  BY <1>2, <1>3 DEF MatchSound
<1> QED
  BY <1>1, <1>4 DEF StorageInv, BookInv

LEMMA Step_Call == ASSUME StorageInv, Call PROVE StorageInv'
<1>1. ASSUME NEW id \in OrderId, NEW side \in Side, NEW px \in PriceArg, NEW qty \in QtyArg,
             NEW tif \in Tif, NEW owner \in Owner,
             submit_limit([kind |-> "limit", id |-> id, side |-> side, px |-> px, qty |-> qty,
                           tif |-> tif, owner |-> owner])
      PROVE  StorageInv'
  <2>1. PICK c : c = [kind |-> "limit", id |-> id, side |-> side, px |-> px, qty |-> qty,
                      tif |-> tif, owner |-> owner]
    OBVIOUS
  <2>2. /\ c.id \in OrderId /\ c.side \in Side /\ c.qty \in Int /\ c.owner \in Owner
        /\ c.px \in PriceArg
    BY <2>1, ArgAssumption
  <2> QED
    BY <1>1, <2>1, <2>2, Step_submit
<1>2. ASSUME NEW id \in OrderId, NEW side \in Side, NEW qty \in QtyArg, NEW owner \in Owner,
             submit_market([kind |-> "market", id |-> id, side |-> side, qty |-> qty, tif |-> "IOC",
                            px |-> IF side = "Bid" THEN kMaxPrice ELSE kMinPrice, owner |-> owner])
      PROVE  StorageInv'
  <2>1. PICK c : c = [kind |-> "market", id |-> id, side |-> side, qty |-> qty, tif |-> "IOC",
                      px |-> IF side = "Bid" THEN kMaxPrice ELSE kMinPrice, owner |-> owner]
    OBVIOUS
  <2>2. /\ c.id \in OrderId /\ c.side \in Side /\ c.qty \in Int /\ c.owner \in Owner
        /\ c.kind = "market"
    BY <2>1, ArgAssumption
  <2> QED
    BY <1>2, <2>1, <2>2, Step_submit
<1> QED
  BY <1>1, <1>2, Step_cancel, Step_modify DEF Call

LEMMA StorageInit == BookInit => StorageInv
<1> SUFFICES ASSUME BookInit PROVE StorageInv
  OBVIOUS
<1>1. IInv /\ live = {}
  BY InitIInv DEF BookInit, Init
<1>2. /\ mem = [x \in Slot |-> Dead] /\ DOMAIN orders_ = {} /\ DOMAIN book = Side
      /\ \A s \in Side : DOMAIN book[s] = {}
  BY DEF BookInit
<1>3. Dead \in OrderRec
  BY OwnerAssumption DEF Dead, OrderRec, Link, Side, kNoPrice
<1>4. BookTyped /\ Indexed
  BY <1>1, <1>2, <1>3 DEF BookTyped, Indexed
<1>5. Ranked
  <2>1. [x \in Slot |-> 0] \in [Slot -> Nat] /\ 0 \in Nat
    OBVIOUS
  <2> QED
    BY <1>1, <2>1 DEF Ranked
<1>6. ListsSound
  BY <1>1, <1>2, <1>5 DEF ListsSound
<1>7. MatchSound
  BY OwnerAssumption DEF BookInit, MatchSound, NoCall, Side
<1> QED
  BY <1>1, <1>4, <1>6, <1>7 DEF StorageInv, BookInv

LEMMA StorageInductive == StorageInv /\ [BookNext]_book_vars => StorageInv'
<1> SUFFICES ASSUME StorageInv, [BookNext]_book_vars PROVE StorageInv'
  OBVIOUS
<1>1. CASE BookNext
  BY <1>1, Step_Call, Step_NextLevel, Step_Stop, Step_Kill, Step_Fill, Step_PartialFill,
     Step_FullFill, Step_EndLevel, Step_Finish, Step_Returned DEF BookNext
<1>2. CASE UNCHANGED book_vars
  <2>1. UNCHANGED <<pool_, levels>> /\ UNCHANGED <<pc, op, filled, stopped, it, o>>
    BY <1>2 DEF book_vars
  <2>2. /\ IInv' /\ BookTyped' /\ Indexed' /\ ListsSound' /\ orders_' = orders_
        /\ live' = live /\ book' = book
    BY <2>1, NothingMoves DEF levels
  <2>3. MatchSound /\ opp' = opp /\ want' = want
    BY <2>1 DEF StorageInv, BookInv, opp, want
  <2>4. MatchSound'
    BY <2>1, <2>2, <2>3 DEF MatchSound, lvl
  <2> QED
    BY <2>2, <2>4 DEF StorageInv, BookInv
<1> QED
  BY <1>1, <1>2

LEMMA StorageInvariance == BookSpec => []StorageInv
  BY StorageInit, StorageInductive, PTL DEF BookSpec

\* Engines v2 to v4 never leak a slot and never follow a pointer to one that
\* was given back: the index, the links, the ends of the levels and the
\* pointer of the matching loop lead to live orders only, for any prices,
\* quantities, ids, owners and any size of the pool.
THEOREM StorageCorrect == BookSpec => []StorageExact
<1>1. StorageInv => StorageExact
  <2> SUFFICES ASSUME StorageInv PROVE StorageExact
    OBVIOUS
  <2>1. Indexed /\ ListsSound /\ MatchSound
    BY DEF StorageInv, BookInv
  <2>2. \A p \in live : {mem[p].next, mem[p].prev} \subseteq live \cup {null}
    BY <2>1 DEF ListsSound, linked
  <2>3. \A s \in Side : \A px \in DOMAIN book[s] :
           {book[s][px].head, book[s][px].tail} \subseteq live \cup {null}
    BY <2>1 DEF ListsSound, ended
  <2> QED
    BY <2>1, <2>2, <2>3 DEF StorageExact, Indexed, MatchSound
<1> QED
  BY <1>1, StorageInvariance, PTL

\* destroy is only ever called on a slot in use.
LEMMA UsesPool == StorageInv /\ [BookNext]_book_vars => [Next]_vars
<1> SUFFICES ASSUME StorageInv, [BookNext]_book_vars PROVE [Next]_vars
  OBVIOUS
<1>0. live \subseteq Slot /\ Indexed /\ BookInv
  BY IdleSlots DEF StorageInv, IInv, BookInv
<1>1. ASSUME UNCHANGED pool_ PROVE [Next]_vars
  BY <1>1 DEF vars, pool_
<1>2. ASSUME NEW p \in live, take_off(p) PROVE [Next]_vars
  BY <1>2 DEF take_off, Next
<1>3. ASSUME NEW id \in OrderId, cancel(id) PROVE [Next]_vars
  <2>1. CASE id \in DOMAIN orders_
    <3>1. PICK p \in live : p = orders_[id]
      BY <1>0, <2>1 DEF Indexed
    <3> QED
      BY <1>2, <1>3, <2>1, <3>1 DEF cancel, remove_from_book
  <2>2. CASE id \notin DOMAIN orders_
    BY <1>1, <1>3, <2>2 DEF cancel
  <2> QED
    BY <2>1, <2>2
<1>4. ASSUME NEW id \in OrderId, NEW new_px \in PriceArg, NEW new_qty \in QtyArg,
             modify(id, new_px, new_qty)
      PROVE  [Next]_vars
  <2>1. PICK c : c = [NoCall EXCEPT !.kind = "modify", !.id = id, !.px = new_px, !.qty = new_qty]
    OBVIOUS
  <2>2. CASE id \in DOMAIN orders_
    <3>1. PICK p \in live : p = orders_[id]
      BY <1>0, <2>2 DEF Indexed
    <3>2. modify_found(c, p)
      BY <1>4, <2>1, <2>2, <3>1 DEF modify
    <3>3. UNCHANGED pool_ \/ take_off(p)
      BY <3>2 DEF modify_found, remove_from_book
    <3> QED
      BY <1>1, <1>2, <3>3
  <2>3. CASE id \notin DOMAIN orders_
    BY <1>1, <1>4, <2>3 DEF modify
  <2> QED
    BY <2>2, <2>3
<1>5. ASSUME Call PROVE [Next]_vars
  <2>1. ASSUME NEW c, submit_limit(c) \/ submit_market(c) PROVE [Next]_vars
    BY <1>1, <2>1 DEF submit_limit, submit_market
  <2> QED
    BY <1>3, <1>4, <1>5, <2>1 DEF Call
<1>6. ASSUME Kill \/ Fill \/ FullFill PROVE [Next]_vars
  <2>1. meets_order
    BY <1>6 DEF Kill, Fill, FullFill
  <2>2. o \in live
    BY <1>0, <2>1, AtHead
  <2>3. take_off(o) \/ UNCHANGED pool_
    BY <1>6 DEF Kill, Fill, FullFill
  <2>4. PICK p \in live : p = o
    BY <2>2
  <2> QED
    BY <1>1, <1>2, <2>3, <2>4
<1>7. ASSUME Finish PROVE [Next]_vars
  <2>1. UNCHANGED pool_ \/ create_recycled \/ create_fresh \/ create_grown
    BY <1>7 DEF Finish, rest
  <2> QED
    BY <1>1, <2>1 DEF Next
<1>8. ASSUME NextLevel \/ Stop \/ PartialFill \/ EndLevel \/ Returned \/ UNCHANGED book_vars
      PROVE  [Next]_vars
  <2>1. UNCHANGED pool_
    BY <1>8 DEF NextLevel, Stop, PartialFill, EndLevel, Returned, book_vars
  <2> QED
    BY <1>1, <2>1
<1> QED
  BY <1>5, <1>6, <1>7, <1>8 DEF BookNext

\* The engines keep to the pool's contract: every step they take is a step of
\* the pool or none of its business, so they never free a slot twice or one
\* that was never handed out, and all that is proved of the pool holds here.
THEOREM EnginesImplementPool == BookSpec => Spec
<1>1. BookInit => Init
  BY DEF BookInit
<1> QED
  BY <1>1, StorageInvariance, UsesPool, PTL DEF BookSpec, Spec

\* The free list is exact in the hands of these engines, and the pool grows
\* under them only when every slot holds a resting order.
THEOREM PooledFreeListCorrect == BookSpec => []FreeListExact /\ GrowsOnlyWhenFull
  BY EnginesImplementPool, FreeListCorrect, GrowthIsLastResort, PTL
=============================================================================
