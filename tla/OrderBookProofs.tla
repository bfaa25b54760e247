-------------------------- MODULE OrderBookProofs --------------------------
(***************************************************************************)
(* The engine's safety properties for every set of ids and owners, every   *)
(* band, quantity bound, self-trade policy and protection.  The inductive  *)
(* invariant IInv joins what check_invariants audits between calls with    *)
(* what holds in the middle of one: the arrival order behind the linked    *)
(* lists (ArrivalOrder), the locals of match (SweepSound) and the gap      *)
(* between the two sides that lets a remainder rest without crossing.      *)
(***************************************************************************)
EXTENDS OrderBook, TLAPS, WellFoundedInduction, FiniteSetTheorems

\* A nonempty set of naturals has a least element.
LEMMA NatMin ==
    ASSUME NEW T \in SUBSET Nat, T # {}
    PROVE  \E x \in T : \A y \in T : x <= y
<1> DEFINE R == OpToRel(<, Nat)
<1>1. \A x, y \in Nat : y < x => <<y, x>> \in R
  BY DEF OpToRel
<1>2. IsWellFoundedOn(R, Nat)
  BY NatLessThanWellFounded
<1> HIDE DEF R
<1>3. PICK x \in T : \A y \in T : ~(<<y, x>> \in R)
  BY <1>2, WFMin
<1>4. \A y \in T : ~(y < x) /\ y \in Nat /\ x \in Nat
  BY <1>1, <1>3
<1> QED
  BY <1>4

\* A nonempty set of ticks has a best one, on either side.
LEMMA BestOf ==
    ASSUME NEW s \in Side, NEW T \in SUBSET Price, T # {}
    PROVE  \E x \in T : \A y \in T : ~better(s, y, x)
<1>1. CASE s = "Ask"
  <2>1. T \subseteq Nat
    BY BandAssumption DEF Price
  <2>2. PICK x \in T : \A y \in T : x <= y
    BY <2>1, NatMin
  <2> QED
    BY <1>1, <2>1, <2>2 DEF better
<1>2. CASE s = "Bid"
  <2> DEFINE D == {band_hi - p : p \in T}
  <2>1. D \subseteq Nat /\ D # {}
    <3>1. \A p \in T : band_hi - p \in Nat
      BY BandAssumption DEF Price
    <3> QED
      BY <3>1
  <2>2. PICK d \in D : \A e \in D : d <= e
    BY <2>1, NatMin
  <2>3. PICK x \in T : d = band_hi - x
    OBVIOUS
  <2>4. \A y \in T : y <= x
    BY <2>2, <2>3, BandAssumption DEF Price
  <2> QED
    BY <1>2, <2>4, BandAssumption DEF better, Price
<1> QED
  BY <1>1, <1>2 DEF Side

\* scan_worse returns the best of the occupied ticks worse than `from', or
\* kNoPrice when there is none.
LEMMA ScanWorse ==
    ASSUME NEW s \in Side, NEW from, NEW B \in SUBSET Price
    PROVE  LET r == scan_worse(s, from, B)
           IN  IF \E p \in B : better(s, from, p)
               THEN r \in B /\ better(s, from, r)
                    /\ \A q \in B : better(s, from, q) => ~better(s, q, r)
               ELSE r = kNoPrice
<1> DEFINE worse == {p \in B : better(s, from, p)}
<1>1. CASE worse = {}
  BY <1>1 DEF scan_worse
<1>2. CASE worse # {}
  <2>1. \E x \in worse : \A y \in worse : ~better(s, y, x)
    BY <1>2, BestOf
  <2> QED
    BY <1>2, <2>1 DEF scan_worse
<1> QED
  BY <1>1, <1>2

TakenOff(s, p, o) ==
    /\ BookTypeOK /\ ArrivalOrder /\ ListsAreFifo
    /\ o \in pool /\ s = mem[o].side /\ p = mem[o].price
    /\ take_off(s, p, o)

\* What take_off does to the fields of the other orders and to the levels.
LEMMA TakeOffFields ==
    ASSUME NEW s, NEW p, NEW o, TakenOff(s, p, o)
    PROVE  /\ s \in Side /\ p \in Price /\ o \in OrderId
           /\ \A x \in OrderId \ {o} :
                 /\ mem'[x].side = mem[x].side /\ mem'[x].price = mem[x].price
                 /\ mem'[x].qty = mem[x].qty /\ mem'[x].owner = mem[x].owner
                 /\ mem'[x].next = IF x = mem[o].prev THEN mem[o].next ELSE mem[x].next
                 /\ mem'[x].prev = IF x = mem[o].next THEN mem[o].prev ELSE mem[x].prev
                 /\ older'[x] = older[x] \ {o}
           /\ \A t \in Side, q \in Price : members(t, q)' = members(t, q) \ {o}
           /\ pool' = pool \ {o} /\ index' = index \ {o}
           /\ \A t \in Side, q \in Price :
                 /\ (t # s \/ q # p) => level'[t][q] = level[t][q]
           /\ level'[s][p] = unlink_level(level[s][p], o)
<1> USE DEF TakenOff
<1>1. s \in Side /\ p \in Price /\ o \in OrderId
  BY DEF BookTypeOK, Order
<1>2. \A x \in OrderId \ {o} :
                 /\ mem'[x].side = mem[x].side /\ mem'[x].price = mem[x].price
                 /\ mem'[x].qty = mem[x].qty /\ mem'[x].owner = mem[x].owner
                 /\ mem'[x].next = IF x = mem[o].prev THEN mem[o].next ELSE mem[x].next
                 /\ mem'[x].prev = IF x = mem[o].next THEN mem[o].prev ELSE mem[x].prev
                 /\ older'[x] = older[x] \ {o}
  BY DEF take_off, unlink_mem, BookTypeOK, Order
<1>3. pool' = pool \ {o} /\ index' = index \ {o}
  BY DEF take_off
<1>4. \A t \in Side, q \in Price : members(t, q)' = members(t, q) \ {o}
  BY <1>2, <1>3 DEF members, BookTypeOK
<1>5. \A t \in Side, q \in Price : (t # s \/ q # p) => level'[t][q] = level[t][q]
  BY <1>1 DEF take_off, BookTypeOK
<1>6. level'[s][p] = unlink_level(level[s][p], o)
  BY <1>1 DEF take_off, BookTypeOK
<1> QED
  BY <1>1, <1>2, <1>3, <1>4, <1>5, <1>6

\* take_off keeps the types of the book.
LEMMA TakeOffTypes ==
    ASSUME NEW s, NEW p, NEW o, TakenOff(s, p, o)
    PROVE  /\ mem' \in [OrderId -> Order]
           /\ pool' \subseteq OrderId /\ index' \subseteq OrderId
           /\ level' \in [Side -> [Price -> Level]]
           /\ older' \in [OrderId -> SUBSET OrderId]
<1> USE DEF TakenOff
<1>1. mem' \in [OrderId -> Order]
  <2>1. Freed \in Order
    BY OwnerAssumption, BandAssumption, QtyAssumption DEF Freed, Order, Ptr, Price, Qty, Side
  <2> QED
    BY <2>1 DEF take_off, unlink_mem, BookTypeOK, Order
<1>2. pool' \subseteq OrderId /\ index' \subseteq OrderId
  BY DEF take_off, BookTypeOK
<1>3. level' \in [Side -> [Price -> Level]]
  <2>1. o \in OrderId /\ s \in Side /\ p \in Price
    BY DEF BookTypeOK, Order
  <2>2. unlink_level(level[s][p], o) \in Level
    BY <2>1, QtyAssumption DEF unlink_level, BookTypeOK, Order, Level, Qty
  <2> QED
    BY <2>1, <2>2 DEF take_off, BookTypeOK
<1>4. older' \in [OrderId -> SUBSET OrderId]
  BY DEF take_off, BookTypeOK
<1> QED
  BY <1>1, <1>2, <1>3, <1>4

\* A live order is a member of its level, and its neighbours are too.
LEMMA NodeFacts ==
    ASSUME BookTypeOK, ArrivalOrder, ListsAreFifo, NEW x \in pool
    PROVE  /\ x \in OrderId /\ mem[x].side \in Side /\ mem[x].price \in Price
           /\ x \in members(mem[x].side, mem[x].price)
           /\ members(mem[x].side, mem[x].price) # {}
           /\ ends_sound(mem[x].side, mem[x].price)
           /\ node_sound(x)
<1>1. x \in OrderId /\ mem[x].side \in Side /\ mem[x].price \in Price
  BY DEF BookTypeOK, Order
<1> QED
  BY <1>1 DEF ListsAreFifo, members

\* The successor of a live order is live and links back to it.
LEMMA NextHasPrev ==
    ASSUME BookTypeOK, ArrivalOrder, ListsAreFifo, NEW x \in pool, mem[x].next # nil
    PROVE  mem[x].next \in pool /\ mem[mem[x].next].prev = x
           /\ mem[mem[x].next].side = mem[x].side /\ mem[mem[x].next].price = mem[x].price
<1> DEFINE y == mem[x].next
<1>1. y \in members(mem[x].side, mem[x].price) /\ older[y] = older[x] \cup {x}
  BY NodeFacts DEF node_sound
<1>2. y \in pool /\ mem[y].side = mem[x].side /\ mem[y].price = mem[x].price
  BY <1>1 DEF members
<1> HIDE DEF y
<1> DEFINE q == mem[y].prev
<1>3. q # nil
  <2>1. older[y] # {}
    BY <1>1
  <2> QED
    BY <1>2, <2>1, NodeFacts DEF node_sound, ends_sound
<1>4. q \in members(mem[y].side, mem[y].price) /\ older[y] = older[q] \cup {q}
  BY <1>2, <1>3, NodeFacts DEF node_sound
<1>5. q \in pool /\ q \in members(mem[x].side, mem[x].price)
  BY <1>2, <1>4 DEF members
<1>6. q = x
  BY <1>1, <1>4, <1>5 DEF ArrivalOrder
<1> QED
  BY <1>2, <1>6 DEF y

\* The predecessor of a live order is live and links forward to it.
LEMMA PrevHasNext ==
    ASSUME BookTypeOK, ArrivalOrder, ListsAreFifo, NEW x \in pool, mem[x].prev # nil
    PROVE  mem[x].prev \in pool /\ mem[mem[x].prev].next = x
           /\ mem[mem[x].prev].side = mem[x].side /\ mem[mem[x].prev].price = mem[x].price
<1> DEFINE y == mem[x].prev
<1>1. y \in members(mem[x].side, mem[x].price) /\ older[x] = older[y] \cup {y}
  BY NodeFacts DEF node_sound
<1>2. y \in pool /\ mem[y].side = mem[x].side /\ mem[y].price = mem[x].price
  BY <1>1 DEF members
<1> HIDE DEF y
<1> DEFINE n == mem[y].next
<1>a. y \notin older[y] /\ x \notin older[x]
  BY <1>2 DEF ArrivalOrder
<1>3. n # nil
  <2>1. SUFFICES ASSUME n = nil PROVE FALSE
    OBVIOUS
  <2>2. y = level[mem[x].side][mem[x].price].tail
    BY <1>2, <2>1, NodeFacts DEF node_sound
  <2>3. x \in older[y]
    BY <1>1, <1>2, <1>a, <2>2, NodeFacts DEF ends_sound
  <2> QED
    BY <1>1, <1>2, <1>a, <2>3, NodeFacts DEF ArrivalOrder
<1>4. n \in members(mem[y].side, mem[y].price) /\ older[n] = older[y] \cup {y}
  BY <1>2, <1>3, NodeFacts DEF node_sound
<1>5. n \in pool /\ n \in members(mem[x].side, mem[x].price)
  BY <1>2, <1>4 DEF members
<1>6. n = x
  <2>1. older[n] = older[x] /\ n \notin older[n]
    BY <1>1, <1>4, <1>5 DEF ArrivalOrder
  <2> QED
    BY <1>5, <2>1, <1>a DEF ArrivalOrder
<1> QED
  BY <1>2, <1>6 DEF y

\* Taking an order off leaves the arrival order of the others intact.
LEMMA TakeOffOrder ==
    ASSUME NEW s, NEW p, NEW o, TakenOff(s, p, o)
    PROVE  ArrivalOrder'
<1>1. BookTypeOK /\ ArrivalOrder
  BY DEF TakenOff
<1>2. \A x \in pool' : x \in pool /\ x # o /\ x \in OrderId /\ older'[x] = older[x] \ {o}
          /\ mem'[x].side = mem[x].side /\ mem'[x].price = mem[x].price
          /\ mem[x].side \in Side /\ mem[x].price \in Price
  BY <1>1, TakeOffFields DEF BookTypeOK, Order
<1>3. \A t \in Side, q \in Price : members(t, q)' = members(t, q) \ {o}
  BY TakeOffFields
<1>4. \A x \in pool' :
          members(mem[x].side, mem[x].price)' = members(mem[x].side, mem[x].price) \ {o}
  BY <1>2, <1>3 DEF members
<1>5. \A x \in pool' : older'[x] \subseteq members(mem[x].side, mem[x].price)' \ {x}
  BY <1>1, <1>2, <1>4 DEF ArrivalOrder
<1>6. \A x, y \in pool' : x # y /\ y \in members(mem[x].side, mem[x].price)'
            => (x \in older'[y] <=> y \notin older'[x])
  BY <1>1, <1>2, <1>4 DEF ArrivalOrder
<1>7. \A x, y \in pool' : y \in older'[x] => older'[y] \subseteq older'[x]
  BY <1>1, <1>2 DEF ArrivalOrder
<1> QED
  BY <1>5, <1>6, <1>7 DEF ArrivalOrder

\* After unlink, head and tail are again the oldest and the newest order.
LEMMA TakeOffEnds ==
    ASSUME NEW s, NEW p, NEW o, TakenOff(s, p, o), NEW t \in Side, NEW q \in Price
    PROVE  ends_sound(t, q)'
<1>1. BookTypeOK /\ ArrivalOrder /\ ListsAreFifo /\ o \in pool
        /\ s = mem[o].side /\ p = mem[o].price
  BY DEF TakenOff
<1>2. s \in Side /\ p \in Price /\ o \in OrderId
  BY TakeOffFields
<1> DEFINE M == members(t, q)
<1>3. members(t, q)' = M \ {o}
  BY TakeOffFields
<1>4. \A x \in M : x \in pool /\ x \in OrderId /\ x \notin older[x] /\ older[x] \subseteq M
  BY <1>1 DEF members, ArrivalOrder, BookTypeOK
<1>5. \A x \in M \ {o} : older'[x] = older[x] \ {o}
  BY <1>4, TakeOffFields
<1>6. ends_sound(t, q)
  BY <1>1 DEF ListsAreFifo
<1>7. CASE t # s \/ q # p
  <2>1. o \notin M
    BY <1>1, <1>7 DEF members
  <2>2. level'[t][q] = level[t][q]
    BY <1>7, TakeOffFields
  <2> QED
    BY <1>3, <1>4, <1>5, <1>6, <2>1, <2>2 DEF ends_sound
<1>8. CASE t = s /\ q = p
  <2> DEFINE l == level[s][p]  l1 == level'[s][p]  n == mem[o].next  v == mem[o].prev
  <2>1. /\ l1.head = IF v = nil THEN n ELSE l.head
        /\ l1.tail = IF n = nil THEN v ELSE l.tail
    <3>1. l1 = unlink_level(l, o)
      BY TakeOffFields
    <3> QED
      BY <3>1 DEF unlink_level
  <2>2. /\ IF n = nil THEN o = l.tail ELSE n \in M /\ older[n] = older[o] \cup {o}
        /\ IF v = nil THEN o = l.head ELSE v \in M /\ older[o] = older[v] \cup {v}
    BY <1>1, <1>8, NodeFacts DEF node_sound
  <2>3. o \in M /\ l.head \in M /\ older[l.head] = {} /\ l.tail \in M /\ older[l.tail] = M \ {l.tail}
    BY <1>1, <1>6, <1>8, NodeFacts DEF ends_sound
  <2>x. nil \notin M
    BY <1>4, NilAssumption
  <2> HIDE DEF l, l1, n, v, M
  <2>4. CASE M \ {o} = {}
    <3>1. n = nil /\ v = nil
      BY <1>4, <2>2, <2>3, <2>4
    <3> QED
      BY <1>3, <1>8, <2>1, <2>4, <3>1 DEF ends_sound, l1
  <2>5. CASE M \ {o} # {}
    <3>1. l1.head \in M \ {o} /\ older[l1.head] \subseteq {o}
      BY <1>4, <2>1, <2>2, <2>3, <2>5, <2>x
    <3>2. l1.tail \in M \ {o} /\ older[l1.tail] \ {o} = (M \ {o}) \ {l1.tail}
      BY <1>4, <2>1, <2>2, <2>3, <2>5, <2>x
    <3>3. older'[l1.head] = {} /\ older'[l1.tail] = (M \ {o}) \ {l1.tail}
      BY <1>5, <3>1, <3>2
    <3> QED
      BY <1>3, <1>8, <2>5, <3>1, <3>2, <3>3 DEF ends_sound, l1
  <2> QED
    BY <2>4, <2>5
<1> QED
  BY <1>7, <1>8

\* After unlink, every remaining order is again linked to its neighbours.
LEMMA TakeOffNodes ==
    ASSUME NEW s, NEW p, NEW o, TakenOff(s, p, o), NEW x \in pool'
    PROVE  node_sound(x)'
<1>1. BookTypeOK /\ ArrivalOrder /\ ListsAreFifo /\ o \in pool
        /\ s = mem[o].side /\ p = mem[o].price
  BY DEF TakenOff
<1>2. s \in Side /\ p \in Price /\ o \in OrderId
  BY TakeOffFields
<1>3. x \in pool /\ x # o /\ x \in OrderId
  BY <1>1, TakeOffFields DEF BookTypeOK
<1> DEFINE t == mem[x].side  q == mem[x].price  M == members(t, q)
           n == mem[x].next  v == mem[x].prev
           on == mem[o].next  ov == mem[o].prev
           l == level[t][q]   l1 == level'[t][q]
<1>4. t \in Side /\ q \in Price /\ x \in M
  BY <1>1, <1>3, NodeFacts
<1>5. /\ mem'[x].side = t /\ mem'[x].price = q /\ mem'[x].qty = mem[x].qty
      /\ mem'[x].next = IF x = ov THEN on ELSE n
      /\ mem'[x].prev = IF x = on THEN ov ELSE v
  BY <1>3, TakeOffFields
<1>6. members(mem[x].side, mem[x].price)' = M \ {o}
  <2>1. \A tt \in Side, qq \in Price : members(tt, qq)' = members(tt, qq) \ {o}
    BY TakeOffFields
  <2> QED
    BY <1>4, <1>5, <2>1 DEF members
<1>7. \A y \in M : y \in pool /\ y \in OrderId /\ y \notin older[y] /\ older[y] \subseteq M
  BY <1>1 DEF members, ArrivalOrder, BookTypeOK
<1>8. \A y \in M \ {o} : older'[y] = older[y] \ {o}
  BY <1>7, TakeOffFields
<1>9. /\ IF n = nil THEN x = l.tail ELSE n \in M /\ older[n] = older[x] \cup {x}
      /\ IF v = nil THEN x = l.head ELSE v \in M /\ older[x] = older[v] \cup {v}
      /\ mem[x].qty > 0
  BY <1>1, <1>3, NodeFacts DEF node_sound
<1>10. \A y, z \in M : y # z => (y \in older[z] <=> z \notin older[y])
  BY <1>1 DEF members, ArrivalOrder
<1>11. /\ n = o => x = ov
       /\ v = o => x = on
       /\ x = ov => n = o /\ t = s /\ q = p
       /\ x = on => v = o /\ t = s /\ q = p
  <2>1. n = o => x = ov
    BY <1>1, <1>3, <1>2, NextHasPrev, NilAssumption
  <2>2. v = o => x = on
    BY <1>1, <1>3, <1>2, PrevHasNext, NilAssumption
  <2>3. x = ov => n = o /\ t = s /\ q = p
    BY <1>1, <1>3, PrevHasNext, NilAssumption
  <2>4. x = on => v = o /\ t = s /\ q = p
    BY <1>1, <1>3, NextHasPrev, NilAssumption
  <2> QED
    BY <2>1, <2>2, <2>3, <2>4
<1>12. /\ mem'[x].next = nil => x = l1.tail
       /\ mem'[x].next # nil => mem'[x].next \in M \ {o}
                                   /\ older'[mem'[x].next] = older'[x] \cup {x}
       /\ mem'[x].prev = nil => x = l1.head
       /\ mem'[x].prev # nil => mem'[x].prev \in M \ {o}
                                   /\ older'[x] = older'[mem'[x].prev] \cup {mem'[x].prev}
  <2>1. CASE t # s \/ q # p
    <3>1. o \notin M /\ l1 = l
      BY <1>1, <1>4, <2>1, TakeOffFields DEF members
    <3>2. x # ov /\ x # on
      BY <1>11, <2>1
    <3> HIDE DEF M, n, v, l, l1
    <3> QED
      BY <1>4, <1>5, <1>7, <1>8, <1>9, <3>1, <3>2
  <2>2. CASE t = s /\ q = p
    <3>1. /\ l1.head = IF ov = nil THEN on ELSE l.head
          /\ l1.tail = IF on = nil THEN ov ELSE l.tail
      <4>1. l1 = unlink_level(l, o)
        BY <2>2, TakeOffFields
      <4> QED
        BY <4>1 DEF unlink_level
    <3>2. /\ IF on = nil THEN o = l.tail ELSE on \in M /\ older[on] = older[o] \cup {o}
          /\ IF ov = nil THEN o = l.head ELSE ov \in M /\ older[o] = older[ov] \cup {ov}
          /\ o \in M
      BY <1>1, <2>2, NodeFacts DEF node_sound
    <3>x. nil \notin M
      BY <1>7, NilAssumption
    <3> HIDE DEF M, n, v, l, l1, on, ov
    <3>3. /\ mem'[x].next = nil => x = l1.tail
          /\ mem'[x].next # nil => mem'[x].next \in M \ {o}
      BY <1>3, <1>4, <1>5, <1>7, <1>9, <1>11, <3>1, <3>2, <3>x
    <3>4. mem'[x].next # nil => older'[mem'[x].next] = older'[x] \cup {x}
      BY <1>3, <1>4, <1>5, <1>7, <1>8, <1>9, <1>10, <1>11, <3>2, <3>3, <3>x
    <3>5. /\ mem'[x].prev = nil => x = l1.head
          /\ mem'[x].prev # nil => mem'[x].prev \in M \ {o}
      BY <1>3, <1>4, <1>5, <1>7, <1>9, <1>11, <3>1, <3>2, <3>x
    <3>6. mem'[x].prev # nil => older'[x] = older'[mem'[x].prev] \cup {mem'[x].prev}
      BY <1>3, <1>4, <1>5, <1>7, <1>8, <1>9, <1>10, <1>11, <3>2, <3>5, <3>x
    <3> QED
      BY <3>3, <3>4, <3>5, <3>6
  <2> QED
    BY <2>1, <2>2
<1>13. level'[mem'[x].side][mem'[x].price] = l1
  BY <1>5
<1> HIDE DEF M, n, v, on, ov, l, l1
<1> QED
  BY <1>5, <1>6, <1>9, <1>12, <1>13 DEF node_sound

\* take_off keeps every level's list in order.
LEMMA TakeOffLists ==
    ASSUME NEW s, NEW p, NEW o, TakenOff(s, p, o)
    PROVE  ListsAreFifo'
  BY TakeOffEnds, TakeOffNodes DEF ListsAreFifo

Rested(id, s, px, qty, owner) ==
    /\ BookTypeOK /\ ArrivalOrder /\ ListsAreFifo
    /\ id \in OrderId \ pool /\ s \in Side /\ px \in Price
    /\ qty \in Qty /\ qty > 0 /\ owner \in Owner
    /\ rest(id, s, px, qty, owner)

RestFacts(id, s, px, qty, owner) ==
    /\ \A x \in OrderId \ {id} :
          /\ mem'[x].side = mem[x].side /\ mem'[x].price = mem[x].price
          /\ mem'[x].qty = mem[x].qty /\ mem'[x].owner = mem[x].owner
          /\ mem'[x].next = IF x = level[s][px].tail THEN id ELSE mem[x].next
          /\ mem'[x].prev = mem[x].prev
          /\ older'[x] = older[x]
    /\ mem'[id] = [qty |-> qty, owner |-> owner, next |-> nil,
                   prev |-> level[s][px].tail, price |-> px, side |-> s]
    /\ older'[id] = members(s, px)
    /\ pool' = pool \cup {id} /\ index' = index \cup {id}
    /\ \A t \in Side, q \in Price :
          members(t, q)' = IF t = s /\ q = px THEN members(s, px) \cup {id}
                           ELSE members(t, q)
    /\ \A t \in Side, q \in Price :
          t # s \/ q # px => level'[t][q] = level[t][q]
    /\ level'[s][px] = rest_level(level[s][px], id, qty)

\* What rest does to the fields of the other orders and to the levels.
LEMMA RestFields ==
    ASSUME NEW id, NEW s, NEW px, NEW qty, NEW owner, Rested(id, s, px, qty, owner)
    PROVE  RestFacts(id, s, px, qty, owner)
<1> USE DEF Rested
<1>1. \A x \in OrderId \ {id} :
                 /\ mem'[x].side = mem[x].side /\ mem'[x].price = mem[x].price
                 /\ mem'[x].qty = mem[x].qty /\ mem'[x].owner = mem[x].owner
                 /\ mem'[x].next = IF x = level[s][px].tail THEN id ELSE mem[x].next
                 /\ mem'[x].prev = mem[x].prev
                 /\ older'[x] = older[x]
  BY DEF rest, rest_mem, BookTypeOK, Order
<1>2. mem'[id] = [qty |-> qty, owner |-> owner, next |-> nil,
                  prev |-> level[s][px].tail, price |-> px, side |-> s]
  BY DEF rest, rest_mem
<1>3. older'[id] = members(s, px)
  BY DEF rest, BookTypeOK
<1>4. pool' = pool \cup {id} /\ index' = index \cup {id}
  BY DEF rest
<1>5. \A t \in Side, q \in Price :
                 members(t, q)' = IF t = s /\ q = px THEN members(s, px) \cup {id}
                                  ELSE members(t, q)
  <2>1. mem'[id].side = s /\ mem'[id].price = px
    BY <1>2
  <2> QED
    BY <1>1, <1>4, <2>1 DEF members, BookTypeOK
<1>6. \A t \in Side, q \in Price : t # s \/ q # px => level'[t][q] = level[t][q]
  BY DEF rest, BookTypeOK
<1>7. level'[s][px] = rest_level(level[s][px], id, qty)
  BY DEF rest, BookTypeOK
<1> QED
  BY <1>1, <1>2, <1>3, <1>4, <1>5, <1>6, <1>7 DEF RestFacts

\* rest keeps the types of the book.
LEMMA RestTypes ==
    ASSUME NEW id, NEW s, NEW px, NEW qty, NEW owner, Rested(id, s, px, qty, owner)
    PROVE  /\ mem' \in [OrderId -> Order]
           /\ pool' \subseteq OrderId /\ index' \subseteq OrderId
           /\ level' \in [Side -> [Price -> Level]]
           /\ older' \in [OrderId -> SUBSET OrderId]
<1> USE DEF Rested
<1>0. level[s][px].tail \in Ptr
  BY DEF BookTypeOK, Level
<1>1. mem' \in [OrderId -> Order]
  <2>1. [qty |-> qty, owner |-> owner, next |-> nil, prev |-> level[s][px].tail,
         price |-> px, side |-> s] \in Order
    BY <1>0 DEF Order, Ptr
  <2>2. \A x \in OrderId : mem[x] \in Order /\ [mem[x] EXCEPT !.next = id] \in Order
    BY DEF BookTypeOK, Order, Ptr
  <2> HIDE DEF Order
  <2> QED
    BY <2>1, <2>2 DEF rest, rest_mem
<1>2. pool' \subseteq OrderId /\ index' \subseteq OrderId
  BY DEF rest, BookTypeOK
<1>3. level' \in [Side -> [Price -> Level]]
  <2>1. rest_level(level[s][px], id, qty) \in Level
    BY QtyAssumption DEF rest_level, BookTypeOK, Level, Ptr, Qty
  <2> QED
    BY <2>1 DEF rest, BookTypeOK
<1>4. older' \in [OrderId -> SUBSET OrderId]
  BY DEF rest, BookTypeOK, members
<1> QED
  BY <1>1, <1>2, <1>3, <1>4

\* An order that rests arrives last at its level.
LEMMA RestOrder ==
    ASSUME NEW id, NEW s, NEW px, NEW qty, NEW owner, Rested(id, s, px, qty, owner)
    PROVE  ArrivalOrder'
<1>0. RestFacts(id, s, px, qty, owner)
  BY RestFields
<1>1. BookTypeOK /\ ArrivalOrder /\ id \in OrderId /\ id \notin pool /\ s \in Side /\ px \in Price
  BY DEF Rested
<1>2. \A x \in pool : x # id /\ x \in OrderId /\ older'[x] = older[x]
          /\ mem'[x].side = mem[x].side /\ mem'[x].price = mem[x].price
          /\ mem[x].side \in Side /\ mem[x].price \in Price
  BY <1>1, <1>0 DEF RestFacts, BookTypeOK, Order
<1>3. mem'[id].side = s /\ mem'[id].price = px /\ older'[id] = members(s, px)
        /\ pool' = pool \cup {id}
  BY <1>0 DEF RestFacts
<1>4. \A t \in Side, q \in Price :
                 members(t, q)' = IF t = s /\ q = px THEN members(s, px) \cup {id}
                                  ELSE members(t, q)
  BY <1>0 DEF RestFacts
<1>5. \A x \in pool :
        members(mem[x].side, mem[x].price)' =
            IF mem[x].side = s /\ mem[x].price = px THEN members(s, px) \cup {id}
            ELSE members(mem[x].side, mem[x].price)
  BY <1>2, <1>4 DEF members
<1>6. members(mem[id].side, mem[id].price)' = members(s, px) \cup {id}
  BY <1>1, <1>3, <1>4 DEF members
<1>7. \A x \in pool : older[x] \subseteq pool /\ id \notin older[x]
  BY <1>1 DEF ArrivalOrder, members
<1>8. \A x \in pool : x \in members(s, px) <=> mem[x].side = s /\ mem[x].price = px
  BY DEF members
<1>9. id \notin members(s, px) /\ members(s, px) \subseteq pool
  BY <1>1 DEF members
<1>10. \A x \in pool' : older'[x] \subseteq members(mem[x].side, mem[x].price)' \ {x}
  BY <1>1, <1>2, <1>3, <1>5, <1>6, <1>7, <1>9 DEF ArrivalOrder
<1>11. \A x, y \in pool' : x # y /\ y \in members(mem[x].side, mem[x].price)'
            => (x \in older'[y] <=> y \notin older'[x])
  <2> SUFFICES ASSUME NEW x \in pool', NEW y \in pool', x # y,
                      y \in members(mem[x].side, mem[x].price)'
               PROVE  x \in older'[y] <=> y \notin older'[x]
    OBVIOUS
  <2>1. CASE x \in pool /\ y \in pool
    <3>1. y \in members(mem[x].side, mem[x].price)
      BY <1>2, <1>5, <1>8, <2>1
    <3> QED
      BY <1>1, <1>2, <2>1, <3>1 DEF ArrivalOrder
  <2>2. CASE x = id
    <3>1. y \in members(s, px) /\ y \in pool
      BY <1>6, <1>9, <2>2
    <3> QED
      BY <1>2, <1>3, <1>7, <2>2, <3>1
  <2>3. CASE x \in pool /\ y = id
    <3>1. x \in members(s, px)
      BY <1>2, <1>5, <1>8, <2>3 DEF members
    <3> QED
      BY <1>2, <1>3, <1>7, <2>3, <3>1
  <2> QED
    BY <1>3, <2>1, <2>2, <2>3
<1>12. \A x, y \in pool' : y \in older'[x] => older'[y] \subseteq older'[x]
  <2> SUFFICES ASSUME NEW x \in pool', NEW y \in pool', y \in older'[x]
               PROVE  older'[y] \subseteq older'[x]
    OBVIOUS
  <2>1. y \in pool
    BY <1>2, <1>3, <1>7, <1>9
  <2>2. CASE x \in pool
    BY <1>1, <1>2, <2>1, <2>2 DEF ArrivalOrder
  <2>3. CASE x = id
    BY <1>1, <1>2, <1>3, <1>8, <2>1, <2>3 DEF ArrivalOrder
  <2> QED
    BY <1>3, <2>2, <2>3
<1> QED
  BY <1>10, <1>11, <1>12 DEF ArrivalOrder

\* rest keeps every level's list in order.
LEMMA RestLists ==
    ASSUME NEW id, NEW s, NEW px, NEW qty, NEW owner, Rested(id, s, px, qty, owner)
    PROVE  ListsAreFifo'
<1>0. RestFacts(id, s, px, qty, owner)
  BY RestFields
<1>1. BookTypeOK /\ ArrivalOrder /\ ListsAreFifo /\ id \in OrderId /\ id \notin pool
        /\ s \in Side /\ px \in Price /\ qty > 0
  BY DEF Rested
<1> DEFINE M == members(s, px)  l == level[s][px]  l1 == level'[s][px]
<1>2. /\ l1.head = IF l.tail = nil THEN id ELSE l.head
      /\ l1.tail = id
  <2>1. l1 = rest_level(l, id, qty)
    BY <1>0 DEF RestFacts
  <2> QED
    BY <2>1 DEF rest_level
<1>3. IF M = {} THEN l.head = nil /\ l.tail = nil
      ELSE /\ l.head \in M /\ older[l.head] = {}
           /\ l.tail \in M /\ older[l.tail] = M \ {l.tail}
  BY <1>1 DEF ListsAreFifo, ends_sound
<1>4. id \notin M /\ M \subseteq pool /\ nil \notin M /\ nil # id
  BY <1>1, NilAssumption DEF members, BookTypeOK
<1>5. \A x \in pool : x # id /\ older'[x] = older[x]
  BY <1>1, <1>0 DEF RestFacts, BookTypeOK
<1>6. older'[id] = M /\ pool' = pool \cup {id}
  BY <1>0 DEF RestFacts
<1>7. \A t \in Side, q \in Price :
          members(t, q)' = IF t = s /\ q = px THEN M \cup {id} ELSE members(t, q)
  BY <1>0 DEF RestFacts
<1>8. ASSUME NEW t \in Side, NEW q \in Price
      PROVE  ends_sound(t, q)'
  <2>1. CASE t = s /\ q = px
    <3> HIDE DEF M, l, l1
    <3>1. l1.head \in M \cup {id} /\ older'[l1.head] = {}
      BY <1>2, <1>3, <1>4, <1>5, <1>6
    <3>2. l1.tail \in M \cup {id} /\ older'[l1.tail] = (M \cup {id}) \ {l1.tail}
      BY <1>2, <1>4, <1>6
    <3> QED
      BY <2>1, <1>7, <3>1, <3>2 DEF ends_sound, l1
  <2>2. CASE t # s \/ q # px
    <3>1. level'[t][q] = level[t][q] /\ members(t, q)' = members(t, q)
      BY <2>2, <1>7, <1>0 DEF RestFacts
    <3>2. ends_sound(t, q)
      BY <1>1 DEF ListsAreFifo
    <3>3. \A x \in members(t, q) : older'[x] = older[x]
      BY <1>5 DEF members
    <3> QED
      BY <3>1, <3>2, <3>3 DEF ends_sound
  <2> QED
    BY <2>1, <2>2
<1>9. node_sound(id)'
  <2>1. /\ mem'[id].side = s /\ mem'[id].price = px /\ mem'[id].qty = qty
        /\ mem'[id].next = nil /\ mem'[id].prev = l.tail
    BY <1>0 DEF RestFacts
  <2>2. members(mem[id].side, mem[id].price)' = M \cup {id}
    BY <1>1, <1>7, <2>1 DEF members
  <2>3. l.tail # nil => l.tail \in M /\ older'[id] = older'[l.tail] \cup {l.tail}
    <3> HIDE DEF M, l
    <3> QED
      BY <1>3, <1>4, <1>5, <1>6
  <2>4. level'[mem'[id].side][mem'[id].price] = l1
    BY <2>1
  <2> HIDE DEF M, l, l1
  <2> QED
    BY <1>1, <1>2, <2>1, <2>2, <2>3, <2>4 DEF node_sound
<1>10. ASSUME NEW x \in pool
       PROVE  node_sound(x)'
  <2> DEFINE t == mem[x].side  q == mem[x].price
  <2>1. t \in Side /\ q \in Price /\ x \in members(t, q) /\ node_sound(x) /\ x \in OrderId
    BY <1>1, NodeFacts
  <2>2. /\ mem'[x].side = t /\ mem'[x].price = q /\ mem'[x].qty = mem[x].qty
        /\ mem'[x].next = (IF x = l.tail THEN id ELSE mem[x].next)
        /\ mem'[x].prev = mem[x].prev
    BY <1>5, <2>1, <1>0 DEF RestFacts
  <2>3. members(mem[x].side, mem[x].price)' =
            IF t = s /\ q = px THEN M \cup {id} ELSE members(t, q)
    BY <1>7, <2>1, <2>2 DEF members
  <2>4. \A y \in members(t, q) : y \in pool
    BY DEF members
  <2>5. CASE t = s /\ q = px
    <3>1. /\ IF mem[x].next = nil THEN x = l.tail
             ELSE mem[x].next \in M /\ older[mem[x].next] = older[x] \cup {x}
          /\ IF mem[x].prev = nil THEN x = l.head
             ELSE mem[x].prev \in M /\ older[x] = older[mem[x].prev] \cup {mem[x].prev}
          /\ mem[x].qty > 0 /\ x \in M
      BY <2>1, <2>5 DEF node_sound
    <3>2. level'[mem'[x].side][mem'[x].price] = l1
      BY <2>2, <2>5
    <3>3. members(mem[x].side, mem[x].price)' = M \cup {id}
      BY <2>3, <2>5
    <3> HIDE DEF M, l, l1, t, q
    <3>4. IF mem'[x].next = nil THEN x = l1.tail
          ELSE mem'[x].next \in M \cup {id} /\ older'[mem'[x].next] = older'[x] \cup {x}
      BY <1>3, <1>4, <1>5, <1>6, <2>2, <3>1
    <3>5. IF mem'[x].prev = nil THEN x = l1.head
          ELSE mem'[x].prev \in M /\ older'[x] = older'[mem'[x].prev] \cup {mem'[x].prev}
      BY <1>2, <1>3, <1>4, <1>5, <2>2, <3>1
    <3> QED
      BY <2>2, <3>1, <3>2, <3>3, <3>4, <3>5 DEF node_sound
  <2>6. CASE t # s \/ q # px
    <3>1. level'[t][q] = level[t][q] /\ members(mem[x].side, mem[x].price)' = members(t, q)
      BY <2>1, <2>3, <2>6, <1>0 DEF RestFacts
    <3>2. x # l.tail
      BY <1>3, <1>4, <2>1, <2>6, NilAssumption DEF members
    <3>3. \A y \in members(t, q) : older'[y] = older[y]
      BY <1>5, <2>4
    <3> QED
      BY <2>1, <2>2, <3>1, <3>2, <3>3 DEF node_sound
  <2> QED
    BY <2>5, <2>6
<1> QED
  BY <1>6, <1>8, <1>9, <1>10 DEF ListsAreFifo

\* on_empty clears the bit and leaves the best remaining tick in best_.
LEMMA OnEmpty ==
    ASSUME bits \in [Side -> SUBSET Price], best \in [Side -> Price \cup {kNoPrice}],
           NEW s \in Side, NEW px \in Price, on_empty(s, px)
    PROVE  /\ bits' \in [Side -> SUBSET Price]
           /\ best' \in [Side -> Price \cup {kNoPrice}]
           /\ bits'[s] = bits[s] \ {px}
           /\ \A t \in Side \ {s} : bits'[t] = bits[t] /\ best'[t] = best[t]
           /\ best_sound(s) => best_sound(s)'
<1> DEFINE B == bits[s] \ {px}  r == scan_worse(s, px, B)
<1>1. bits'[s] = B /\ B \in SUBSET Price
  BY DEF on_empty
<1>2. IF \E p \in B : better(s, px, p)
      THEN r \in B /\ better(s, px, r)
           /\ \A q \in B : better(s, px, q) => ~better(s, q, r)
      ELSE r = kNoPrice
  BY <1>1, ScanWorse
<1>3. best'[s] = IF best[s] = px THEN r ELSE best[s]
  BY DEF on_empty
<1> HIDE DEF r, B
<1>4. best'[s] \in Price \cup {kNoPrice}
  BY <1>1, <1>2, <1>3
<1>5. bits' \in [Side -> SUBSET Price] /\ best' \in [Side -> Price \cup {kNoPrice}]
  <2>1. bits' = [bits EXCEPT ![s] = B]
    BY DEF on_empty, B
  <2>2. best' = [best EXCEPT ![s] = best'[s]]
    BY <1>3 DEF on_empty, r, B
  <2> QED
    BY <1>1, <1>4, <2>1, <2>2
<1>6. \A t \in Side \ {s} : bits'[t] = bits[t] /\ best'[t] = best[t]
  BY DEF on_empty
<1>7. best_sound(s) => best_sound(s)'
  <2> SUFFICES ASSUME best_sound(s) PROVE best_sound(s)'
    OBVIOUS
  <2>1. \A p \in Price : p \in Int /\ p # kNoPrice
    BY BandAssumption DEF Price, kNoPrice
  <2>2. CASE best[s] = px
    <3>1. \A q \in B : better(s, px, q)
      BY <1>1, <2>1, <2>2 DEF best_sound, better, B
    <3> QED
      BY <1>1, <1>2, <1>3, <2>2, <3>1 DEF best_sound
  <2>3. CASE best[s] # px
    BY <1>1, <1>3, <2>1, <2>3 DEF best_sound, B
  <2> QED
    BY <2>2, <2>3
<1> QED
  BY <1>1, <1>5, <1>6, <1>7 DEF B

\* on_nonempty sets the bit and keeps best_ the best tick.
LEMMA OnNonempty ==
    ASSUME bits \in [Side -> SUBSET Price], best \in [Side -> Price \cup {kNoPrice}],
           NEW s \in Side, NEW px \in Price, on_nonempty(s, px)
    PROVE  /\ bits' \in [Side -> SUBSET Price]
           /\ best' \in [Side -> Price \cup {kNoPrice}]
           /\ bits'[s] = bits[s] \cup {px}
           /\ \A t \in Side \ {s} : bits'[t] = bits[t] /\ best'[t] = best[t]
           /\ best_sound(s) => best_sound(s)'
<1>1. bits' \in [Side -> SUBSET Price] /\ best' \in [Side -> Price \cup {kNoPrice}]
  BY DEF on_nonempty
<1>2. bits'[s] = bits[s] \cup {px}
  BY DEF on_nonempty
<1>3. \A t \in Side \ {s} : bits'[t] = bits[t] /\ best'[t] = best[t]
  BY DEF on_nonempty
<1>4. best_sound(s) => best_sound(s)'
  <2>1. \A p \in Price : p \in Int /\ p # kNoPrice
    BY BandAssumption DEF Price, kNoPrice
  <2>2. best'[s] = IF best[s] = kNoPrice \/ better(s, px, best[s]) THEN px ELSE best[s]
    BY DEF on_nonempty
  <2> QED
    BY <1>2, <2>1, <2>2 DEF best_sound, better
<1> QED
  BY <1>1, <1>2, <1>3, <1>4

-----------------------------------------------------------------------------
(* The inductive invariant *)

IInv ==
    /\ BookTypeOK
    /\ CallTypeOK
    /\ ArrivalOrder
    /\ ListsAreFifo
    /\ LadderInSync
    /\ IndexInSync
    /\ NeverCrossed
    /\ SweepSound

BookInv == ArrivalOrder /\ ListsAreFifo /\ IndexInSync /\ NeverCrossed

LadderSound == \A s \in Side : best_sound(s) /\ \A p \in Price : bit_sound(s, p)

\* Outside a sweep the ladder is in sync at every tick.
LEMMA LadderOutsideSweep ==
    ASSUME pc \notin {"inner", "after"}
    PROVE  LadderInSync <=> LadderSound
  BY DEF LadderInSync, LadderSound, being_swept

\* The invariants of the book are about the book's variables only.
LEMMA BookUnchanged ==
    ASSUME UNCHANGED book
    PROVE  /\ BookTypeOK => BookTypeOK'
           /\ BookInv => BookInv'
           /\ LadderSound => LadderSound'
           /\ \A s \in Side, p \in Price : members(s, p)' = members(s, p)
<1> USE DEF book
<1>1. \A s, p : members(s, p)' = members(s, p)
  BY DEF members
<1>2. BookTypeOK => BookTypeOK'
  BY DEF BookTypeOK
<1>3. ArrivalOrder => ArrivalOrder'
  BY DEF ArrivalOrder, members
<1>4. ListsAreFifo => ListsAreFifo'
  <2>1. \A s \in Side, p \in Price : ends_sound(s, p) => ends_sound(s, p)'
    BY <1>1 DEF ends_sound
  <2>2. \A x \in pool : members(mem[x].side, mem[x].price)' = members(mem[x].side, mem[x].price)
    BY DEF members
  <2>3. \A x \in pool : node_sound(x) => node_sound(x)'
    BY <2>2 DEF node_sound
  <2> QED
    BY <2>1, <2>3 DEF ListsAreFifo
<1>5. NeverCrossed => NeverCrossed'
  BY DEF NeverCrossed
<1>6. LadderSound => LadderSound'
  BY DEF LadderSound, best_sound, bit_sound, members
<1> QED
  BY <1>1, <1>2, <1>3, <1>4, <1>5, <1>6 DEF BookInv, IndexInSync

\* take_off keeps the invariants of lists and index.
LEMMA TakeOffKeeps ==
    ASSUME NEW s, NEW p, NEW o, TakenOff(s, p, o), BookInv
    PROVE  BookInv'
<1>1. ArrivalOrder' /\ ListsAreFifo'
  BY TakeOffOrder, TakeOffLists
<1>2. \A x \in pool' : x \in pool /\ mem'[x].side = mem[x].side /\ mem'[x].price = mem[x].price
  BY TakeOffFields DEF TakenOff, BookTypeOK
<1>3. pool' = pool \ {o} /\ index' = index \ {o}
  BY TakeOffFields
<1> QED
  BY <1>1, <1>2, <1>3 DEF BookInv, IndexInSync, NeverCrossed

\* remove_from_book keeps every invariant of the book.
LEMMA RemoveKeeps ==
    ASSUME BookTypeOK, BookInv, LadderSound, NEW o \in index, remove_from_book(o)
    PROVE  BookTypeOK' /\ BookInv' /\ LadderSound' /\ o \notin index'
<1>0. PICK s, p : s = mem[o].side /\ p = mem[o].price
  OBVIOUS
<1>1. o \in pool /\ TakenOff(s, p, o)
  BY <1>0 DEF BookInv, IndexInSync, TakenOff, remove_from_book
<1>2. s \in Side /\ p \in Price /\ o \in OrderId
  BY <1>1, TakeOffFields
<1>3. BookInv'
  BY <1>1, TakeOffKeeps
<1>4. /\ \A t \in Side, q \in Price : members(t, q)' = members(t, q) \ {o}
      /\ index' = index \ {o}
      /\ level'[s][p] = unlink_level(level[s][p], o)
  BY <1>1, TakeOffFields
<1>5. \A t \in Side, q \in Price : o \in members(t, q) <=> t = s /\ q = p
  BY <1>0, <1>1 DEF members
<1>6. level'[s][p].head = nil <=> members(s, p)' = {}
  <2>1. ends_sound(s, p)'
    BY <1>2, <1>3 DEF BookInv, ListsAreFifo
  <2>2. nil \notin members(s, p)'
    BY <1>2, <1>4, NilAssumption DEF members, BookTypeOK
  <2> QED
    BY <2>1, <2>2 DEF ends_sound
<1>7. CASE level'[s][p].head = nil
  <2>1. on_empty(s, p)
    BY <1>0, <1>4, <1>7 DEF remove_from_book
  <2>2. /\ bits' \in [Side -> SUBSET Price]
        /\ best' \in [Side -> Price \cup {kNoPrice}]
        /\ bits'[s] = bits[s] \ {p}
        /\ \A t \in Side \ {s} : bits'[t] = bits[t] /\ best'[t] = best[t]
        /\ best_sound(s) => best_sound(s)'
    BY <1>2, <2>1, OnEmpty DEF BookTypeOK
  <2>3. \A t \in Side : best_sound(t)'
    BY <2>2 DEF LadderSound, best_sound
  <2>4. \A t \in Side, q \in Price : bit_sound(t, q)'
    BY <1>2, <1>4, <1>5, <1>6, <1>7, <2>2 DEF LadderSound, bit_sound
  <2> QED
    BY <1>1, <1>3, <1>4, <2>2, <2>3, <2>4, TakeOffTypes DEF BookTypeOK, LadderSound
<1>8. CASE level'[s][p].head # nil
  <2>1. UNCHANGED <<bits, best>>
    BY <1>0, <1>4, <1>8 DEF remove_from_book
  <2>2. \A t \in Side : best_sound(t)'
    BY <2>1 DEF LadderSound, best_sound
  <2>3. \A t \in Side, q \in Price : bit_sound(t, q)'
    BY <1>2, <1>4, <1>5, <1>6, <1>8, <2>1 DEF LadderSound, bit_sound
  <2> QED
    BY <1>1, <1>3, <1>4, <2>1, <2>2, <2>3, TakeOffTypes DEF BookTypeOK, LadderSound
<1> QED
  BY <1>7, <1>8

\* rest keeps every invariant of the book when the price does not cross.
LEMMA RestKeeps ==
    ASSUME NEW id, NEW s, NEW px, NEW qty, NEW owner, Rested(id, s, px, qty, owner),
           BookInv, LadderSound,
           best[opposite(s)] = kNoPrice \/ ~crosses(s, best[opposite(s)], px)
    PROVE  BookTypeOK' /\ BookInv' /\ LadderSound'
<1>0. RestFacts(id, s, px, qty, owner)
  BY RestFields
<1>1. BookTypeOK /\ id \in OrderId /\ id \notin pool /\ s \in Side /\ px \in Price
        /\ rest(id, s, px, qty, owner)
  BY DEF Rested
<1>2. ArrivalOrder' /\ ListsAreFifo'
  BY RestOrder, RestLists
<1>3. pool' = pool \cup {id} /\ index' = index \cup {id}
  BY <1>0 DEF RestFacts
<1>4. /\ \A x \in pool : mem'[x].side = mem[x].side /\ mem'[x].price = mem[x].price
      /\ mem'[id].side = s /\ mem'[id].price = px
  <2>1. \A x \in pool : x \in OrderId \ {id}
    BY <1>1 DEF BookTypeOK
  <2> QED
    BY <1>0, <2>1 DEF RestFacts
<1>5. \A x \in pool : mem[x].side = opposite(s) => ~crosses(s, mem[x].price, px)
  <2> SUFFICES ASSUME NEW x \in pool, mem[x].side = opposite(s)
               PROVE  ~crosses(s, mem[x].price, px)
    OBVIOUS
  <2>1. mem[x].price \in Price /\ opposite(s) \in Side /\ x \in members(opposite(s), mem[x].price)
    BY <1>1 DEF BookTypeOK, Order, opposite, Side, members
  <2>2. mem[x].price \in bits[opposite(s)]
    BY <2>1 DEF LadderSound, bit_sound
  <2>3. best[opposite(s)] \in Price /\ ~better(opposite(s), mem[x].price, best[opposite(s)])
          /\ best[opposite(s)] # kNoPrice
    <3>1. \A p \in Price : p # kNoPrice
      BY BandAssumption DEF Price, kNoPrice
    <3>2. bits[opposite(s)] \subseteq Price
      BY <1>1, <2>1 DEF BookTypeOK
    <3> QED
      BY <2>1, <2>2, <3>1, <3>2 DEF LadderSound, best_sound
  <2>4. \A p \in Price : p \in Int
    BY BandAssumption DEF Price
  <2> QED
    BY <1>1, <2>1, <2>3, <2>4 DEF crosses, better, opposite, Side
<1>6. NeverCrossed'
  <2>1. \A x \in pool : mem[x].price \in Int /\ px \in Int
    BY <1>1, BandAssumption DEF BookTypeOK, Order, Price
  <2> QED
    BY <1>1, <1>3, <1>4, <1>5, <2>1 DEF BookInv, NeverCrossed, crosses, opposite, Side
<1>7. \A t \in Side, q \in Price :
         members(t, q)' = IF t = s /\ q = px THEN members(s, px) \cup {id} ELSE members(t, q)
  BY <1>0 DEF RestFacts
<1>8. level[s][px].head = nil <=> members(s, px) = {}
  <2>1. nil \notin members(s, px)
    BY <1>1, NilAssumption DEF members, BookTypeOK
  <2> QED
    BY <1>1, <2>1 DEF BookInv, ListsAreFifo, ends_sound
<1>9. /\ bits' \in [Side -> SUBSET Price]
      /\ best' \in [Side -> Price \cup {kNoPrice}]
      /\ LadderSound'
  <2>1. CASE level[s][px].head = nil
    <3>1. on_nonempty(s, px)
      BY <1>1, <2>1 DEF rest
    <3>2. /\ bits' \in [Side -> SUBSET Price]
          /\ best' \in [Side -> Price \cup {kNoPrice}]
          /\ bits'[s] = bits[s] \cup {px}
          /\ \A t \in Side \ {s} : bits'[t] = bits[t] /\ best'[t] = best[t]
          /\ best_sound(s) => best_sound(s)'
      BY <1>1, <3>1, OnNonempty DEF BookTypeOK
    <3>3. \A t \in Side : best_sound(t)'
      BY <3>2 DEF LadderSound, best_sound
    <3>4. \A t \in Side, q \in Price : bit_sound(t, q)'
      BY <1>1, <1>7, <3>2 DEF LadderSound, bit_sound
    <3> QED
      BY <3>2, <3>3, <3>4 DEF LadderSound
  <2>2. CASE level[s][px].head # nil
    <3>1. UNCHANGED <<bits, best>>
      BY <1>1, <2>2 DEF rest
    <3>2. \A t \in Side : best_sound(t)'
      BY <3>1 DEF LadderSound, best_sound
    <3>3. \A t \in Side, q \in Price : bit_sound(t, q)'
      BY <1>1, <1>7, <1>8, <2>2, <3>1 DEF LadderSound, bit_sound
    <3> QED
      BY <1>1, <3>1, <3>2, <3>3 DEF LadderSound, BookTypeOK
  <2> QED
    BY <2>1, <2>2
<1>10. IndexInSync'
  BY <1>3 DEF BookInv, IndexInSync
<1> QED
  BY <1>2, <1>6, <1>9, <1>10, RestTypes DEF BookInv, BookTypeOK

\* Changing a quantity to another positive one keeps the book's invariants.
LEMMA QtyOnly ==
    ASSUME BookTypeOK, BookInv, NEW o \in pool, NEW q \in Qty, q > 0,
           mem' = [mem EXCEPT ![o].qty = q],
           NEW s \in Side, NEW p \in Price, NEW n \in Int,
           level' = [level EXCEPT ![s][p].total_qty = n],
           UNCHANGED <<pool, index, bits, best, older>>
    PROVE  /\ BookTypeOK' /\ BookInv'
           /\ \A t \in Side, r \in Price :
                 /\ members(t, r)' = members(t, r)
                 /\ level'[t][r].head = level[t][r].head
           /\ LadderSound => LadderSound'
<1>1. o \in OrderId
  BY DEF BookTypeOK
<1>2. /\ mem' \in [OrderId -> Order]
      /\ \A x \in OrderId : /\ mem'[x].side = mem[x].side /\ mem'[x].price = mem[x].price
                             /\ mem'[x].next = mem[x].next /\ mem'[x].prev = mem[x].prev
                             /\ mem'[x].qty = IF x = o THEN q ELSE mem[x].qty
  BY <1>1 DEF BookTypeOK, Order
<1>3. /\ level' \in [Side -> [Price -> Level]]
      /\ \A t \in Side, r \in Price : /\ level'[t][r].head = level[t][r].head
                                      /\ level'[t][r].tail = level[t][r].tail
  <2>1. level[s][p] \in Level /\ [level[s][p] EXCEPT !.total_qty = n] \in Level
    <3>1. level[s][p] \in Level
      BY DEF BookTypeOK
    <3> QED
      BY <3>1 DEF Level
  <2>2. level' = [level EXCEPT ![s] = [level[s] EXCEPT ![p] = [level[s][p] EXCEPT !.total_qty = n]]]
    OBVIOUS
  <2> QED
    BY <2>1, <2>2 DEF BookTypeOK, Level
<1>4. BookTypeOK'
  BY <1>2, <1>3 DEF BookTypeOK
<1>5. \A t, r : members(t, r)' = members(t, r)
  BY <1>2 DEF members, BookTypeOK
<1>6. \A x \in pool : members(mem[x].side, mem[x].price)' = members(mem[x].side, mem[x].price)
  BY <1>2 DEF members, BookTypeOK
<1>7. ArrivalOrder'
  BY <1>6 DEF BookInv, ArrivalOrder
<1>8. ListsAreFifo'
  <2>1. \A t \in Side, r \in Price : ends_sound(t, r)'
    BY <1>3, <1>5 DEF BookInv, ListsAreFifo, ends_sound
  <2>2. ASSUME NEW x \in pool PROVE node_sound(x)'
    <3>1. node_sound(x) /\ x \in OrderId /\ mem[x].side \in Side /\ mem[x].price \in Price
      BY DEF BookInv, ListsAreFifo, BookTypeOK, Order
    <3>2. LET l == level[mem[x].side][mem[x].price]
              k == level'[mem'[x].side][mem'[x].price]
          IN  k.head = l.head /\ k.tail = l.tail
      BY <1>2, <1>3, <3>1
    <3> QED
      BY <1>2, <1>6, <3>1, <3>2 DEF node_sound
  <2> QED
    BY <2>1, <2>2 DEF ListsAreFifo
<1>9. NeverCrossed'
  BY <1>2 DEF BookInv, NeverCrossed, BookTypeOK
<1>10. LadderSound => LadderSound'
  BY <1>5 DEF LadderSound, best_sound, bit_sound
<1> QED
  BY <1>3, <1>4, <1>5, <1>7, <1>8, <1>9, <1>10 DEF BookInv, IndexInSync

-----------------------------------------------------------------------------
(* One lemma per action *)

\* The empty call and the empty result have their types.
LEMMA NoCallType == NoCall \in Call /\ NoResult \in Result
  BY OwnerAssumption, QtyAssumption
  DEF NoCall, Call, NoResult, Result, Ptr, Side, Tif, Qty, kNoPrice

\* The empty book satisfies the invariant.
LEMMA InitIInv == Init => IInv
<1> SUFFICES ASSUME Init PROVE IInv
  OBVIOUS
<1>1. Freed \in Order /\ EmptyLevel \in Level
  BY OwnerAssumption, BandAssumption, QtyAssumption
  DEF Freed, Order, Ptr, Price, Qty, Side, EmptyLevel, Level
<1>2. BookTypeOK /\ CallTypeOK
  <2>1. BookTypeOK
    BY <1>1 DEF Init, BookTypeOK
  <2>2. CallTypeOK
    <3>1. op \in Call /\ res \in Result /\ stopped \in BOOLEAN
      BY NoCallType DEF Init
    <3>2. tape \in Seq(Event)
      BY DEF Init
    <3>3. remaining \in Qty /\ cur \in Ptr /\ lvl \in Price \cup {kNoPrice}
      BY QtyAssumption DEF Init, Ptr, Qty
    <3> QED
      BY <3>1, <3>2, <3>3 DEF Init, CallTypeOK
  <2> QED
    BY <2>1, <2>2
<1>3. pool = {} /\ index = {} /\ pc = "idle"
  BY DEF Init
<1>4. \A s, p : members(s, p) = {}
  BY <1>3 DEF members
<1>5. ArrivalOrder /\ NeverCrossed /\ IndexInSync /\ SweepSound
  BY <1>3 DEF ArrivalOrder, NeverCrossed, IndexInSync, SweepSound
<1>6. ListsAreFifo
  BY <1>3, <1>4 DEF Init, ListsAreFifo, ends_sound, EmptyLevel
<1>7. LadderInSync
  BY <1>3, <1>4 DEF Init, LadderInSync, being_swept, bit_sound, best_sound
<1> QED
  BY <1>2, <1>5, <1>6, <1>7 DEF IInv

\* A call that starts outside match leaves the ladder fully in sync.
LEMMA AtRest ==
    ASSUME IInv, pc \in {"idle", "fok", "walk", "outer", "done"}
    PROVE  BookTypeOK /\ CallTypeOK /\ BookInv /\ LadderSound
  BY LadderOutsideSweep DEF IInv, TypeOK, BookInv

\* ... and so does one that ends there.
LEMMA BackAtRest ==
    ASSUME BookTypeOK', CallTypeOK', BookInv', LadderSound',
           pc' \in {"idle", "fok", "walk", "outer", "done"},
           pc' \in {"fok", "walk", "outer"} =>
              op'.id \in OrderId \ index' /\ (op'.kind # "market" => op'.px \in Price)
    PROVE  IInv'
<1>1. LadderInSync'
  BY DEF LadderInSync, LadderSound, being_swept
<1>2. SweepSound'
  BY DEF SweepSound
<1> QED
  BY <1>1, <1>2 DEF IInv, TypeOK, BookInv

\* A call that returns at once leaves the invariant of the call intact.
LEMMA StepReturn ==
    ASSUME CallTypeOK, NEW o \in Call, NEW r \in Result, Return(o, r)
    PROVE  CallTypeOK' /\ pc' = "done"
  BY DEF CallTypeOK, Return

\* A call that enters match establishes the invariant of the sweep.
LEMMA StepEnterMatch ==
    ASSUME CallTypeOK, NEW o \in Call, EnterMatch(o)
    PROVE  CallTypeOK' /\ pc' = "outer" /\ op' = o
<1>1. o.qty \in Qty
  BY DEF Call
<1> QED
  BY <1>1 DEF CallTypeOK, EnterMatch

\* A call that enters the fill-or-kill pre-check starts at the best level.
LEMMA StepEnterFok ==
    ASSUME BookTypeOK, CallTypeOK, NEW o \in Call, EnterFok(o)
    PROVE  CallTypeOK' /\ pc' = "fok" /\ op' = o
<1>1. best[opposite(o.side)] \in Price \cup {kNoPrice}
  BY DEF BookTypeOK, Call, opposite, Side
<1> QED
  BY <1>1 DEF CallTypeOK, EnterFok

\* A rejection is a result.
LEMMA RejectionType == Rejection \in Result
<1>1. NoResult \in Result
  BY NoCallType
<1> QED
  BY <1>1 DEF Result, Rejection

\* in_band accepts ticks of the band only.
LEMMA InBand == ASSUME NEW px \in Int, in_band(px) PROVE px \in Price
  BY BandAssumption DEF in_band, Price

\* submit_limit preserves the invariant.
LEMMA Step_submit_limit ==
    ASSUME IInv, NEW id \in Ptr, NEW side \in Side, NEW px \in CallPrice, NEW qty \in Qty,
           NEW tif \in Tif, NEW owner \in Owner, submit_limit(id, side, px, qty, tif, owner)
    PROVE  IInv'
<1> DEFINE o == [kind |-> "limit", id |-> id, side |-> side, px |-> px, qty |-> qty,
                 tif |-> tif, owner |-> owner]
<1>1. pc = "idle" /\ UNCHANGED book
  BY DEF submit_limit
<1>2. BookTypeOK /\ BookTypeOK' /\ CallTypeOK /\ BookInv' /\ LadderSound'
  BY <1>1, AtRest, BookUnchanged
<1>3. o \in Call /\ px \in Int
  BY BandAssumption DEF Call, CallPrice
<1>4. CASE limit_valid(o) /\ (EnterMatch(o) \/ EnterFok(o))
  <2>1. CallTypeOK' /\ pc' \in {"fok", "outer"} /\ op' = o
    BY <1>2, <1>3, <1>4, StepEnterMatch, StepEnterFok
  <2>2. id \in OrderId \ index' /\ px \in Price
    BY <1>1, <1>3, <1>4, InBand DEF limit_valid, Ptr, book
  <2> QED
    BY <1>2, <2>1, <2>2, BackAtRest
<1>5. CASE Return(o, Rejection)
  <2>1. CallTypeOK' /\ pc' = "done"
    BY <1>2, <1>3, <1>5, RejectionType, StepReturn
  <2> QED
    BY <1>2, <2>1, BackAtRest
<1> QED
  BY <1>4, <1>5 DEF submit_limit

\* submit_market preserves the invariant.
LEMMA Step_submit_market ==
    ASSUME IInv, NEW id \in Ptr, NEW side \in Side, NEW qty \in Qty, NEW owner \in Owner,
           submit_market(id, side, qty, owner)
    PROVE  IInv'
<1> DEFINE o == [kind |-> "market", id |-> id, side |-> side, px |-> market_limit(side),
                 qty |-> qty, tif |-> "IOC", owner |-> owner]
<1>1. pc = "idle" /\ UNCHANGED book
  BY DEF submit_market
<1>2. BookTypeOK /\ BookTypeOK' /\ CallTypeOK /\ BookInv' /\ LadderSound'
  BY <1>1, AtRest, BookUnchanged
<1>3. market_limit(side) \in Int
  <2>1. best[opposite(side)] \in Int
    BY <1>2, BandAssumption DEF BookTypeOK, opposite, Side, Price, kNoPrice
  <2> QED
    BY <2>1, BandAssumption, PolicyAssumption DEF market_limit, kMaxPrice, kMinPrice
<1>4. o \in Call
  BY <1>3 DEF Call, Tif
<1>5. CASE market_valid(o) /\ EnterMatch(o)
  <2>1. CallTypeOK' /\ pc' = "outer" /\ op' = o
    BY <1>2, <1>4, <1>5, StepEnterMatch
  <2>2. id \in OrderId \ index'
    BY <1>1, <1>5 DEF market_valid, Ptr, book
  <2> QED
    BY <1>2, <2>1, <2>2, BackAtRest
<1>6. CASE Return(o, NoResult)
  <2>1. CallTypeOK' /\ pc' = "done"
    BY <1>2, <1>4, <1>6, NoCallType, StepReturn
  <2> QED
    BY <1>2, <2>1, BackAtRest
<1> QED
  BY <1>5, <1>6 DEF submit_market

\* cancel preserves the invariant.
LEMMA Step_cancel ==
    ASSUME IInv, NEW id \in Ptr, cancel(id)
    PROVE  IInv'
<1> DEFINE o == [NoCall EXCEPT !.kind = "cancel", !.id = id]
           r == [NoResult EXCEPT !.ok = TRUE]
<1>1. pc = "idle" /\ BookTypeOK /\ CallTypeOK /\ BookInv /\ LadderSound
  BY AtRest DEF cancel
<1>2. o \in Call /\ r \in Result
  <2>1. NoCall \in Call /\ NoResult \in Result
    BY NoCallType
  <2> QED
    BY <2>1 DEF Call, Result
<1> HIDE DEF o, r
<1>3. CASE id \in index
  <2>1. remove_from_book(id) /\ Return(o, r)
    BY <1>3 DEF cancel, o, r
  <2>2. BookTypeOK' /\ BookInv' /\ LadderSound'
    BY <1>1, <1>3, <2>1, RemoveKeeps
  <2> QED
    BY <1>1, <1>2, <2>1, <2>2, StepReturn, BackAtRest
<1>4. CASE id \notin index
  <2>1. UNCHANGED book /\ Return(o, NoResult)
    BY <1>4 DEF cancel, o
  <2> QED
    BY <1>1, <1>2, <2>1, BookUnchanged, NoCallType, StepReturn, BackAtRest
<1> QED
  BY <1>3, <1>4

\* modify preserves the invariant, in place or by removal.
LEMMA Step_modify ==
    ASSUME IInv, NEW id \in Ptr, NEW new_px \in CallPrice, NEW new_qty \in Qty,
           modify(id, new_px, new_qty)
    PROVE  IInv'
<1> DEFINE o == [NoCall EXCEPT !.kind = "modify", !.id = id, !.px = new_px, !.qty = new_qty]
           amended == [NoResult EXCEPT !.found = TRUE, !.ok = TRUE, !.rested = TRUE]
           found == [NoResult EXCEPT !.found = TRUE]
           fresh == [o EXCEPT !.side = mem[id].side, !.owner = mem[id].owner]
<1>1. pc = "idle" /\ BookTypeOK /\ CallTypeOK /\ BookInv /\ LadderSound
  BY AtRest DEF modify
<1>2. /\ o \in Call /\ amended \in Result /\ found \in Result
      /\ o.id = id /\ o.px = new_px /\ o.qty = new_qty /\ new_px \in Int
  <2>1. NoCall \in Call /\ NoResult \in Result /\ new_px \in Int
    BY NoCallType, BandAssumption DEF CallPrice
  <2> QED
    BY <2>1 DEF Call, Result
<1> HIDE DEF o, amended, found
<1>3. CASE id \notin index
  <2>1. UNCHANGED book /\ Return(o, NoResult)
    BY <1>3 DEF modify, o
  <2> QED
    BY <1>1, <1>2, <2>1, BookUnchanged, NoCallType, StepReturn, BackAtRest
<1>4. CASE id \in index /\ ~amend_valid(o)
  <2>1. UNCHANGED book /\ Return(o, found)
    BY <1>4 DEF modify, o, found
  <2> QED
    BY <1>1, <1>2, <2>1, BookUnchanged, StepReturn, BackAtRest
<1>5. CASE id \in index /\ amend_valid(o) /\ keeps_priority(o)
  <2>1. amend_in_place(o) /\ Return(o, amended)
    BY <1>5 DEF modify, o, amended
  <2>2. PICK s, p, n : s = mem[id].side /\ p = mem[id].price
                       /\ n = level[s][p].total_qty - (mem[id].qty - new_qty)
    OBVIOUS
  <2>3. id \in pool /\ id \in OrderId /\ s \in Side /\ p \in Price /\ n \in Int /\ new_qty > 0
    <3>1. id \in pool /\ id \in OrderId
      BY <1>1, <1>5 DEF BookInv, IndexInSync, BookTypeOK
    <3>2. s \in Side /\ p \in Price /\ mem[id].qty \in Int
      BY <1>1, <2>2, <3>1, QtyAssumption DEF BookTypeOK, Order, Qty
    <3>3. level[s][p].total_qty \in Int
      BY <1>1, <3>2 DEF BookTypeOK, Level
    <3>4. new_qty \in Int /\ new_qty > 0
      BY <1>2, <1>5, QtyAssumption DEF amend_valid, Qty
    <3> QED
      BY <2>2, <3>1, <3>2, <3>3, <3>4
  <2>4. /\ mem' = [mem EXCEPT ![id].qty = new_qty]
        /\ level' = [level EXCEPT ![s][p].total_qty = n]
        /\ UNCHANGED <<pool, index, bits, best, older>>
    BY <1>2, <2>1, <2>2 DEF amend_in_place
  <2>5. BookTypeOK' /\ BookInv' /\ LadderSound'
    BY <1>1, <2>3, <2>4, QtyOnly
  <2> QED
    BY <1>1, <1>2, <2>1, <2>5, StepReturn, BackAtRest
<1>6. CASE id \in index /\ amend_valid(o) /\ ~keeps_priority(o)
  <2>1. remove_from_book(id) /\ EnterMatch(fresh)
    BY <1>6 DEF modify, o
  <2>2. BookTypeOK' /\ BookInv' /\ LadderSound' /\ id \notin index'
    BY <1>1, <1>6, <2>1, RemoveKeeps
  <2>3. id \in OrderId /\ new_px \in Price
    BY <1>1, <1>2, <1>6, InBand DEF BookTypeOK, amend_valid
  <2>4. mem[id].side \in Side /\ mem[id].owner \in Owner
    BY <1>1, <2>3 DEF BookTypeOK, Order
  <2>5. fresh \in Call /\ fresh.id = id /\ fresh.px = new_px
    BY <1>2, <2>4 DEF Call
  <2>6. CallTypeOK' /\ pc' = "outer" /\ op' = fresh
    BY <1>1, <2>1, <2>5, StepEnterMatch
  <2> QED
    BY <2>2, <2>3, <2>5, <2>6, BackAtRest
<1> QED
  BY <1>3, <1>4, <1>5, <1>6

\* What a step of the pre-check leaves alone, and where it leads.
LEMMA PreCheckStep ==
    ASSUME PreCheck
    PROVE  /\ pc \in {"fok", "walk"} /\ pc' \in {"fok", "walk", "outer", "done"}
           /\ UNCHANGED <<op, stopped, tape>>
           /\ pc' = "outer" => remaining' = op.qty
           /\ pc' # "outer" => remaining' = remaining
           /\ res' = IF pc' = "done" THEN Rejection ELSE res
<1>1. \A b : FokReturns(b) => /\ pc' \in {"outer", "done"} /\ UNCHANGED <<op, stopped, tape>>
                              /\ pc' = "outer" => remaining' = op.qty
                              /\ pc' # "outer" => remaining' = remaining
                              /\ res' = IF pc' = "done" THEN Rejection ELSE res
  BY DEF FokReturns
<1> QED
  BY <1>1 DEF PreCheck, FokEnd, FokTotal, FokWalk, FokOrder, FokLevelEnd, fok_level_read

\* The pre-check's cursor keeps its type.
LEMMA PreCheckCursor ==
    ASSUME BookTypeOK, CallTypeOK, PreCheck
    PROVE  lvl' \in Price \cup {kNoPrice} /\ cur' \in Ptr
<1>1. opp_side \in Side
  BY DEF CallTypeOK, Call, opp_side, opposite, Side
<1>2. bits[opp_side] \in SUBSET Price
  BY <1>1 DEF BookTypeOK
<1>3. scan_worse(opp_side, lvl, bits[opp_side]) \in Price \cup {kNoPrice}
  <2>1. PICK s, from, B : s = opp_side /\ from = lvl /\ B = bits[opp_side]
    OBVIOUS
  <2> QED
    BY <1>1, <1>2, <2>1, ScanWorse
<1>4. ASSUME NEW b, FokReturns(b) PROVE lvl' = kNoPrice /\ cur' = nil
  BY <1>4 DEF FokReturns
<1>5. ASSUME NEW n, fok_level_read(n) PROVE lvl' \in Price \cup {kNoPrice} /\ cur' = nil
  BY <1>3, <1>4, <1>5 DEF fok_level_read
<1>6. CASE FokEnd \/ FokTotal \/ FokLevelEnd
  BY <1>4, <1>5, <1>6 DEF FokEnd, FokTotal, FokLevelEnd, Ptr
<1>7. CASE FokWalk
  BY <1>1, <1>7 DEF FokWalk, fok_in_reach, CallTypeOK, BookTypeOK, Level
<1>8. CASE FokOrder
  <2>1. cur \in OrderId
    BY <1>8 DEF FokOrder, CallTypeOK, Ptr
  <2>2. mem[cur].next \in Ptr
    BY <2>1 DEF BookTypeOK, Order
  <2> QED
    BY <1>4, <1>8, <2>2 DEF FokOrder, CallTypeOK, Ptr
<1> QED
  BY <1>6, <1>7, <1>8 DEF PreCheck

\* The fill-or-kill pre-check preserves the invariant.
LEMMA Step_PreCheck == IInv /\ PreCheck /\ UNCHANGED book => IInv'
<1> SUFFICES ASSUME IInv, PreCheck, UNCHANGED book PROVE IInv'
  OBVIOUS
<1>1. /\ pc \in {"fok", "walk"} /\ pc' \in {"fok", "walk", "outer", "done"}
      /\ UNCHANGED <<op, stopped, tape>>
      /\ remaining' \in {remaining, op.qty} /\ res' \in {res, Rejection}
  BY PreCheckStep
<1>2. BookTypeOK /\ BookTypeOK' /\ CallTypeOK /\ BookInv' /\ LadderSound'
  BY <1>1, AtRest, BookUnchanged
<1>3. lvl' \in Price \cup {kNoPrice} /\ cur' \in Ptr
  BY <1>2, PreCheckCursor
<1>4. CallTypeOK'
  <2>1. op.qty \in Qty
    BY <1>2 DEF CallTypeOK, Call
  <2> QED
    BY <1>1, <1>2, <1>3, <2>1, RejectionType DEF CallTypeOK
<1>5. op'.id \in OrderId \ index' /\ (op'.kind # "market" => op'.px \in Price)
  BY <1>1 DEF IInv, SweepSound, book
<1> QED
  BY <1>1, <1>2, <1>4, <1>5, BackAtRest

\* The order match stands at: the oldest of the best level.
LEMMA AtCursor ==
    ASSUME IInv, pc = "inner", cur # nil
    PROVE  /\ opp_side \in Side /\ lvl \in Price /\ op.side \in Side
           /\ cur \in pool /\ cur \in OrderId
           /\ mem[cur].side = opp_side /\ mem[cur].price = lvl
           /\ cur = level[opp_side][lvl].head
           /\ older[cur] = {} /\ mem[cur].prev = nil
           /\ mem[cur].qty \in Int /\ mem[cur].qty > 0
           /\ remaining \in Int /\ remaining > 0
<1>1. op.side \in Side /\ opp_side \in Side
  BY DEF IInv, TypeOK, CallTypeOK, Call, opp_side, opposite, Side
<1>2. lvl \in Price /\ remaining \in Int /\ remaining > 0
  BY QtyAssumption DEF IInv, TypeOK, CallTypeOK, SweepSound, Qty
<1>3. cur = level[opp_side][lvl].head
  BY DEF IInv, SweepSound
<1>4. cur \in members(opp_side, lvl) /\ older[cur] = {}
  BY <1>1, <1>2, <1>3 DEF IInv, ListsAreFifo, ends_sound
<1>5. cur \in pool /\ mem[cur].side = opp_side /\ mem[cur].price = lvl
  BY <1>4 DEF members
<1>6. cur \in OrderId /\ mem[cur].qty \in Int /\ mem[cur].qty > 0
  <2>1. cur \in OrderId
    BY <1>5 DEF IInv, TypeOK, BookTypeOK
  <2>2. mem[cur].qty \in Int
    BY <2>1, QtyAssumption DEF IInv, TypeOK, BookTypeOK, Order, Qty
  <2>3. node_sound(cur)
    BY <1>5 DEF IInv, ListsAreFifo
  <2> QED
    BY <2>1, <2>2, <2>3 DEF node_sound
<1>7. mem[cur].prev = nil
  <2>1. node_sound(cur)
    BY <1>5 DEF IInv, ListsAreFifo
  <2> QED
    BY <1>4, <2>1 DEF node_sound
<1> QED
  BY <1>1, <1>2, <1>3, <1>4, <1>5, <1>6, <1>7

\* The head of match's outer loop preserves the invariant.
LEMMA Step_NextLevel == IInv /\ NextLevel => IInv'
<1> SUFFICES ASSUME IInv, NextLevel PROVE IInv'
  OBVIOUS
<1>1. pc = "outer" /\ UNCHANGED book /\ pc' = "inner" /\ op' = op /\ opp_side' = opp_side
  BY DEF NextLevel, opp_side
<1>2. BookTypeOK /\ CallTypeOK /\ BookInv' /\ LadderSound' /\ LadderSound
  BY <1>1, AtRest, BookUnchanged
<1>3. opp_side \in Side /\ best[opp_side] \in Price /\ lvl' = best[opp_side]
        /\ remaining > 0 /\ crosses(op.side, lvl', op.px)
  <2>1. opp_side \in Side
    BY <1>2 DEF CallTypeOK, Call, opp_side, opposite, Side
  <2>2. remaining > 0
    BY <1>2, QtyAssumption DEF CallTypeOK, NextLevel, sweep_over, Qty
  <2> QED
    BY <1>2, <2>1, <2>2 DEF NextLevel, sweep_over, BookTypeOK
<1>4. CallTypeOK'
  <2>1. cur' \in Ptr
    BY <1>2, <1>3 DEF NextLevel, BookTypeOK, Level
  <2> QED
    BY <1>2, <1>3, <2>1 DEF NextLevel, CallTypeOK
<1>5. LadderInSync'
  <2>1. lvl' \in bits'[opp_side]
    BY <1>1, <1>2, <1>3, BandAssumption DEF LadderSound, best_sound, book, kNoPrice, Price
  <2> QED
    BY <1>1, <1>2, <2>1 DEF LadderInSync, LadderSound, being_swept
<1>6. SweepSound'
  <2>1. op.id \in OrderId \ index' /\ (op.kind # "market" => op.px \in Price)
    BY <1>1 DEF IInv, SweepSound, book
  <2>2. lvl' = best'[opp_side] /\ lvl' # kNoPrice /\ crosses(op.side, lvl', op.px)
    BY <1>1, <1>3, BandAssumption DEF book, kNoPrice, Price
  <2>3. cur' = level'[opp_side][lvl'].head /\ remaining' > 0
    BY <1>1, <1>3 DEF NextLevel, book
  <2> QED
    BY <1>1, <2>1, <2>2, <2>3 DEF SweepSound
<1>7. BookTypeOK'
  BY <1>1, <1>2, BookUnchanged
<1> QED
  BY <1>2, <1>4, <1>5, <1>6, <1>7 DEF IInv, TypeOK, BookInv

\* A RejectIncoming stop preserves the invariant.
LEMMA Step_StpStop == IInv /\ StpStop => IInv'
<1> SUFFICES ASSUME IInv, StpStop PROVE IInv'
  OBVIOUS
<1>1. /\ pc = "inner" /\ pc' = "after" /\ UNCHANGED book /\ stopped' = TRUE
      /\ UNCHANGED <<op, remaining, lvl, cur, tape, res>>
  BY DEF StpStop
<1>2. BookTypeOK' /\ BookInv' /\ \A s \in Side, p \in Price : members(s, p)' = members(s, p)
  BY <1>1, BookUnchanged DEF IInv, TypeOK, BookInv
<1>3. CallTypeOK'
  BY <1>1 DEF IInv, TypeOK, CallTypeOK
<1>4. LadderInSync'
  BY <1>1, <1>2 DEF IInv, LadderInSync, being_swept, opp_side, bit_sound, best_sound, book
<1>5. SweepSound'
  BY <1>1 DEF IInv, SweepSound, opp_side, book
<1> QED
  BY <1>2, <1>3, <1>4, <1>5 DEF IInv, TypeOK, BookInv

\* Taking the front order off the level being swept, by a fill or by STP.
LEMMA TakeFront ==
    ASSUME IInv, pc = "inner", cur # nil, take_off(opp_side, lvl, cur),
           UNCHANGED <<bits, best, op, lvl>>, pc' \in {"inner", "after"},
           cur' = mem[cur].next, remaining' \in Int, pc' = "inner" => remaining' > 0
    PROVE  BookTypeOK' /\ BookInv' /\ LadderInSync' /\ SweepSound' /\ cur' \in Ptr
<1>0. PICK s, p, o : s = opp_side /\ p = lvl /\ o = cur
  OBVIOUS
<1>1. /\ s \in Side /\ p \in Price /\ o \in pool /\ o \in OrderId
      /\ mem[o].side = s /\ mem[o].price = p /\ mem[o].prev = nil
  BY <1>0, AtCursor
<1>2. TakenOff(s, p, o) /\ BookInv /\ BookTypeOK
  BY <1>0, <1>1 DEF TakenOff, IInv, TypeOK, BookInv
<1>3. BookInv'
  BY <1>2, TakeOffKeeps
<1>4. BookTypeOK'
  <2>1. bits' \in [Side -> SUBSET Price] /\ best' \in [Side -> Price \cup {kNoPrice}]
    BY <1>2 DEF BookTypeOK
  <2> QED
    BY <1>2, <2>1, TakeOffTypes DEF BookTypeOK
<1>5. /\ \A t \in Side, q \in Price : members(t, q)' = members(t, q) \ {o}
      /\ index' = index \ {o}
      /\ level'[s][p] = unlink_level(level[s][p], o)
  BY <1>2, TakeOffFields
<1>6. \A t \in Side, q \in Price : o \in members(t, q) <=> t = s /\ q = p
  BY <1>1 DEF members
<1>7. opp_side' = s /\ lvl' = p
  BY <1>0 DEF opp_side
<1>8. LadderInSync'
  <2>1. \A t \in Side : best_sound(t)'
    BY DEF IInv, LadderInSync, best_sound
  <2>2. ASSUME NEW t \in Side, NEW q \in Price
        PROVE  IF being_swept(t, q)' THEN q \in bits'[t] ELSE bit_sound(t, q)'
    <3>1. being_swept(t, q)' <=> being_swept(t, q)
      BY <1>0, <1>7 DEF being_swept
    <3>2. being_swept(t, q) <=> t = s /\ q = p
      BY <1>0 DEF being_swept
    <3>3. IF being_swept(t, q) THEN q \in bits[t] ELSE bit_sound(t, q)
      BY DEF IInv, LadderInSync
    <3> QED
      BY <1>5, <1>6, <3>1, <3>2, <3>3 DEF bit_sound
  <2> QED
    BY <2>1, <2>2 DEF LadderInSync
<1>9. cur' \in Ptr /\ cur' = level'[s][p].head
  <2>1. mem[o].next \in Ptr
    BY <1>1, <1>2 DEF BookTypeOK, Order
  <2> QED
    BY <1>0, <1>1, <1>5, <2>1 DEF unlink_level
<1>10. SweepSound'
  <2>1. /\ op.id \in OrderId \ index /\ (op.kind # "market" => op.px \in Price)
        /\ p = best[s] /\ p # kNoPrice /\ crosses(op.side, p, op.px)
    BY <1>0 DEF IInv, SweepSound
  <2> QED
    BY <1>5, <1>7, <1>9, <2>1 DEF SweepSound
<1> QED
  BY <1>3, <1>4, <1>8, <1>9, <1>10

\* A CancelResting kill preserves the invariant.
LEMMA Step_StpKill == IInv /\ StpKill => IInv'
<1> SUFFICES ASSUME IInv, StpKill PROVE IInv'
  OBVIOUS
<1>1. BookTypeOK' /\ BookInv' /\ LadderInSync' /\ SweepSound' /\ cur' \in Ptr
  <2>1. remaining' \in Int /\ remaining' > 0
    BY AtCursor DEF StpKill
  <2> QED
    BY <2>1, TakeFront DEF StpKill
<1>2. CallTypeOK'
  <2>1. Cancelled(cur) \in Event
    BY DEF Cancelled, Event, IInv, TypeOK, CallTypeOK
  <2>2. tape' \in Seq(Event)
    BY <2>1 DEF StpKill, IInv, TypeOK, CallTypeOK
  <2> QED
    BY <1>1, <2>2 DEF StpKill, IInv, TypeOK, CallTypeOK
<1> QED
  BY <1>1, <1>2 DEF IInv, TypeOK, BookInv

\* A trade is an event.
LEMMA TradeType ==
    ASSUME IInv, pc = "inner", cur # nil, NEW q \in Int
    PROVE  Append(tape, Trade(op.id, cur, lvl, q)) \in Seq(Event)
<1>1. op.id \in Ptr /\ cur \in Ptr /\ lvl \in Int
  BY AtCursor, BandAssumption DEF IInv, TypeOK, CallTypeOK, Call, Price, kNoPrice
<1>2. Trade(op.id, cur, lvl, q) \in Event
  BY <1>1 DEF Trade, Event
<1> QED
  BY <1>2 DEF IInv, TypeOK, CallTypeOK

\* A fill that uses up the maker preserves the invariant.
LEMMA Step_FullFill == IInv /\ FullFill => IInv'
<1> SUFFICES ASSUME IInv, FullFill PROVE IInv'
  OBVIOUS
<1>1. pc = "inner" /\ cur # nil /\ mem[cur].qty <= remaining /\ remaining' = remaining - mem[cur].qty
  BY DEF FullFill, fully_fills
<1>2. remaining' \in Qty /\ remaining' \in Int /\ (pc' = "inner" => remaining' > 0)
        /\ pc' \in {"inner", "after"}
  <2>1. mem[cur].qty \in Int /\ mem[cur].qty > 0 /\ remaining \in Int /\ remaining \in Qty
    BY <1>1, AtCursor DEF IInv, TypeOK, CallTypeOK
  <2>2. remaining' \in Qty /\ remaining' \in Int /\ remaining' >= 0
    BY <1>1, <2>1, QtyAssumption DEF Qty
  <2> QED
    BY <2>2 DEF FullFill
<1>3. BookTypeOK' /\ BookInv' /\ LadderInSync' /\ SweepSound' /\ cur' \in Ptr
  BY <1>1, <1>2, TakeFront DEF FullFill
<1>4. tape' \in Seq(Event)
  BY <1>1, AtCursor, TradeType DEF FullFill
<1>5. CallTypeOK'
  BY <1>2, <1>3, <1>4 DEF FullFill, IInv, TypeOK, CallTypeOK
<1> QED
  BY <1>3, <1>5 DEF IInv, TypeOK, BookInv

\* A fill that leaves some of the maker preserves the invariant.
LEMMA Step_PartialFill == IInv /\ PartialFill => IInv'
<1> SUFFICES ASSUME IInv, PartialFill PROVE IInv'
  OBVIOUS
<1>1. pc = "inner" /\ cur # nil /\ ~fully_fills /\ remaining' = 0 /\ pc' = "after"
        /\ UNCHANGED <<pool, index, bits, best, older, op, lvl, cur, stopped, res>>
  BY DEF PartialFill
<1>0. PICK s, p, o, q, n :
         /\ s = opp_side /\ p = lvl /\ o = cur
         /\ q = mem[cur].qty - remaining
         /\ n = level[opp_side][lvl].total_qty - remaining
  OBVIOUS
<1>2. s \in Side /\ p \in Price /\ o \in pool /\ o \in OrderId
        /\ mem[o].qty \in Qty /\ remaining \in Int /\ remaining > 0
  BY <1>0, <1>1, AtCursor DEF IInv, TypeOK, BookTypeOK, Order
<1>3. q \in Qty /\ q > 0
  BY <1>0, <1>1, <1>2, QtyAssumption DEF Qty, fully_fills
<1>4. n \in Int
  <2>1. level[s][p].total_qty \in Int
    BY <1>2 DEF IInv, TypeOK, BookTypeOK, Level
  <2> QED
    BY <1>0, <1>2, <2>1
<1>5. mem' = [mem EXCEPT ![o].qty = q] /\ level' = [level EXCEPT ![s][p].total_qty = n]
  BY <1>0 DEF PartialFill
<1>6. /\ BookTypeOK' /\ BookInv'
      /\ \A t \in Side, r \in Price :
            /\ members(t, r)' = members(t, r)
            /\ level'[t][r].head = level[t][r].head
  BY <1>1, <1>2, <1>3, <1>4, <1>5, QtyOnly DEF IInv, TypeOK, BookInv
<1>7. LadderInSync'
  BY <1>1, <1>6 DEF IInv, LadderInSync, being_swept, opp_side, bit_sound, best_sound
<1>8. SweepSound'
  BY <1>1 DEF IInv, SweepSound, opp_side
<1>9. CallTypeOK'
  <2>1. tape' \in Seq(Event)
    BY <1>1, <1>2, TradeType DEF PartialFill
  <2>2. remaining' \in Qty
    BY <1>1, QtyAssumption DEF Qty
  <2> QED
    BY <1>1, <2>1, <2>2 DEF IInv, TypeOK, CallTypeOK
<1> QED
  BY <1>6, <1>7, <1>8, <1>9 DEF IInv, TypeOK, BookInv

\* Leaving a level, emptied or not, preserves the invariant.
LEMMA Step_EndLevel == IInv /\ EndLevel => IInv'
<1> SUFFICES ASSUME IInv, EndLevel PROVE IInv'
  OBVIOUS
<1>0. PICK s, p : s = opp_side /\ p = lvl
  OBVIOUS
<1>1. pc \in {"inner", "after"} /\ pc' = "outer" /\ lvl' = kNoPrice /\ cur' = nil
        /\ UNCHANGED <<mem, pool, index, level, older, op, remaining, stopped, tape, res>>
  BY DEF EndLevel
<1>2. s \in Side /\ p \in Price
  BY <1>0, <1>1 DEF IInv, TypeOK, CallTypeOK, Call, opp_side, opposite, Side, SweepSound
<1>3. \A t \in Side, q \in Price : members(t, q)' = members(t, q)
  BY <1>1 DEF members
<1>4. level[s][p].head = nil <=> members(s, p) = {}
  <2>1. nil \notin members(s, p)
    BY NilAssumption DEF members, IInv, TypeOK, BookTypeOK
  <2> QED
    BY <1>2, <2>1 DEF IInv, ListsAreFifo, ends_sound
<1>5. \A t \in Side, q \in Price :
         IF t = s /\ q = p THEN q \in bits[t] ELSE bit_sound(t, q)
  BY <1>0, <1>1 DEF IInv, LadderInSync, being_swept
<1>6. \A t \in Side : best_sound(t)
  BY DEF IInv, LadderInSync
<1>7. /\ bits' \in [Side -> SUBSET Price]
      /\ best' \in [Side -> Price \cup {kNoPrice}]
      /\ LadderSound'
  <2>1. CASE level[s][p].head = nil
    <3>1. on_empty(s, p)
      BY <1>0, <2>1 DEF EndLevel
    <3>2. /\ bits' \in [Side -> SUBSET Price]
          /\ best' \in [Side -> Price \cup {kNoPrice}]
          /\ bits'[s] = bits[s] \ {p}
          /\ \A t \in Side \ {s} : bits'[t] = bits[t] /\ best'[t] = best[t]
          /\ best_sound(s) => best_sound(s)'
      BY <1>2, <3>1, OnEmpty DEF IInv, TypeOK, BookTypeOK
    <3>3. \A t \in Side : best_sound(t)'
      BY <1>6, <3>2 DEF best_sound
    <3>4. \A t \in Side, q \in Price : bit_sound(t, q)'
      BY <1>2, <1>3, <1>4, <1>5, <2>1, <3>2 DEF bit_sound
    <3> QED
      BY <3>2, <3>3, <3>4 DEF LadderSound
  <2>2. CASE level[s][p].head # nil
    <3>1. UNCHANGED <<bits, best>>
      BY <1>0, <2>2 DEF EndLevel
    <3>2. \A t \in Side : best_sound(t)'
      BY <1>6, <3>1 DEF best_sound
    <3>3. \A t \in Side, q \in Price : bit_sound(t, q)'
      BY <1>3, <1>4, <1>5, <2>2, <3>1 DEF bit_sound
    <3> QED
      BY <3>1, <3>2, <3>3 DEF IInv, TypeOK, BookTypeOK, LadderSound
  <2> QED
    BY <2>1, <2>2
<1>8. BookTypeOK'
  BY <1>1, <1>7 DEF IInv, TypeOK, BookTypeOK
<1>9. BookInv'
  <2>1. ArrivalOrder'
    BY <1>1 DEF IInv, ArrivalOrder, members
  <2>2. ListsAreFifo'
    <3>1. \A x \in pool : members(mem[x].side, mem[x].price)' = members(mem[x].side, mem[x].price)
      BY <1>1 DEF members
    <3>2. \A x \in pool : node_sound(x)'
      BY <1>1, <3>1 DEF IInv, ListsAreFifo, node_sound
    <3>3. \A t \in Side, q \in Price : ends_sound(t, q)'
      BY <1>1, <1>3 DEF IInv, ListsAreFifo, ends_sound
    <3> QED
      BY <1>1, <3>2, <3>3 DEF ListsAreFifo
  <2>3. NeverCrossed' /\ IndexInSync'
    BY <1>1 DEF IInv, NeverCrossed, IndexInSync
  <2> QED
    BY <2>1, <2>2, <2>3 DEF BookInv
<1>10. CallTypeOK'
  BY <1>1 DEF IInv, TypeOK, CallTypeOK, Ptr
<1>11. op'.id \in OrderId \ index' /\ (op'.kind # "market" => op'.px \in Price)
  BY <1>1 DEF IInv, SweepSound
<1> QED
  BY <1>1, <1>7, <1>8, <1>9, <1>10, <1>11, BackAtRest

\* The end of a call, with or without a remainder that rests, preserves the
\* invariant: what rests does not cross, for the sweep ended.
LEMMA Step_Finish == IInv /\ Finish => IInv'
<1> SUFFICES ASSUME IInv, Finish PROVE IInv'
  OBVIOUS
<1>1. pc = "outer" /\ pc' = "done" /\ sweep_over /\ UNCHANGED <<op, remaining, lvl, cur, stopped, tape>>
        /\ res' = match_result(rests)
  BY DEF Finish
<1>2. BookTypeOK /\ CallTypeOK /\ BookInv /\ LadderSound
  BY <1>1, AtRest
<1>3. CallTypeOK'
  <2>1. filled \in Int /\ rests \in BOOLEAN /\ stopped \in BOOLEAN
    BY <1>2, QtyAssumption DEF CallTypeOK, Call, Qty, filled, rests
  <2>2. match_result(rests) \in Result
    BY <2>1 DEF match_result, stp_rejected, NoResult, Result
  <2> QED
    BY <1>1, <1>2, <2>2 DEF CallTypeOK
<1>4. BookTypeOK' /\ BookInv' /\ LadderSound'
  <2>1. CASE rests
    <3>0. PICK id, s, px, qty, owner :
             /\ id = op.id /\ s = op.side /\ px = op.px /\ qty = remaining /\ owner = op.owner
      OBVIOUS
    <3>1. id \in OrderId \ pool /\ px \in Price
      BY <1>1, <2>1, <3>0 DEF IInv, SweepSound, rests, IndexInSync
    <3>2. s \in Side /\ owner \in Owner /\ qty \in Qty /\ qty > 0
      BY <1>2, <2>1, <3>0 DEF CallTypeOK, Call, rests
    <3>3. rest(id, s, px, qty, owner)
      BY <2>1, <3>0 DEF Finish
    <3>4. Rested(id, s, px, qty, owner)
      BY <1>2, <3>1, <3>2, <3>3 DEF Rested, BookInv
    <3>5. best[opposite(s)] = kNoPrice \/ ~crosses(s, best[opposite(s)], px)
      BY <1>1, <2>1, <3>0, <3>2 DEF sweep_over, rests, opp_side
    <3> QED
      BY <1>2, <3>4, <3>5, RestKeeps
  <2>2. CASE ~rests
    BY <1>2, <2>2, BookUnchanged DEF Finish
  <2> QED
    BY <2>1, <2>2
<1> QED
  BY <1>1, <1>3, <1>4, BackAtRest

\* Returning to the caller preserves the invariant.
LEMMA Step_Returned == IInv /\ Returned => IInv'
<1> SUFFICES ASSUME IInv, Returned PROVE IInv'
  OBVIOUS
<1>1. pc = "done" /\ pc' = "idle" /\ UNCHANGED book
  BY DEF Returned
<1>2. BookTypeOK' /\ BookInv' /\ LadderSound' /\ CallTypeOK
  BY <1>1, AtRest, BookUnchanged
<1>3. CallTypeOK'
  <2>1. tape' \in Seq(Event) /\ remaining' \in Qty
    BY QtyAssumption DEF Returned, Qty
  <2> QED
    BY <1>2, <2>1, NoCallType DEF Returned, CallTypeOK
<1> QED
  BY <1>1, <1>2, <1>3, BackAtRest

-----------------------------------------------------------------------------
(* The theorems *)

\* A stuttering step preserves the invariant.
LEMMA Stuttering == IInv /\ UNCHANGED vars => IInv'
<1> SUFFICES ASSUME IInv, UNCHANGED vars PROVE IInv'
  OBVIOUS
<1>1. UNCHANGED book /\ UNCHANGED call
  BY DEF vars
<1>2. BookTypeOK' /\ BookInv' /\ \A s \in Side, p \in Price : members(s, p)' = members(s, p)
  BY <1>1, BookUnchanged DEF IInv, TypeOK, BookInv
<1>3. CallTypeOK' /\ SweepSound'
  BY <1>1 DEF IInv, TypeOK, CallTypeOK, SweepSound, opp_side, book, call
<1>4. LadderInSync'
  BY <1>1, <1>2
  DEF IInv, LadderInSync, being_swept, opp_side, bit_sound, best_sound, book, call
<1> QED
  BY <1>2, <1>3, <1>4 DEF IInv, TypeOK, BookInv

\* Every step of the engine and of its callers preserves the invariant.
THEOREM Inductive == IInv /\ [Next]_vars => IInv'
<1> SUFFICES ASSUME IInv, [Next]_vars PROVE IInv'
  OBVIOUS
<1>1. CASE Engine
  BY <1>1, Step_NextLevel, Step_StpStop, Step_StpKill, Step_PartialFill, Step_FullFill,
     Step_EndLevel, Step_Finish, Step_Returned DEF Engine
<1>2. CASE Caller
  BY <1>2, Step_submit_limit, Step_submit_market, Step_cancel, Step_modify DEF Caller
<1>3. CASE PreCheck /\ UNCHANGED book
  BY <1>3, Step_PreCheck
<1>4. CASE UNCHANGED vars
  BY <1>4, Stuttering
<1> QED
  BY <1>1, <1>2, <1>3, <1>4 DEF Next

\* The invariant holds in every reachable state.
THEOREM Invariance == Spec => []IInv
  BY InitIInv, Inductive, PTL DEF Spec

\* The book's variables keep their types in every reachable state.
THEOREM TypeCorrect == Spec => []TypeOK
<1>1. Init => avail \in Int
  BY DEF Init
<1>2. IInv /\ avail \in Int /\ [Next]_vars => (avail \in Int)'
  <2> SUFFICES ASSUME IInv, avail \in Int, [Next]_vars PROVE avail' \in Int
    OBVIOUS
  <2>1. ASSUME NEW b, FokReturns(b) PROVE avail' \in Int
    BY <2>1 DEF FokReturns
  <2>2. ASSUME NEW n \in Int, fok_level_read(n) PROVE avail' \in Int
    BY <2>1, <2>2 DEF fok_level_read
  <2>3. CASE FokEnd \/ FokWalk \/ FokLevelEnd
    BY <2>1, <2>2, <2>3 DEF FokEnd, FokWalk, FokLevelEnd
  <2>4. CASE FokTotal
    <3>1. opp_side \in Side /\ lvl \in Price
      BY <2>4 DEF FokTotal, fok_in_reach, IInv, CallTypeOK, Call, opp_side, opposite, Side
    <3>2. level[opp_side][lvl].total_qty \in Int
      BY <3>1 DEF IInv, BookTypeOK, Level
    <3> QED
      BY <2>2, <2>4, <3>2 DEF FokTotal
  <2>5. CASE FokOrder
    <3>1. cur \in OrderId
      BY <2>5 DEF FokOrder, IInv, CallTypeOK, Ptr
    <3>2. mem[cur].qty \in Int
      BY <3>1, QtyAssumption DEF IInv, BookTypeOK, Order, Qty
    <3>3. avail' \in {avail, avail + mem[cur].qty} \/ \E b : FokReturns(b)
      BY <2>5 DEF FokOrder
    <3> QED
      BY <2>1, <3>2, <3>3
  <2>6. CASE UNCHANGED avail \/ UNCHANGED vars
    BY <2>6 DEF vars, call
  <2> QED
    BY <2>3, <2>4, <2>5, <2>6 DEF Next, PreCheck
<1>3. IInv /\ avail \in Int => TypeOK
  BY DEF IInv, TypeOK
<1> QED
  BY <1>1, <1>2, <1>3, Invariance, PTL DEF Spec

\* Every level's intrusive list is its live orders in arrival order.
THEOREM ListsCorrect == Spec => []ListsAreFifo
<1>1. IInv => ListsAreFifo
  BY DEF IInv
<1> QED
  BY <1>1, Invariance, PTL

\* Bitmap and cached best tick agree with the levels.
THEOREM LadderCorrect == Spec => []LadderInSync
<1>1. IInv => LadderInSync
  BY DEF IInv
<1> QED
  BY <1>1, Invariance, PTL

\* The id map holds exactly the live orders.
THEOREM IndexCorrect == Spec => []IndexInSync
<1>1. IInv => IndexInSync
  BY DEF IInv
<1> QED
  BY <1>1, Invariance, PTL

\* The locals of match stay true of the book across unlink and destroy.
THEOREM SweepCorrect == Spec => []SweepSound
<1>1. IInv => SweepSound
  BY DEF IInv
<1> QED
  BY <1>1, Invariance, PTL

\* The book is never crossed or locked, not even in the middle of a call.
THEOREM BookNeverCrossed == Spec => []NeverCrossed
<1>1. IInv => NeverCrossed
  BY DEF IInv
<1> QED
  BY <1>1, Invariance, PTL

-----------------------------------------------------------------------------
(* Action properties *)

\* An append to the tape is a report, and its event is what was appended.
LEMMA TapeGrows ==
    ASSUME IInv, NEW e, tape' = Append(tape, e)
    PROVE  reported /\ event = e
<1>1. tape \in Seq(Event)
  BY DEF IInv, TypeOK, CallTypeOK
<1> QED
  BY <1>1 DEF reported, event

\* Only the fills and the STP kill put anything on the tape.
LEMMA OnlySweepReports ==
    ASSUME IInv, [Next]_vars, reported
    PROVE  StpKill \/ PartialFill \/ FullFill
<1>1. Len(tape) \in Nat /\ tape' # tape /\ tape' # << >>
  <2>1. tape \in Seq(Event)
    BY DEF IInv, TypeOK, CallTypeOK
  <2>2. Len(tape) \in Nat
    BY <2>1
  <2> QED
    BY <2>2 DEF reported
<1>2. ~(Caller \/ UNCHANGED vars)
  <2>1. \A o, r : ~Return(o, r)
    BY <1>1 DEF Return
  <2>2. \A o : ~EnterMatch(o)
    BY <1>1 DEF EnterMatch
  <2>f. \A o : ~EnterFok(o)
    BY <1>1 DEF EnterFok
  <2>3. \A id, side, px, qty, tif, owner : ~submit_limit(id, side, px, qty, tif, owner)
    BY <2>1, <2>2, <2>f DEF submit_limit
  <2>4. \A id, side, qty, owner : ~submit_market(id, side, qty, owner)
    BY <2>1, <2>2 DEF submit_market
  <2>5. \A id : ~cancel(id)
    BY <2>1 DEF cancel
  <2>6. \A id, new_px, new_qty : ~modify(id, new_px, new_qty)
    BY <2>1, <2>2 DEF modify
  <2>7. ~UNCHANGED vars
    BY <1>1 DEF vars, call
  <2> QED
    BY <2>3, <2>4, <2>5, <2>6, <2>7 DEF Caller
<1>3. ~(NextLevel \/ StpStop \/ EndLevel \/ Finish \/ Returned)
  BY <1>1 DEF NextLevel, StpStop, EndLevel, Finish, Returned
<1>4. ~PreCheck
  BY <1>1, PreCheckStep
<1> QED
  BY <1>2, <1>3, <1>4 DEF Next, Engine

\* What a fill reports.
LEMMA FillTrades ==
    ASSUME IInv, PartialFill \/ FullFill
    PROVE  \E q \in Int : reported /\ event = Trade(op.id, cur, lvl, q)
<1>1. pc = "inner" /\ cur # nil
  BY DEF PartialFill, FullFill
<1>2. mem[cur].qty \in Int /\ remaining \in Int
  BY <1>1, AtCursor
<1>3. \E q \in Int : tape' = Append(tape, Trade(op.id, cur, lvl, q))
  BY <1>2 DEF PartialFill, FullFill
<1> QED
  BY <1>3, TapeGrows

\* A trade on the tape comes from one of the two fills.
LEMMA TradeIsFill ==
    ASSUME IInv, [Next]_vars, traded
    PROVE  /\ PartialFill \/ FullFill
           /\ pc = "inner" /\ cur # nil /\ ~self_trade
           /\ event.maker = cur /\ event.px = lvl
<1>1. StpKill \/ PartialFill \/ FullFill
  BY OnlySweepReports DEF traded
<1>2. ~StpKill
  <2> SUFFICES ASSUME StpKill PROVE FALSE
    OBVIOUS
  <2>1. event = Cancelled(cur)
    BY TapeGrows DEF StpKill
  <2> QED
    BY <2>1 DEF traded, Cancelled
<1>3. PICK q \in Int : event = Trade(op.id, cur, lvl, q)
  BY <1>1, <1>2, FillTrades
<1> QED
  BY <1>1, <1>2, <1>3 DEF Trade, PartialFill, FullFill

\* The order at the cursor is ahead of every other order of its side.
LEMMA CursorHasPriority ==
    ASSUME IInv, pc = "inner", cur # nil, NEW o \in pool, o # cur, mem[o].side = opp_side
    PROVE  ahead(cur, o)
<1>1. /\ opp_side \in Side /\ lvl \in Price /\ cur \in pool
      /\ mem[cur].side = opp_side /\ mem[cur].price = lvl /\ older[cur] = {}
  BY AtCursor
<1>2. mem[o].price \in Price /\ o \in members(opp_side, mem[o].price)
  BY DEF IInv, TypeOK, BookTypeOK, Order, members
<1>3. CASE mem[o].price = lvl
  <2>1. o \in members(mem[cur].side, mem[cur].price)
    BY <1>1, <1>2, <1>3
  <2>2. cur \in older[o] <=> o \notin older[cur]
    BY <1>1, <2>1 DEF IInv, ArrivalOrder
  <2> QED
    BY <1>1, <1>3, <2>2 DEF ahead
<1>4. CASE mem[o].price # lvl
  <2>1. mem[o].price \in bits[opp_side]
    BY <1>1, <1>2, <1>4 DEF IInv, LadderInSync, being_swept, bit_sound
  <2>2. lvl = best[opp_side]
    BY DEF IInv, SweepSound
  <2>3. ~better(opp_side, mem[o].price, lvl)
    BY <1>1, <2>1, <2>2 DEF IInv, LadderInSync, best_sound
  <2>4. lvl \in Int /\ mem[o].price \in Int
    BY <1>1, <1>2, BandAssumption DEF Price
  <2> QED
    BY <1>1, <1>4, <2>3, <2>4 DEF ahead, better
<1> QED
  BY <1>3, <1>4

\* Price-time priority: match only ever trades with the order that is first
\* on its side, at that order's price, within the taker's limit.
THEOREM PriorityHolds == Spec => TradesAtPriority
<1>1. ASSUME IInv, [Next]_vars PROVE PriorityStep
  <2> SUFFICES ASSUME traded PROVE PriorityStep
    BY DEF PriorityStep
  <2>1. pc = "inner" /\ cur # nil /\ event.maker = cur /\ event.px = lvl
    BY <1>1, TradeIsFill
  <2>2. cur \in pool /\ mem[cur].side = opp_side /\ mem[cur].price = lvl
    BY <1>1, <2>1, AtCursor
  <2>3. crosses(op.side, lvl, op.px)
    BY <1>1, <2>1 DEF IInv, SweepSound
  <2>4. \A o \in pool \ {cur} : mem[o].side = mem[cur].side => ahead(cur, o)
    BY <1>1, <2>1, <2>2, CursorHasPriority
  <2> QED
    BY <2>1, <2>2, <2>3, <2>4 DEF PriorityStep, opp_side
<1> QED
  BY <1>1, Invariance, PTL DEF Spec, TradesAtPriority

\* With self-trade prevention on, no trade pairs one owner group with itself.
THEOREM NoSelfTrade == Spec => SelfTradePrevented
<1>1. ASSUME IInv, [Next]_vars PROVE SelfTradeStep
  <2> SUFFICES ASSUME traded, stp_ # "None" PROVE SelfTradeStep
    BY DEF SelfTradeStep
  <2>1. ~self_trade /\ event.maker = cur
    BY <1>1, TradeIsFill
  <2> QED
    BY <2>1 DEF SelfTradeStep, self_trade, own
<1> QED
  BY <1>1, Invariance, PTL DEF Spec, SelfTradePrevented

\* The quantity of x after the step.
Left(x) == IF x \in pool' THEN mem'[x].qty ELSE 0

\* take_off takes the quantity of one order only.
LEMMA TakeOffLosesOne ==
    ASSUME NEW s, NEW p, NEW o, TakenOff(s, p, o), NEW x \in pool
    PROVE  Left(x) = IF x = o THEN 0 ELSE mem[x].qty
<1>1. x \in OrderId
  BY DEF TakenOff, BookTypeOK
<1>2. pool' = pool \ {o} /\ (x # o => mem'[x].qty = mem[x].qty)
  BY <1>1, TakeOffFields
<1> QED
  BY <1>2 DEF Left

\* Quantities of live orders are positive numbers.
LEMMA LiveQty ==
    ASSUME IInv, NEW x \in pool
    PROVE  mem[x].qty \in Int /\ mem[x].qty > 0 /\ x \in OrderId
             /\ mem[x].price \in Price /\ mem[x].side \in Side
<1>1. x \in OrderId /\ mem[x].qty \in Int /\ mem[x].price \in Price /\ mem[x].side \in Side
  BY QtyAssumption DEF IInv, TypeOK, BookTypeOK, Order, Qty
<1>2. node_sound(x)
  BY DEF IInv, ListsAreFifo
<1> QED
  BY <1>1, <1>2 DEF node_sound

\* A step that leaves orders and quantities alone loses nothing.
LEMMA SameBookNoLoss ==
    ASSUME UNCHANGED <<mem, pool>>
    PROVE  \A x \in pool : Left(x) = mem[x].qty
  BY DEF Left

\* What LossStep asks of one order.
Accounted(x) ==
    Left(x) # mem[x].qty =>
        /\ Left(x) < mem[x].qty
        /\ \/ pc = "idle" /\ op'.id = x /\ op'.kind \in {"cancel", "modify"}
           \/ reported /\ event = Trade(op.id, x, mem[x].price, mem[x].qty - Left(x))
           \/ reported /\ event = Cancelled(x) /\ Left(x) = 0

\* What cancel and modify do when they take an order off.
LEMMA RemoveAccounted ==
    ASSUME IInv, pc = "idle", NEW o \in index, remove_from_book(o),
           op'.id = o, op'.kind \in {"cancel", "modify"}, NEW x \in pool
    PROVE  Accounted(x)
<1>0. PICK s, p : s = mem[o].side /\ p = mem[o].price
  OBVIOUS
<1>1. TakenOff(s, p, o)
  BY <1>0 DEF TakenOff, IInv, TypeOK, IndexInSync, remove_from_book
<1>2. Left(x) = IF x = o THEN 0 ELSE mem[x].qty
  BY <1>1, TakeOffLosesOne
<1>3. mem[x].qty \in Int /\ mem[x].qty > 0
  BY LiveQty
<1> QED
  BY <1>2, <1>3 DEF Accounted

\* A resting order never loses quantity in silence.
THEOREM LossesReported == Spec => EveryLossIsReported
<1>1. ASSUME IInv, [Next]_vars PROVE LossStep
  <2> SUFFICES ASSUME NEW x \in pool PROVE Accounted(x)
    BY DEF LossStep, Accounted, Left
  <2> USE <1>1
  <2>0. mem[x].qty \in Int /\ mem[x].qty > 0 /\ x \in OrderId
    BY LiveQty
  <2>1. ASSUME UNCHANGED <<mem, pool>> PROVE Accounted(x)
    BY <2>1, SameBookNoLoss DEF Accounted
  <2>2. ASSUME pc = "inner", cur # nil, take_off(opp_side, lvl, cur)
        PROVE  Left(x) = IF x = cur THEN 0 ELSE mem[x].qty
    <3>1. TakenOff(opp_side, lvl, cur)
      BY <2>2, AtCursor DEF TakenOff, IInv, TypeOK
    <3> QED
      BY <3>1, TakeOffLosesOne
  <2>3. CASE NextLevel \/ StpStop \/ EndLevel \/ Returned \/ UNCHANGED book \/ UNCHANGED vars
    BY <2>1, <2>3 DEF NextLevel, StpStop, EndLevel, Returned, vars, book
  <2>4. CASE StpKill
    <3>1. reported /\ event = Cancelled(cur)
      BY <2>4, TapeGrows DEF StpKill
    <3> QED
      BY <2>0, <2>2, <2>4, <3>1 DEF StpKill, Accounted
  <2>5. CASE FullFill
    <3>1. reported /\ event = Trade(op.id, cur, lvl, mem[cur].qty)
      BY <2>5, TapeGrows DEF FullFill
    <3>2. mem[cur].price = lvl
      BY <2>5, AtCursor DEF FullFill
    <3> QED
      BY <2>0, <2>2, <2>5, <3>1, <3>2 DEF FullFill, Accounted
  <2>6. CASE PartialFill
    <3>1. reported /\ event = Trade(op.id, cur, lvl, remaining)
      BY <2>6, TapeGrows DEF PartialFill
    <3>2. /\ mem[cur].price = lvl /\ cur \in pool /\ cur \in OrderId
          /\ mem[cur].qty \in Int /\ remaining \in Int /\ remaining > 0
      BY <2>6, AtCursor DEF PartialFill
    <3>3. Left(x) = IF x = cur THEN mem[cur].qty - remaining ELSE mem[x].qty
      BY <2>0, <2>6, <3>2 DEF PartialFill, Left, IInv, TypeOK, BookTypeOK, Order
    <3> QED
      BY <2>0, <3>1, <3>2, <3>3 DEF Accounted
  <2>7. CASE Finish
    <3>1. CASE ~rests
      BY <2>1, <2>7, <3>1 DEF Finish, book
    <3>2. CASE rests
      <4>1. op.id \notin pool /\ pool' = pool \cup {op.id}
              /\ mem' = rest_mem(op.id, op.side, op.px, remaining, op.owner)
        BY <2>7, <3>2 DEF Finish, rest, IInv, SweepSound, IndexInSync
      <4>2. mem'[x].qty = mem[x].qty
        BY <2>0, <4>1 DEF rest_mem, IInv, TypeOK, BookTypeOK, Order
      <4> QED
        BY <4>1, <4>2 DEF Accounted, Left
    <3> QED
      BY <3>1, <3>2
  <2>8. ASSUME NEW id, NEW side, NEW px, NEW qty, NEW tif, NEW owner,
               submit_limit(id, side, px, qty, tif, owner) \/ submit_market(id, side, qty, owner)
        PROVE  Accounted(x)
    BY <2>1, <2>8 DEF submit_limit, submit_market, book
  <2>9. ASSUME NEW id, cancel(id) PROVE Accounted(x)
    <3>1. CASE id \notin index
      BY <2>1, <2>9, <3>1 DEF cancel, book
    <3>2. CASE id \in index
      <4>1. remove_from_book(id) /\ pc = "idle" /\ op'.id = id /\ op'.kind = "cancel"
        BY <2>9, <3>2 DEF cancel, Return, NoCall
      <4> QED
        BY <3>2, <4>1, RemoveAccounted
    <3> QED
      BY <3>1, <3>2
  <2>10. ASSUME NEW id \in Ptr, NEW new_px \in CallPrice, NEW new_qty \in Qty,
                modify(id, new_px, new_qty)
         PROVE  Accounted(x)
    <3> DEFINE o == [NoCall EXCEPT !.kind = "modify", !.id = id, !.px = new_px, !.qty = new_qty]
    <3>1. o.id = id /\ o.kind = "modify" /\ o.px = new_px /\ o.qty = new_qty
      BY DEF NoCall
    <3>2. pc = "idle"
      BY <2>10 DEF modify
    <3> HIDE DEF o
    <3>3. CASE id \notin index \/ ~amend_valid(o)
      BY <2>1, <2>10, <3>3 DEF modify, book, o
    <3>4. CASE id \in index /\ amend_valid(o) /\ keeps_priority(o)
      <4>1. amend_in_place(o) /\ op' = o
        BY <2>10, <3>4 DEF modify, Return, o
      <4>2. /\ mem' = [mem EXCEPT ![id].qty = new_qty] /\ pool' = pool
            /\ new_qty <= mem[id].qty /\ id \in OrderId
        BY <3>1, <3>4, <4>1 DEF amend_in_place, keeps_priority, IInv, TypeOK, BookTypeOK
      <4>3. Left(x) = IF x = id THEN new_qty ELSE mem[x].qty
        BY <2>0, <4>2 DEF Left, IInv, TypeOK, BookTypeOK, Order
      <4>4. new_qty \in Int
        BY QtyAssumption DEF Qty
      <4> QED
        BY <2>0, <3>1, <3>2, <4>1, <4>2, <4>3, <4>4 DEF Accounted
    <3>5. CASE id \in index /\ amend_valid(o) /\ ~keeps_priority(o)
      <4>1. remove_from_book(id)
              /\ EnterMatch([o EXCEPT !.side = mem[id].side, !.owner = mem[id].owner])
        BY <2>10, <3>5 DEF modify, o
      <4>2. op'.id = id /\ op'.kind = "modify"
        BY <4>1 DEF EnterMatch, o, NoCall
      <4> QED
        BY <3>2, <3>5, <4>1, <4>2, RemoveAccounted
    <3> QED
      BY <3>3, <3>4, <3>5
  <2> QED
    BY <2>3, <2>4, <2>5, <2>6, <2>7, <2>8, <2>9, <2>10 DEF Next, Engine, Caller
<1> QED
  BY <1>1, Invariance, PTL DEF Spec, EveryLossIsReported

-----------------------------------------------------------------------------
(* Termination of the sweep *)

\* When the inner loop is left before the end of the level, the outer one is
\* over too.
AfterOver == pc = "after" => stopped \/ remaining = 0

\* A call begins when the engine is idle, and returns or enters the pre-check
\* or match.
LEMMA CallsBeginIdle ==
    ASSUME Caller PROVE pc = "idle" /\ pc' \in {"fok", "outer", "done"}
<1>1. \A o, r : Return(o, r) => pc' = "done"
  BY DEF Return
<1>2. \A o : EnterMatch(o) => pc' = "outer"
  BY DEF EnterMatch
<1>3. \A id, side, px, qty, tif, owner :
         submit_limit(id, side, px, qty, tif, owner) => pc = "idle" /\ pc' \in {"fok", "outer", "done"}
  BY <1>1, <1>2 DEF submit_limit, EnterFok
<1>4. \A id, side, qty, owner :
         submit_market(id, side, qty, owner) => pc = "idle" /\ pc' \in {"outer", "done"}
  BY <1>1, <1>2 DEF submit_market
<1>5. \A id : cancel(id) => pc = "idle" /\ pc' \in {"outer", "done"}
  BY <1>1 DEF cancel
<1>6. \A id, new_px, new_qty : modify(id, new_px, new_qty) => pc = "idle" /\ pc' \in {"outer", "done"}
  BY <1>1, <1>2 DEF modify
<1> QED
  BY <1>3, <1>4, <1>5, <1>6 DEF Caller

\* Leaving the inner loop early ends the sweep.
LEMMA LeavingIsFinal == Spec => []AfterOver
<1>1. Init => AfterOver
  BY DEF Init, AfterOver
<1>2. AfterOver /\ [Next]_vars => AfterOver'
  <2> SUFFICES ASSUME AfterOver, [Next]_vars, pc' = "after" PROVE stopped' \/ remaining' = 0
    BY DEF AfterOver
  <2>1. ~Caller
    BY CallsBeginIdle
  <2>2. ~(NextLevel \/ StpKill \/ EndLevel \/ Finish \/ Returned)
    BY DEF NextLevel, StpKill, EndLevel, Finish, Returned
  <2>3. CASE StpStop
    BY <2>3 DEF StpStop
  <2>4. CASE PartialFill
    BY <2>4 DEF PartialFill
  <2>5. CASE FullFill
    BY <2>5 DEF FullFill
  <2>6. CASE UNCHANGED vars
    BY <2>6 DEF AfterOver, vars, call
  <2>7. ~PreCheck
    BY PreCheckStep
  <2> QED
    BY <2>1, <2>2, <2>3, <2>4, <2>5, <2>6, <2>7 DEF Next, Engine
<1> QED
  BY <1>1, <1>2, PTL DEF Spec

\* Taking an order off makes the pool smaller.
LEMMA TakingShrinks ==
    ASSUME IInv, pc = "inner", cur # nil, take_off(opp_side, lvl, cur)
    PROVE  pool' # pool /\ pool' \subseteq pool
<1>1. cur \in pool
  BY AtCursor
<1> QED
  BY <1>1 DEF take_off

\* The end of a level clears its bit, or the sweep is over.
LEMMA LevelEndProgress ==
    ASSUME IInv, AfterOver, EndLevel
    PROVE  ProgressStep
<1>0. PICK s, p : s = opp_side /\ p = lvl
  OBVIOUS
<1>1. pc \in {"inner", "after"} /\ pc' = "outer"
        /\ UNCHANGED <<pool, remaining, stopped>>
  BY DEF EndLevel
<1>2. s \in Side /\ p \in Price /\ p \in bits[s]
  <2>1. s \in Side /\ p \in Price
    BY <1>0, <1>1 DEF IInv, TypeOK, CallTypeOK, Call, opp_side, opposite, Side, SweepSound
  <2> QED
    BY <1>0, <1>1, <2>1 DEF IInv, LadderInSync, being_swept
<1>3. CASE level[s][p].head = nil
  <2>1. on_empty(s, p)
    BY <1>0, <1>3 DEF EndLevel
  <2>2. bits'[s] = bits[s] \ {p}
    BY <1>2, <2>1, OnEmpty DEF IInv, TypeOK, BookTypeOK
  <2> QED
    BY <1>0, <1>2, <2>2 DEF ProgressStep
<1>4. CASE level[s][p].head # nil
  <2>1. bits' = bits
    BY <1>0, <1>4 DEF EndLevel
  <2>2. pc = "after"
    BY <1>0, <1>1, <1>4 DEF EndLevel, IInv, SweepSound
  <2>3. sweep_over'
    BY <1>1, <2>2 DEF AfterOver, sweep_over
  <2>4. phase = 2 /\ phase' = 1
    BY <1>1, <2>2, <2>3 DEF phase
  <2> QED
    BY <1>1, <2>1, <2>4 DEF ProgressStep
<1> QED
  BY <1>3, <1>4

\* match always comes to an end: every step of it clears a bit, takes an order
\* off, or comes nearer to the exit of its loops.
LEMMA MatchTerminates == Spec => [][ProgressStep]_vars
<1>1. ASSUME IInv, AfterOver, [Next]_vars PROVE [ProgressStep]_vars
  <2> SUFFICES ASSUME Next, pc \in {"outer", "inner", "after"}, pc' # "done" PROVE ProgressStep
    BY <1>1 DEF ProgressStep
  <2>1. ~(Caller \/ Finish \/ Returned \/ PreCheck)
    BY CallsBeginIdle, PreCheckStep DEF Finish, Returned
  <2>2. CASE NextLevel
    <3>1. phase = 4 /\ phase' = 3
      BY <2>2 DEF NextLevel, phase
    <3> QED
      BY <2>2, <3>1 DEF NextLevel, book, ProgressStep
  <2>3. CASE StpStop \/ PartialFill
    <3>1. phase = 3 /\ phase' = 2
      BY <2>3 DEF StpStop, PartialFill, phase
    <3> QED
      BY <2>3, <3>1 DEF StpStop, PartialFill, book, ProgressStep
  <2>4. CASE StpKill \/ FullFill
    <3>1. bits' = bits /\ pool' # pool /\ pool' \subseteq pool
      BY <1>1, <2>4, TakingShrinks DEF StpKill, FullFill
    <3> QED
      BY <3>1 DEF ProgressStep
  <2>5. CASE EndLevel
    BY <1>1, <2>5, LevelEndProgress
  <2> QED
    BY <2>1, <2>2, <2>3, <2>4, <2>5 DEF Next, Engine
<1> QED
  BY <1>1, Invariance, LeavingIsFinal, PTL DEF Spec

-----------------------------------------------------------------------------
(* Totals and counts *)

\* One entry of quantity q is worth q unit lots.
LEMMA UnitsOfOne ==
    ASSUME NEW x, NEW q \in Nat
    PROVE  IsFiniteSet({x} \X (1 .. q)) /\ Cardinality({x} \X (1 .. q)) = q
<1>1. IsFiniteSet({x}) /\ Cardinality({x}) = 1
  BY FS_Singleton
<1>2. IsFiniteSet(1 .. q) /\ Cardinality(1 .. q) = q
  BY FS_Interval
<1>3. PICK A, B : A = {x} /\ B = 1 .. q
  OBVIOUS
<1>4. IsFiniteSet(A \X B) /\ Cardinality(A \X B) = Cardinality(A) * Cardinality(B)
  BY <1>1, <1>2, <1>3, FS_Product
<1>5. 1 * q = q
  OBVIOUS
<1> QED
  BY <1>1, <1>2, <1>3, <1>4, <1>5

\* The lots of a set are those of one entry and those of the others.
LEMMA UnitsSplit ==
    ASSUME NEW f, NEW S, NEW x, x \notin S, f[x].qty \in Nat, IsFiniteSet(units(f, S))
    PROVE  /\ IsFiniteSet(units(f, S \cup {x}))
           /\ Cardinality(units(f, S)) \in Nat
           /\ Cardinality(units(f, S \cup {x})) = Cardinality(units(f, S)) + f[x].qty
<1> DEFINE A == units(f, S)
           B == {x} \X (1 .. f[x].qty)
<1>1. units(f, S \cup {x}) = A \cup B
  BY DEF units
<1>2. A \cap B = {}
  BY DEF units
<1>3. IsFiniteSet(B) /\ Cardinality(B) = f[x].qty
  BY UnitsOfOne
<1>4. IsFiniteSet(A) /\ Cardinality(A) \in Nat
  BY FS_CardinalityType
<1> HIDE DEF A, B
<1>5. IsFiniteSet(A \cup B)
        /\ Cardinality(A \cup B) = Cardinality(A) + Cardinality(B) - Cardinality(A \cap B)
  BY <1>3, <1>4, FS_Union
<1>6. Cardinality(A \cap B) = 0
  BY <1>2, FS_EmptySet
<1> QED
  <2>1. Cardinality(A \cup B) = Cardinality(A) + f[x].qty
    BY <1>3, <1>4, <1>5, <1>6
  <2> QED
    BY <1>1, <1>4, <1>5, <2>1 DEF A

\* The lots of a set depend on the quantities only.
LEMMA UnitsSame ==
    ASSUME NEW f, NEW g, NEW S, \A x \in S : f[x].qty = g[x].qty
    PROVE  units(f, S) = units(g, S)
  BY DEF units

\* Finitely many bounded quantities make finitely many lots.
LEMMA UnitsFinite ==
    ASSUME NEW f, NEW S, IsFiniteSet(S), \A x \in S : f[x].qty \in Qty
    PROVE  IsFiniteSet(units(f, S))
<1>1. units(f, S) \subseteq S \X (1 .. MaxQty)
  BY QtyAssumption DEF units, Qty
<1>2. IsFiniteSet(1 .. MaxQty)
  BY QtyAssumption, FS_Interval
<1>3. IsFiniteSet(S \X (1 .. MaxQty))
  BY <1>2, FS_Product
<1> QED
  BY <1>1, <1>3, FS_Subset

\* An order's quantity becomes q, and its level's total_qty follows.
Requantified(o, q) ==
    /\ BookTypeOK /\ BookInv
    /\ o \in pool /\ q \in Qty /\ q > 0
    /\ mem' = [mem EXCEPT ![o].qty = q]
    /\ level' = [level EXCEPT ![mem[o].side][mem[o].price].total_qty = @ - (mem[o].qty - q)]
    /\ pool' = pool

\* The four things a step can do to the orders on the book.
LEMMA BookSteps ==
    ASSUME IInv, [Next]_vars
    PROVE  \/ UNCHANGED <<mem, pool, level>>
           \/ \E s, p, o : TakenOff(s, p, o)
           \/ \E id, s, px, qty, owner : Rested(id, s, px, qty, owner)
           \/ \E o, q : Requantified(o, q)
<1> DEFINE Goal == \/ UNCHANGED <<mem, pool, level>>
                   \/ \E s, p, o : TakenOff(s, p, o)
                   \/ \E id, s, px, qty, owner : Rested(id, s, px, qty, owner)
                   \/ \E o, q : Requantified(o, q)
<1> HIDE DEF Goal
<1>0. BookTypeOK /\ BookInv /\ CallTypeOK
  BY DEF IInv, TypeOK, BookInv
<1>1. ASSUME UNCHANGED <<mem, pool, level>> PROVE Goal
  BY <1>1 DEF Goal
<1>2. ASSUME NEW o \in index, remove_from_book(o) PROVE Goal
  <2>1. TakenOff(mem[o].side, mem[o].price, o)
    BY <1>0, <1>2 DEF TakenOff, BookInv, IndexInSync, remove_from_book
  <2> QED
    BY <2>1 DEF Goal
<1>3. CASE NextLevel \/ StpStop \/ EndLevel \/ Returned \/ UNCHANGED book \/ UNCHANGED vars
  BY <1>1, <1>3 DEF NextLevel, StpStop, EndLevel, Returned, vars, book
<1>4. CASE StpKill \/ FullFill
  <2>1. pc = "inner" /\ cur # nil /\ take_off(opp_side, lvl, cur)
    BY <1>4 DEF StpKill, FullFill
  <2>2. TakenOff(opp_side, lvl, cur)
    BY <1>0, <2>1, AtCursor DEF TakenOff, BookInv
  <2> QED
    BY <2>2 DEF Goal
<1>5. CASE PartialFill
  <2>1. pc = "inner" /\ cur # nil /\ ~fully_fills
    BY <1>5 DEF PartialFill
  <2>2. /\ cur \in pool /\ cur \in OrderId /\ mem[cur].side = opp_side /\ mem[cur].price = lvl
        /\ opp_side \in Side /\ lvl \in Price
        /\ mem[cur].qty \in Qty /\ remaining \in Int /\ remaining > 0
    BY <2>1, AtCursor DEF IInv, TypeOK, BookTypeOK, Order
  <2>3. mem[cur].qty - remaining \in Qty /\ mem[cur].qty - remaining > 0
    BY <2>1, <2>2, QtyAssumption DEF Qty, fully_fills
  <2>4. mem[cur].qty - (mem[cur].qty - remaining) = remaining
    BY <2>2, QtyAssumption DEF Qty
  <2>5. Requantified(cur, mem[cur].qty - remaining)
    BY <1>0, <1>5, <2>2, <2>3, <2>4 DEF Requantified, PartialFill
  <2> QED
    BY <2>5 DEF Goal
<1>6. CASE Finish
  <2>1. CASE ~rests
    BY <1>1, <1>6, <2>1 DEF Finish, book
  <2>2. CASE rests
    <3>1. op.id \in OrderId \ pool /\ op.px \in Price
      BY <1>6, <2>2 DEF Finish, IInv, SweepSound, rests, IndexInSync
    <3>2. op.side \in Side /\ op.owner \in Owner /\ remaining \in Qty /\ remaining > 0
      BY <1>0, <2>2 DEF CallTypeOK, Call, rests
    <3>3. Rested(op.id, op.side, op.px, remaining, op.owner)
      BY <1>0, <1>6, <2>2, <3>1, <3>2 DEF Rested, BookInv, Finish
    <3> QED
      BY <3>3 DEF Goal
  <2> QED
    BY <2>1, <2>2
<1>7. ASSUME NEW id, NEW side, NEW px, NEW qty, NEW tif, NEW owner,
             submit_limit(id, side, px, qty, tif, owner) \/ submit_market(id, side, qty, owner)
      PROVE  Goal
  BY <1>1, <1>7 DEF submit_limit, submit_market, book
<1>8. ASSUME NEW id, cancel(id) PROVE Goal
  BY <1>1, <1>2, <1>8 DEF cancel, book
<1>9. ASSUME NEW id \in Ptr, NEW new_px \in CallPrice, NEW new_qty \in Qty,
             modify(id, new_px, new_qty)
      PROVE  Goal
  <2> DEFINE o == [NoCall EXCEPT !.kind = "modify", !.id = id, !.px = new_px, !.qty = new_qty]
  <2>1. o.id = id /\ o.qty = new_qty
    BY DEF NoCall
  <2> HIDE DEF o
  <2>2. CASE id \notin index \/ ~amend_valid(o)
    BY <1>1, <1>9, <2>2 DEF modify, book, o
  <2>3. CASE id \in index /\ amend_valid(o) /\ keeps_priority(o)
    <3>1. amend_in_place(o)
      BY <1>9, <2>3 DEF modify, o
    <3>2. id \in pool /\ new_qty > 0
      BY <1>0, <2>1, <2>3, QtyAssumption DEF BookInv, IndexInSync, amend_valid, Qty
    <3>3. Requantified(id, new_qty)
      BY <1>0, <2>1, <3>1, <3>2 DEF Requantified, amend_in_place
    <3> QED
      BY <3>3 DEF Goal
  <2>4. CASE id \in index /\ amend_valid(o) /\ ~keeps_priority(o)
    <3>1. remove_from_book(id)
      BY <1>9, <2>4 DEF modify, o
    <3> QED
      BY <1>2, <2>4, <3>1
  <2> QED
    BY <2>2, <2>3, <2>4
<1> QED
  BY <1>3, <1>4, <1>5, <1>6, <1>7, <1>8, <1>9 DEF Next, Engine, Caller, Goal

\* The book holds finitely many orders and every level counts its own.
TotalsInv == IsFiniteSet(pool) /\ TotalsExact

\* The lots of a level, of the rest of it and of one of its orders.
LEMMA LotsWithout ==
    ASSUME BookTypeOK, IsFiniteSet(pool), NEW S \in SUBSET pool, NEW o \in S
    PROVE  /\ lots(S \ {o}) \in Nat /\ mem[o].qty \in Nat
           /\ lots(S) = lots(S \ {o}) + mem[o].qty
           /\ Cardinality(S \ {o}) = Cardinality(S) - 1 /\ Cardinality(S) \in Nat
<1>0. PICK f : f = mem
  OBVIOUS
<1>1. IsFiniteSet(S) /\ IsFiniteSet(S \ {o}) /\ \A x \in S : f[x].qty \in Qty /\ f[x].qty \in Nat
  BY <1>0, FS_Subset, FS_RemoveElement, QtyAssumption DEF BookTypeOK, Order, Qty
<1>2. IsFiniteSet(units(f, S \ {o}))
  BY <1>1, UnitsFinite
<1>3. (S \ {o}) \cup {o} = S /\ o \notin S \ {o}
  OBVIOUS
<1>4. /\ Cardinality(units(f, S \ {o})) \in Nat
      /\ Cardinality(units(f, (S \ {o}) \cup {o})) = Cardinality(units(f, S \ {o})) + f[o].qty
  BY <1>1, <1>2, <1>3, UnitsSplit
<1>5. Cardinality(S \ {o}) = Cardinality(S) - 1 /\ Cardinality(S) \in Nat
  BY <1>1, FS_RemoveElement, FS_CardinalityType
<1> QED
  BY <1>0, <1>1, <1>3, <1>4, <1>5 DEF lots

\* The lots of the same orders with the same quantities.
LEMMA LotsSame ==
    ASSUME NEW S, \A x \in S : mem'[x].qty = mem[x].qty
    PROVE  Cardinality(units(mem', S)) = lots(S)
<1>0. PICK f, g : f = mem /\ g = mem'
  OBVIOUS
<1>1. units(g, S) = units(f, S)
  BY <1>0, UnitsSame
<1> QED
  BY <1>0, <1>1 DEF lots

\* take_off takes an order's quantity out of its level's total.
LEMMA TakeOffTotals ==
    ASSUME NEW s, NEW p, NEW o, TakenOff(s, p, o), TotalsInv
    PROVE  TotalsInv'
<1>1. /\ BookTypeOK /\ s \in Side /\ p \in Price /\ o \in OrderId /\ o \in pool
      /\ mem[o].side = s /\ mem[o].price = p
  BY TakeOffFields DEF TakenOff
<1>2. /\ \A x \in OrderId \ {o} : mem'[x].qty = mem[x].qty
      /\ \A t \in Side, q \in Price : members(t, q)' = members(t, q) \ {o}
      /\ pool' = pool \ {o}
      /\ \A t \in Side, q \in Price : (t # s \/ q # p) => level'[t][q] = level[t][q]
      /\ level'[s][p] = unlink_level(level[s][p], o)
  BY TakeOffFields
<1>3. IsFiniteSet(pool')
  BY <1>2, FS_RemoveElement DEF TotalsInv
<1>4. ASSUME NEW t \in Side, NEW q \in Price
      PROVE  /\ level'[t][q].total_qty = lots(members(t, q))'
             /\ level'[t][q].count = Cardinality(members(t, q)')
  <2>0. PICK M : M = members(t, q)
    OBVIOUS
  <2>1. /\ level[t][q].total_qty = lots(M) /\ level[t][q].count = Cardinality(M)
        /\ M \subseteq pool /\ M \subseteq OrderId /\ members(t, q)' = M \ {o}
    BY <1>1, <1>2, <2>0 DEF TotalsInv, TotalsExact, members, BookTypeOK
  <2>2. lots(members(t, q))' = Cardinality(units(mem', M \ {o}))
    BY <2>1 DEF lots
  <2>3. \A x \in M \ {o} : mem'[x].qty = mem[x].qty
    BY <1>2, <2>1
  <2>4. Cardinality(units(mem', M \ {o})) = lots(M \ {o})
    BY <2>3, LotsSame
  <2>5. CASE t = s /\ q = p
    <3>1. o \in M
      BY <1>1, <2>0, <2>5 DEF members
    <3>2. /\ lots(M \ {o}) \in Nat /\ mem[o].qty \in Nat /\ lots(M) = lots(M \ {o}) + mem[o].qty
          /\ Cardinality(M \ {o}) = Cardinality(M) - 1 /\ Cardinality(M) \in Nat
      BY <1>1, <2>1, <3>1, LotsWithout DEF TotalsInv
    <3>3. level'[t][q].total_qty = lots(M) - mem[o].qty /\ level'[t][q].count = Cardinality(M) - 1
      BY <1>2, <2>1, <2>5 DEF unlink_level
    <3> QED
      BY <2>1, <2>2, <2>4, <3>2, <3>3
  <2>6. CASE t # s \/ q # p
    <3>1. M \ {o} = M
      BY <1>1, <2>0, <2>6 DEF members
    <3> QED
      BY <1>2, <2>1, <2>2, <2>4, <2>6, <3>1
  <2> QED
    BY <2>5, <2>6
<1> QED
  BY <1>3, <1>4 DEF TotalsInv, TotalsExact

\* rest adds an order's quantity to its level's total.
LEMMA RestTotals ==
    ASSUME NEW id, NEW s, NEW px, NEW qty, NEW owner, Rested(id, s, px, qty, owner), TotalsInv
    PROVE  TotalsInv'
<1>1. BookTypeOK /\ id \in OrderId /\ id \notin pool /\ s \in Side /\ px \in Price
        /\ qty \in Nat
  BY QtyAssumption DEF Rested, Qty
<1>2. /\ \A x \in OrderId \ {id} : mem'[x].qty = mem[x].qty
      /\ mem'[id].qty = qty
      /\ pool' = pool \cup {id}
      /\ \A t \in Side, q \in Price :
            members(t, q)' = IF t = s /\ q = px THEN members(s, px) \cup {id} ELSE members(t, q)
      /\ \A t \in Side, q \in Price : t # s \/ q # px => level'[t][q] = level[t][q]
      /\ level'[s][px] = rest_level(level[s][px], id, qty)
  <2>1. RestFacts(id, s, px, qty, owner)
    BY RestFields
  <2>2. mem'[id] = [qty |-> qty, owner |-> owner, next |-> nil,
                    prev |-> level[s][px].tail, price |-> px, side |-> s]
    BY <2>1 DEF RestFacts
  <2>3. mem'[id].qty = qty
    BY <2>2
  <2> QED
    BY <2>1, <2>3 DEF RestFacts
<1>3. IsFiniteSet(pool')
  BY <1>2, FS_AddElement DEF TotalsInv
<1>4. ASSUME NEW t \in Side, NEW q \in Price
      PROVE  /\ level'[t][q].total_qty = lots(members(t, q))'
             /\ level'[t][q].count = Cardinality(members(t, q)')
  <2>0. PICK M, g : M = members(t, q) /\ g = mem'
    OBVIOUS
  <2>1. /\ level[t][q].total_qty = lots(M) /\ level[t][q].count = Cardinality(M)
        /\ M \subseteq pool /\ M \subseteq OrderId /\ id \notin M
    BY <1>1, <2>0 DEF TotalsInv, TotalsExact, members, BookTypeOK
  <2>2. lots(members(t, q))' = Cardinality(units(g, members(t, q)'))
    BY <2>0 DEF lots
  <2>3. Cardinality(units(g, M)) = lots(M)
    <3>1. \A x \in M : mem'[x].qty = mem[x].qty
      BY <1>2, <2>1
    <3> QED
      BY <2>0, <3>1, LotsSame
  <2>4. CASE t = s /\ q = px
    <3>1. IsFiniteSet(M) /\ \A x \in M : g[x].qty \in Qty
      BY <1>1, <1>2, <2>0, <2>1, FS_Subset DEF TotalsInv, BookTypeOK, Order
    <3>2. IsFiniteSet(units(g, M))
      BY <3>1, UnitsFinite
    <3>3. g[id].qty = qty
      BY <1>2, <2>0
    <3>4. Cardinality(units(g, M)) \in Nat
            /\ Cardinality(units(g, M \cup {id})) = Cardinality(units(g, M)) + qty
      BY <1>1, <2>1, <3>2, <3>3, UnitsSplit
    <3>5. Cardinality(M \cup {id}) = Cardinality(M) + 1
      BY <2>1, <3>1, FS_AddElement
    <3>6. members(t, q)' = M \cup {id}
      BY <1>2, <2>0, <2>4
    <3>7. level'[t][q].total_qty = lots(M) + qty /\ level'[t][q].count = Cardinality(M) + 1
      BY <1>2, <2>1, <2>4 DEF rest_level
    <3> QED
      BY <2>2, <2>3, <3>4, <3>5, <3>6, <3>7
  <2>5. CASE t # s \/ q # px
    BY <1>2, <2>0, <2>1, <2>2, <2>3, <2>5
  <2> QED
    BY <2>4, <2>5
<1> QED
  BY <1>3, <1>4 DEF TotalsInv, TotalsExact

\* A partial fill or an amend takes as much from the level as from the order.
LEMMA RequantifyTotals ==
    ASSUME NEW o, NEW q, Requantified(o, q), TotalsInv
    PROVE  TotalsInv'
<1>0. PICK s, p : s = mem[o].side /\ p = mem[o].price
  OBVIOUS
<1>1. /\ BookTypeOK /\ o \in pool /\ o \in OrderId /\ s \in Side /\ p \in Price
      /\ q \in Nat /\ q \in Qty /\ pool' = pool /\ pool \subseteq OrderId
  BY <1>0, QtyAssumption DEF Requantified, BookTypeOK, Order, Qty
<1>2. \A x \in OrderId : /\ mem'[x].side = mem[x].side /\ mem'[x].price = mem[x].price
                         /\ mem'[x].qty = IF x = o THEN q ELSE mem[x].qty
  BY <1>1 DEF Requantified, BookTypeOK, Order
<1>3. \A t, r : members(t, r)' = members(t, r)
  BY <1>1, <1>2 DEF members
<1>4. /\ \A t \in Side, r \in Price : t # s \/ r # p => level'[t][r] = level[t][r]
      /\ level'[s][p].count = level[s][p].count
      /\ level'[s][p].total_qty = level[s][p].total_qty - (mem[o].qty - q)
  <2>1. level' = [level EXCEPT ![s] = [level[s] EXCEPT ![p] =
                     [level[s][p] EXCEPT !.total_qty = level[s][p].total_qty - (mem[o].qty - q)]]]
    BY <1>0 DEF Requantified
  <2> QED
    BY <1>1, <2>1 DEF BookTypeOK, Level
<1>5. ASSUME NEW t \in Side, NEW r \in Price
      PROVE  /\ level'[t][r].total_qty = lots(members(t, r))'
             /\ level'[t][r].count = Cardinality(members(t, r)')
  <2>0. PICK M, g : M = members(t, r) /\ g = mem'
    OBVIOUS
  <2>1. /\ level[t][r].total_qty = lots(M) /\ level[t][r].count = Cardinality(M)
        /\ M \subseteq pool /\ M \subseteq OrderId /\ members(t, r)' = M
    <3>1. M \subseteq pool
      BY <2>0 DEF members
    <3> QED
      BY <1>1, <1>3, <2>0, <3>1 DEF TotalsInv, TotalsExact
  <2>2. lots(members(t, r))' = Cardinality(units(g, M))
    BY <2>0, <2>1 DEF lots
  <2>3. Cardinality(units(g, M \ {o})) = lots(M \ {o})
    <3>1. \A x \in M \ {o} : mem'[x].qty = mem[x].qty
      BY <1>2, <2>1
    <3> QED
      BY <2>0, <3>1, LotsSame
  <2>4. CASE t = s /\ r = p
    <3>1. o \in M
      BY <1>0, <1>1, <2>0, <2>4 DEF members
    <3>2. /\ lots(M \ {o}) \in Nat /\ mem[o].qty \in Nat /\ lots(M) = lots(M \ {o}) + mem[o].qty
      BY <1>1, <2>1, <3>1, LotsWithout DEF TotalsInv
    <3>3. IsFiniteSet(M \ {o}) /\ \A x \in M \ {o} : g[x].qty \in Qty
      <4>1. M \ {o} \in SUBSET pool
        BY <2>1
      <4>2. IsFiniteSet(M \ {o})
        BY <4>1, FS_Subset DEF TotalsInv
      <4> QED
        BY <1>1, <1>2, <2>0, <2>1, <4>2 DEF BookTypeOK, Order
    <3>4. IsFiniteSet(units(g, M \ {o}))
      BY <3>3, UnitsFinite
    <3>5. g[o].qty = q /\ (M \ {o}) \cup {o} = M /\ o \notin M \ {o}
      BY <1>1, <1>2, <2>0, <3>1
    <3>6. Cardinality(units(g, (M \ {o}) \cup {o})) = Cardinality(units(g, M \ {o})) + g[o].qty
      BY <1>1, <3>4, <3>5, UnitsSplit
    <3>7. lots(members(t, r))' = lots(M \ {o}) + q
      BY <2>2, <2>3, <3>5, <3>6
    <3>8. level'[t][r].total_qty = lots(M) - (mem[o].qty - q) /\ level'[t][r].count = Cardinality(M)
      BY <1>4, <2>1, <2>4
    <3> QED
      BY <1>1, <2>1, <3>2, <3>7, <3>8
  <2>5. CASE t # s \/ r # p
    <3>1. M \ {o} = M
      BY <1>0, <2>0, <2>5 DEF members
    <3> QED
      BY <1>4, <2>1, <2>2, <2>3, <2>5, <3>1
  <2> QED
    BY <2>4, <2>5
<1>6. IsFiniteSet(pool')
  BY <1>1 DEF TotalsInv
<1> QED
  BY <1>5, <1>6 DEF TotalsInv, TotalsExact

\* The book is finite and every level counts its own, in every reachable state.
LEMMA TotalsInvariance == Spec => []TotalsInv
<1>1. Init => TotalsInv
  <2> SUFFICES ASSUME Init PROVE TotalsInv
    OBVIOUS
  <2>1. IsFiniteSet(pool)
    BY FS_EmptySet DEF Init
  <2>2. \A s, p : members(s, p) = {}
    BY DEF Init, members
  <2>3. lots({}) = 0
    BY FS_EmptySet DEF lots, units
  <2>4. \A s \in Side, p \in Price : level[s][p].total_qty = 0 /\ level[s][p].count = 0
    BY DEF Init, EmptyLevel
  <2> QED
    BY <2>1, <2>2, <2>3, <2>4, FS_EmptySet DEF TotalsInv, TotalsExact
<1>2. IInv /\ TotalsInv /\ [Next]_vars => TotalsInv'
  <2> SUFFICES ASSUME IInv, TotalsInv, [Next]_vars PROVE TotalsInv'
    OBVIOUS
  <2>1. ASSUME UNCHANGED <<mem, pool, level>> PROVE TotalsInv'
    BY <2>1 DEF TotalsInv, TotalsExact, members, lots
  <2> QED
    BY <2>1, BookSteps, TakeOffTotals, RestTotals, RequantifyTotals
<1> QED
  BY <1>1, <1>2, Invariance, PTL DEF Spec

\* A level's total_qty and count agree with the orders queued there.
THEOREM TotalsCorrect == Spec => []TotalsExact
<1>1. TotalsInv => TotalsExact
  BY DEF TotalsInv
<1> QED
  BY <1>1, TotalsInvariance, PTL

-----------------------------------------------------------------------------
(* What a call returns *)

Sweeping == {"outer", "inner", "after"}

\* What the tape and the locals of match say of each other: the tape adds up
\* to what has been taken off `remaining', a call begins with an empty tape,
\* and under RejectIncoming, the only policy that stops a taker, nothing but
\* trades is printed.
TapeInv ==
    /\ pc \in {"idle", "fok", "walk"} => tape = << >> /\ ~stopped
    /\ pc \in {"fok", "walk"} => op.kind = "limit"
    /\ stopped => stp_ = "RejectIncoming"
    /\ stp_ = "RejectIncoming" =>
          \A i \in DOMAIN tape : tape[i].what = "trade" /\ tape[i].qty > 0
    /\ pc \in Sweeping =>
          /\ op.kind \in {"limit", "market", "modify"}
          /\ op.kind = "modify" => op.tif = "GTC"
          /\ IsFiniteSet(units(tape, trades)) /\ tape_qty = op.qty - remaining

\* An empty tape is worth nothing.
LEMMA TapeEmpty ==
    ASSUME tape' = << >>
    PROVE  tape_qty' = 0 /\ IsFiniteSet(units(tape', trades'))
<1>1. trades' = {}
  BY DEF trades
<1>2. units(tape', {}) = {}
  BY DEF units
<1> QED
  BY <1>1, <1>2, FS_EmptySet DEF tape_qty

\* What an append does to the tape's positions.
LEMMA TapeAppend ==
    ASSUME tape \in Seq(Event), NEW e \in Event, tape' = Append(tape, e)
    PROVE  /\ DOMAIN tape' = DOMAIN tape \cup {Len(tape) + 1}
           /\ Len(tape) + 1 \notin DOMAIN tape
           /\ \A i \in DOMAIN tape : tape'[i] = tape[i]
           /\ tape'[Len(tape) + 1] = e
<1>1. DOMAIN tape = 1 .. Len(tape) /\ Len(tape) \in Nat /\ Len(tape') = Len(tape) + 1
        /\ DOMAIN tape' = 1 .. Len(tape')
  OBVIOUS
<1> QED
  BY <1>1

\* A trade printed for q adds q to the tape.
LEMMA TapeTrade ==
    ASSUME tape \in Seq(Event), NEW e \in Event, e.what = "trade", e.qty \in Nat,
           tape' = Append(tape, e), IsFiniteSet(units(tape, trades))
    PROVE  IsFiniteSet(units(tape', trades')) /\ tape_qty \in Nat /\ tape_qty' = tape_qty + e.qty
<1>0. PICK f, g, S, n : f = tape /\ g = tape' /\ S = trades /\ n = Len(tape) + 1
  OBVIOUS
<1>1. trades' = S \cup {n} /\ n \notin S /\ g[n] = e /\ \A i \in S : g[i] = f[i]
  BY <1>0, TapeAppend DEF trades
<1>2. units(g, S) = units(f, S)
  BY <1>1, UnitsSame
<1>3. /\ IsFiniteSet(units(g, S \cup {n})) /\ Cardinality(units(g, S)) \in Nat
      /\ Cardinality(units(g, S \cup {n})) = Cardinality(units(g, S)) + g[n].qty
  BY <1>0, <1>1, <1>2, UnitsSplit
<1> QED
  BY <1>0, <1>1, <1>2, <1>3 DEF tape_qty

\* A cancellation printed adds nothing.
LEMMA TapeCancel ==
    ASSUME tape \in Seq(Event), NEW e \in Event, e.what = "cancel", tape' = Append(tape, e)
    PROVE  units(tape', trades') = units(tape, trades) /\ tape_qty' = tape_qty
<1>0. PICK f, g, S : f = tape /\ g = tape' /\ S = trades
  OBVIOUS
<1>1. trades' = S /\ \A i \in S : g[i] = f[i]
  BY <1>0, TapeAppend DEF trades
<1>2. units(g, S) = units(f, S)
  BY <1>1, UnitsSame
<1> QED
  BY <1>0, <1>1, <1>2 DEF tape_qty

\* A tape of trades that is worth nothing is empty.
LEMMA TapeOfTrades ==
    ASSUME tape \in Seq(Event), tape_qty = 0, IsFiniteSet(units(tape, trades)),
           \A i \in DOMAIN tape : tape[i].what = "trade" /\ tape[i].qty \in Int /\ tape[i].qty > 0
    PROVE  tape = << >>
<1>1. units(tape, trades) = {}
  BY FS_EmptySet DEF tape_qty
<1>2. \A i \in DOMAIN tape : <<i, 1>> \in units(tape, trades)
  BY DEF units, trades
<1>3. DOMAIN tape = {} /\ DOMAIN tape = 1 .. Len(tape) /\ Len(tape) \in Nat
  BY <1>1, <1>2
<1>4. Len(tape) = 0
  BY <1>3
<1> QED
  BY <1>4

\* A call that returns at once returns the truth if r says so of the book.
LEMMA ReturnTrue ==
    ASSUME CallTypeOK, TapeInv, pc = "idle", NEW o \in Call, NEW r \in Result, Return(o, r),
           r.filled = 0,
           r.rested => /\ o.id \in index' /\ mem'[o.id].qty = o.qty
                       /\ mem'[o.id].price = o.px /\ o.tif = "GTC",
           o.kind = "limit" => r.rejected,
           o.kind = "modify" => /\ r.found /\ ~r.ok => o.id \in index'
                                /\ r.ok => r.rested
                                /\ ~r.found => o.id \notin index'
    PROVE  TapeInv' /\ ResultIsTrue'
<1>1. op' = o /\ res' = r /\ pc' = "done" /\ stopped' = stopped /\ tape' = << >> /\ tape = << >>
  BY DEF Return, TapeInv
<1>2. tape_qty' = 0
  BY <1>1, TapeEmpty
<1>3. TapeInv'
  BY <1>1 DEF TapeInv, Sweeping
<1>4. o.qty \in Int /\ o.qty >= 0 /\ o.qty - 0 = o.qty
  BY QtyAssumption DEF Call, Qty
<1>5. ResultIsTrue'
  BY <1>1, <1>2, <1>4 DEF ResultIsTrue
<1> QED
  BY <1>3, <1>5

\* A call that enters match has printed nothing and wants all it asked for.
LEMMA EnterTrue ==
    ASSUME CallTypeOK, TapeInv, pc = "idle", NEW o \in Call, EnterMatch(o),
           o.kind \in {"limit", "market", "modify"}, o.kind = "modify" => o.tif = "GTC"
    PROVE  TapeInv' /\ ResultIsTrue'
<1>1. op' = o /\ pc' = "outer" /\ stopped' = stopped /\ tape' = << >> /\ tape = << >>
        /\ remaining' = o.qty
  BY DEF EnterMatch, TapeInv
<1>2. tape_qty' = 0 /\ IsFiniteSet(units(tape', trades'))
  BY <1>1, TapeEmpty
<1>3. o.qty - o.qty = 0
  BY QtyAssumption DEF Call, Qty
<1>4. TapeInv'
  BY <1>1, <1>2, <1>3 DEF TapeInv, Sweeping
<1> QED
  BY <1>1, <1>4 DEF ResultIsTrue

\* The pre-check prints nothing, and rejects or goes on to match.
LEMMA PreCheckTrue ==
    ASSUME IInv, TapeInv, PreCheck
    PROVE  TapeInv' /\ ResultIsTrue'
<1>1. /\ pc \in {"fok", "walk"} /\ pc' \in {"fok", "walk", "outer", "done"}
      /\ UNCHANGED <<op, stopped, tape>>
      /\ pc' = "outer" => remaining' = op.qty
      /\ pc' = "done" => res' = Rejection
  BY PreCheckStep
<1>2. tape' = << >> /\ ~stopped' /\ op'.kind = "limit"
  BY <1>1 DEF TapeInv
<1>3. tape_qty' = 0 /\ IsFiniteSet(units(tape', trades'))
  BY <1>2, TapeEmpty
<1>4. op.qty \in Int /\ op.qty >= 0 /\ op.qty - op.qty = 0
  BY QtyAssumption DEF IInv, CallTypeOK, Call, Qty
<1>5. TapeInv'
  BY <1>1, <1>2, <1>3, <1>4 DEF TapeInv, Sweeping
<1>6. Rejection.filled = 0 /\ Rejection.rejected /\ ~Rejection.rested
  BY DEF Rejection, NoResult
<1> QED
  BY <1>1, <1>2, <1>3, <1>4, <1>5, <1>6 DEF ResultIsTrue

\* A call that enters the pre-check has printed nothing.
LEMMA EnterFokTrue ==
    ASSUME TapeInv, pc = "idle", NEW o \in Call, EnterFok(o), o.kind = "limit"
    PROVE  TapeInv' /\ ResultIsTrue'
<1>1. op' = o /\ pc' = "fok" /\ stopped' = stopped /\ tape' = << >> /\ tape = << >>
  BY DEF EnterFok, TapeInv
<1>2. TapeInv'
  BY <1>1 DEF TapeInv, Sweeping
<1> QED
  BY <1>1, <1>2 DEF ResultIsTrue

\* The calls: each returns the truth at once or enters match.
LEMMA CallsTrue ==
    ASSUME IInv, TapeInv, Caller
    PROVE  TapeInv' /\ ResultIsTrue'
<1>0. pc = "idle" /\ CallTypeOK /\ BookTypeOK /\ BookInv
  BY CallsBeginIdle DEF IInv, TypeOK, BookInv
<1>a. NoCall \in Call /\ NoResult \in Result /\ NoResult.filled = 0 /\ ~NoResult.rested
        /\ ~NoResult.found /\ ~NoResult.ok
  BY NoCallType DEF NoResult
<1>1. ASSUME NEW id \in Ptr, NEW side \in Side, NEW px \in CallPrice, NEW qty \in Qty,
             NEW tif \in Tif, NEW owner \in Owner, submit_limit(id, side, px, qty, tif, owner)
      PROVE  TapeInv' /\ ResultIsTrue'
  <2> DEFINE o == [kind |-> "limit", id |-> id, side |-> side, px |-> px, qty |-> qty,
                   tif |-> tif, owner |-> owner]
             r == Rejection
  <2>1. o \in Call /\ o.kind = "limit"
    BY BandAssumption DEF Call, CallPrice
  <2>2. r \in Result /\ r.filled = 0 /\ r.rejected /\ ~r.rested
    BY RejectionType DEF Rejection, NoResult
  <2>3. EnterMatch(o) \/ EnterFok(o) \/ Return(o, r)
    BY <1>1 DEF submit_limit
  <2> HIDE DEF o, r
  <2> QED
    BY <1>0, <2>1, <2>2, <2>3, ReturnTrue, EnterTrue, EnterFokTrue
<1>2. ASSUME NEW id \in Ptr, NEW side \in Side, NEW qty \in Qty, NEW owner \in Owner,
             submit_market(id, side, qty, owner)
      PROVE  TapeInv' /\ ResultIsTrue'
  <2> DEFINE o == [kind |-> "market", id |-> id, side |-> side, px |-> market_limit(side),
                   qty |-> qty, tif |-> "IOC", owner |-> owner]
  <2>1. market_limit(side) \in Int
    <3>1. best[opposite(side)] \in Int
      BY <1>0, BandAssumption DEF BookTypeOK, opposite, Side, Price, kNoPrice
    <3> QED
      BY <3>1, BandAssumption, PolicyAssumption DEF market_limit, kMaxPrice, kMinPrice
  <2>2. o \in Call /\ o.kind = "market"
    BY <2>1 DEF Call, Tif
  <2>3. EnterMatch(o) \/ Return(o, NoResult)
    BY <1>2 DEF submit_market
  <2> HIDE DEF o
  <2> QED
    BY <1>0, <1>a, <2>2, <2>3, ReturnTrue, EnterTrue
<1>3. ASSUME NEW id \in Ptr, cancel(id)
      PROVE  TapeInv' /\ ResultIsTrue'
  <2> DEFINE o == [NoCall EXCEPT !.kind = "cancel", !.id = id]
             r == [NoResult EXCEPT !.ok = TRUE]
  <2>1. o \in Call /\ o.kind = "cancel"
    BY <1>a DEF Call, NoCall
  <2>2. r \in Result /\ r.filled = 0 /\ ~r.rested
    BY <1>a DEF Result, NoResult
  <2>3. Return(o, r) \/ Return(o, NoResult)
    BY <1>3 DEF cancel
  <2> HIDE DEF o, r
  <2> QED
    BY <1>0, <1>a, <2>1, <2>2, <2>3, ReturnTrue
<1>4. ASSUME NEW id \in Ptr, NEW new_px \in CallPrice, NEW new_qty \in Qty,
             modify(id, new_px, new_qty)
      PROVE  TapeInv' /\ ResultIsTrue'
  <2> DEFINE o == [NoCall EXCEPT !.kind = "modify", !.id = id, !.px = new_px, !.qty = new_qty]
             amended == [NoResult EXCEPT !.found = TRUE, !.ok = TRUE, !.rested = TRUE]
             found == [NoResult EXCEPT !.found = TRUE]
             fresh == [o EXCEPT !.side = mem[id].side, !.owner = mem[id].owner]
  <2>1. /\ o \in Call /\ o.kind = "modify" /\ o.tif = "GTC"
        /\ o.id = id /\ o.px = new_px /\ o.qty = new_qty
    <3>1. new_px \in Int
      BY BandAssumption DEF CallPrice
    <3> QED
      BY <1>a, <3>1 DEF Call, NoCall
  <2>2. /\ amended \in Result /\ amended.filled = 0 /\ amended.found /\ amended.ok /\ amended.rested
        /\ found \in Result /\ found.filled = 0 /\ found.found /\ ~found.ok /\ ~found.rested
    BY <1>a DEF Result, NoResult
  <2> HIDE DEF o, amended, found
  <2>3. CASE id \notin index
    <3>1. UNCHANGED book /\ Return(o, NoResult)
      BY <1>4, <2>3 DEF modify, o
    <3>2. o.id \notin index'
      BY <2>1, <2>3, <3>1 DEF book
    <3> QED
      BY <1>0, <1>a, <2>1, <3>1, <3>2, ReturnTrue
  <2>4. CASE id \in index /\ ~amend_valid(o)
    <3>1. UNCHANGED book /\ Return(o, found)
      BY <1>4, <2>4 DEF modify, o, found
    <3>2. o.id \in index'
      BY <2>1, <2>4, <3>1 DEF book
    <3> QED
      BY <1>0, <2>1, <2>2, <3>1, <3>2, ReturnTrue
  <2>5. CASE id \in index /\ amend_valid(o) /\ keeps_priority(o)
    <3>1. amend_in_place(o) /\ Return(o, amended)
      BY <1>4, <2>5 DEF modify, o, amended
    <3>2. id \in OrderId /\ id \in index'
      BY <1>0, <2>5, <3>1 DEF BookTypeOK, amend_in_place
    <3>3. mem'[id].qty = new_qty /\ mem'[id].price = new_px
      BY <1>0, <2>1, <2>5, <3>1, <3>2 DEF BookTypeOK, Order, amend_in_place, keeps_priority
    <3> QED
      BY <1>0, <2>1, <2>2, <3>1, <3>2, <3>3, ReturnTrue
  <2>6. CASE id \in index /\ amend_valid(o) /\ ~keeps_priority(o)
    <3>1. EnterMatch(fresh)
      BY <1>4, <2>6 DEF modify, o
    <3>2. id \in OrderId /\ mem[id].side \in Side /\ mem[id].owner \in Owner
      BY <1>0, <2>6 DEF BookTypeOK, Order
    <3>3. fresh \in Call /\ fresh.kind = "modify" /\ fresh.tif = "GTC"
      BY <2>1, <3>2 DEF Call
    <3> QED
      BY <1>0, <3>1, <3>3, EnterTrue
  <2> QED
    BY <2>3, <2>4, <2>5, <2>6
<1> QED
  BY <1>1, <1>2, <1>3, <1>4 DEF Caller

\* A fill takes from `remaining' what it prints.
LEMMA FillTrue ==
    ASSUME IInv, TapeInv, PartialFill \/ FullFill
    PROVE  TapeInv'
<1>1. pc = "inner" /\ cur # nil /\ pc' \in Sweeping /\ op' = op /\ stopped' = stopped
  BY DEF PartialFill, FullFill, Sweeping
<1>2. mem[cur].qty \in Int /\ mem[cur].qty > 0 /\ remaining \in Int /\ remaining > 0
        /\ op.qty \in Int /\ tape \in Seq(Event)
  BY <1>1, AtCursor, QtyAssumption DEF IInv, TypeOK, CallTypeOK, Call, Qty
<1>3. PICK q \in Nat : /\ q > 0 /\ remaining' = remaining - q
                       /\ tape' = Append(tape, Trade(op.id, cur, lvl, q))
  <2>1. CASE PartialFill
    BY <1>2, <2>1 DEF PartialFill
  <2>2. CASE FullFill
    BY <1>2, <2>2 DEF FullFill
  <2> QED
    BY <2>1, <2>2
<1>4. PICK e : e = Trade(op.id, cur, lvl, q)
  OBVIOUS
<1>5. e \in Event /\ e.what = "trade" /\ e.qty = q
  <2>1. op.id \in Ptr /\ cur \in Ptr /\ lvl \in Int
    BY <1>1, AtCursor, BandAssumption DEF IInv, TypeOK, CallTypeOK, Call, Price, kNoPrice
  <2> QED
    BY <1>4, <2>1 DEF Trade, Event
<1>6. /\ op.kind \in {"limit", "market", "modify"} /\ (op.kind = "modify" => op.tif = "GTC")
      /\ IsFiniteSet(units(tape, trades)) /\ tape_qty = op.qty - remaining
  BY <1>1 DEF TapeInv, Sweeping
<1>7. /\ IsFiniteSet(units(tape', trades')) /\ tape_qty' = tape_qty + q
  BY <1>2, <1>3, <1>4, <1>5, <1>6, TapeTrade
<1>8. tape_qty' = op.qty - remaining'
  BY <1>2, <1>3, <1>6, <1>7
<1>9. stp_ = "RejectIncoming" => \A i \in DOMAIN tape' : tape'[i].what = "trade" /\ tape'[i].qty > 0
  BY <1>2, <1>3, <1>4, <1>5, TapeAppend DEF TapeInv
<1> QED
  BY <1>1, <1>6, <1>7, <1>8, <1>9 DEF TapeInv, Sweeping

\* The end of a call that was in match returns the truth.
LEMMA FinishTrue ==
    ASSUME IInv, TapeInv, Finish
    PROVE  TapeInv' /\ ResultIsTrue'
<1>1. /\ pc = "outer" /\ pc' = "done" /\ res' = match_result(rests)
      /\ op' = op /\ stopped' = stopped /\ tape' = tape
  BY DEF Finish
<1>2. BookTypeOK /\ CallTypeOK /\ BookInv
  BY DEF IInv, TypeOK, BookInv
<1>3. /\ op.kind \in {"limit", "market", "modify"} /\ (op.kind = "modify" => op.tif = "GTC")
      /\ IsFiniteSet(units(tape, trades)) /\ tape_qty = filled
  BY <1>1 DEF TapeInv, Sweeping, filled
<1>4. op.qty \in Int /\ remaining \in Int /\ remaining >= 0 /\ filled \in Int /\ filled <= op.qty
        /\ filled = op.qty - remaining
  BY <1>2, QtyAssumption DEF CallTypeOK, Call, Qty, filled
<1>5. TapeInv'
  BY <1>1 DEF TapeInv, Sweeping
<1>6. tape_qty' = tape_qty
  BY <1>1 DEF tape_qty, trades
<1>7. /\ res'.filled = filled
      /\ res'.rested <=> rests
      /\ res'.rejected <=> op.kind = "limit" /\ stp_rejected
      /\ res'.ok <=> op.kind = "modify"
      /\ res'.found <=> op.kind = "modify"
  BY <1>1, <1>3 DEF match_result, NoResult, rests
<1>8. stp_rejected => tape = << >>
  <2> SUFFICES ASSUME stp_rejected PROVE tape = << >>
    OBVIOUS
  <2>1. stp_ = "RejectIncoming" /\ tape_qty = 0
    BY <1>3 DEF stp_rejected, TapeInv
  <2>2. \A i \in DOMAIN tape : tape[i].what = "trade" /\ tape[i].qty > 0
    BY <2>1 DEF TapeInv
  <2>3. tape \in Seq(Event) /\ \A i \in DOMAIN tape : tape[i].qty \in Int
    BY <1>2, <2>2 DEF CallTypeOK, Event
  <2> QED
    BY <1>3, <2>1, <2>2, <2>3, TapeOfTrades
<1>9. op.id \notin index /\ op.id \in OrderId
  BY <1>1 DEF IInv, SweepSound
<1>10. CASE rests
  <2>0. PICK id, s, px, qty, owner :
           /\ id = op.id /\ s = op.side /\ px = op.px /\ qty = remaining /\ owner = op.owner
    OBVIOUS
  <2>1. rest(id, s, px, qty, owner) /\ op.tif = "GTC" /\ op.kind # "market" /\ remaining > 0
    BY <1>10, <2>0 DEF Finish, rests
  <2>2. index' = index \cup {id} /\ mem' = rest_mem(id, s, px, qty, owner)
    BY <2>1 DEF rest
  <2>3. mem'[id] = [qty |-> qty, owner |-> owner, next |-> nil,
                    prev |-> level[s][px].tail, price |-> px, side |-> s]
    BY <1>9, <2>0, <2>2 DEF rest_mem
  <2>4. mem'[op.id].qty = remaining /\ mem'[op.id].price = op.px /\ op.id \in index'
    BY <2>0, <2>2, <2>3
  <2>5. remaining = op.qty - filled
    BY <1>4
  <2>6. res'.rested /\ ~stopped
    BY <1>7, <1>10, <2>1 DEF rests
  <2>7. ~stp_rejected
    BY <2>6 DEF stp_rejected
  <2> QED
    BY <1>1, <1>3, <1>4, <1>5, <1>6, <1>7, <2>1, <2>4, <2>5, <2>6, <2>7 DEF ResultIsTrue
<1>11. CASE ~rests
  <2>1. op.id \notin index' /\ ~res'.rested
    BY <1>7, <1>9, <1>11 DEF Finish, book
  <2>2. ~stopped /\ op.kind # "market" /\ op.tif = "GTC" => filled = op.qty
    BY <1>4, <1>11 DEF rests
  <2> QED
    BY <1>1, <1>3, <1>4, <1>5, <1>6, <1>7, <1>8, <2>1, <2>2 DEF ResultIsTrue
<1> QED
  BY <1>10, <1>11

\* The tape, the locals of match and the result agree in every reachable
\* state.
LEMMA TapeSound == Spec => [](TapeInv /\ ResultIsTrue)
<1>1. Init => TapeInv /\ ResultIsTrue
  BY DEF Init, TapeInv, Sweeping, ResultIsTrue
<1>2. IInv /\ TapeInv /\ ResultIsTrue /\ [Next]_vars => TapeInv' /\ ResultIsTrue'
  <2> SUFFICES ASSUME IInv, TapeInv, ResultIsTrue, [Next]_vars PROVE TapeInv' /\ ResultIsTrue'
    OBVIOUS
  <2>1. CASE NextLevel \/ StpStop \/ EndLevel
    <3>1. /\ pc \in Sweeping /\ pc' \in Sweeping /\ pc' \notin {"idle", "fok", "walk", "done"}
          /\ UNCHANGED <<op, remaining, tape>>
          /\ stopped' => stopped \/ stp_ = "RejectIncoming"
      BY <2>1 DEF NextLevel, StpStop, EndLevel, Sweeping
    <3>2. tape_qty' = tape_qty /\ trades' = trades
      BY <3>1 DEF tape_qty, trades
    <3> QED
      BY <3>1, <3>2 DEF TapeInv, ResultIsTrue
  <2>2. CASE StpKill
    <3>1. /\ pc = "inner" /\ pc' = "inner" /\ stp_ = "CancelResting"
          /\ UNCHANGED <<op, remaining, stopped>> /\ tape' = Append(tape, Cancelled(cur))
      BY <2>2 DEF StpKill
    <3>2. PICK e : e = Cancelled(cur)
      OBVIOUS
    <3>3. e \in Event /\ e.what = "cancel" /\ tape \in Seq(Event)
      BY <3>2 DEF Cancelled, Event, IInv, TypeOK, CallTypeOK
    <3>4. units(tape', trades') = units(tape, trades) /\ tape_qty' = tape_qty
      BY <3>1, <3>2, <3>3, TapeCancel
    <3> QED
      BY <3>1, <3>4 DEF TapeInv, Sweeping, ResultIsTrue
  <2>3. CASE PartialFill \/ FullFill
    <3>1. pc' # "done"
      BY <2>3 DEF PartialFill, FullFill
    <3> QED
      BY <2>3, <3>1, FillTrue DEF ResultIsTrue
  <2>4. CASE Finish
    BY <2>4, FinishTrue
  <2>5. CASE Returned
    BY <2>5 DEF Returned, TapeInv, Sweeping, ResultIsTrue
  <2>6. CASE Caller
    BY <2>6, CallsTrue
  <2>7. CASE UNCHANGED vars
    <3>1. UNCHANGED <<mem, index, pc, op, remaining, stopped, tape, res>>
      BY <2>7 DEF vars, book, call
    <3>2. tape_qty' = tape_qty /\ trades' = trades
      BY <3>1 DEF tape_qty, trades
    <3> QED
      BY <3>1, <3>2 DEF TapeInv, ResultIsTrue
  <2>8. CASE PreCheck
    BY <2>8, PreCheckTrue
  <2> QED
    BY <2>1, <2>2, <2>3, <2>4, <2>5, <2>6, <2>7, <2>8 DEF Next, Engine
<1> QED
  BY <1>1, <1>2, Invariance, PTL DEF Spec

\* What a call returns is what happened: the fills, the remainder that rests,
\* the rejection that leaves no trace.
THEOREM ResultsCorrect == Spec => []ResultIsTrue
  BY TapeSound, PTL

-----------------------------------------------------------------------------
(* Market protection *)

\* p is no better for the taker than the best price was when the call began:
\* op.px is that price moved by protection_ ticks.
not_before(p) == IF op.side = "Bid" THEN op.px - protection_ <= p ELSE p <= op.px + protection_

\* A protected market order sweeps nothing better than where it began and has
\* traded between there and its limit.
CapInv ==
    op.kind = "market" /\ protection_ > 0 =>
        /\ pc \in Sweeping => \A o \in pool : mem[o].side = opp_side => not_before(mem[o].price)
        /\ \A i \in trades : not_before(tape[i].px) /\ crosses(op.side, tape[i].px, op.px)

\* A step of match that does not end it adds no order and moves none.
LEMMA SweepMovesNothing ==
    ASSUME IInv, Engine, pc' \in Sweeping
    PROVE  \A x \in pool' : x \in pool /\ mem'[x].side = mem[x].side /\ mem'[x].price = mem[x].price
<1>0. BookTypeOK /\ BookInv
  BY DEF IInv, TypeOK, BookInv
<1>1. ~Finish /\ ~Returned
  BY DEF Finish, Returned, Sweeping
<1>2. CASE NextLevel \/ StpStop \/ EndLevel
  BY <1>2 DEF NextLevel, StpStop, EndLevel, book
<1>3. CASE StpKill \/ FullFill
  <2>1. pc = "inner" /\ cur # nil /\ take_off(opp_side, lvl, cur)
    BY <1>3 DEF StpKill, FullFill
  <2>2. PICK s, p, o : TakenOff(s, p, o)
    BY <1>0, <2>1, AtCursor DEF TakenOff, BookInv
  <2> QED
    BY <1>0, <2>2, TakeOffFields DEF BookTypeOK
<1>4. CASE PartialFill
  <2>1. pool' = pool /\ \A x \in pool : x \in OrderId
    BY <1>0, <1>4 DEF PartialFill, BookTypeOK
  <2> QED
    BY <1>0, <1>4, <2>1 DEF PartialFill, BookTypeOK, Order
<1> QED
  BY <1>1, <1>2, <1>3, <1>4 DEF Engine

\* A protected market order begins at the best price of the other side.
LEMMA MarketBegins ==
    ASSUME IInv, TapeInv, NEW id \in Ptr, NEW side \in Side, NEW qty \in Qty, NEW owner \in Owner,
           submit_market(id, side, qty, owner)
    PROVE  CapInv'
<1> SUFFICES ASSUME op'.kind = "market", protection_ > 0 PROVE CapInv'
  BY DEF CapInv
<1> DEFINE o == [kind |-> "market", id |-> id, side |-> side, px |-> market_limit(side),
                 qty |-> qty, tif |-> "IOC", owner |-> owner]
<1>1. pc = "idle" /\ UNCHANGED book
  BY DEF submit_market
<1>2. tape' = << >> /\ op' = o /\ (pc' \in Sweeping => market_valid(o))
  BY <1>1 DEF submit_market, TapeInv, EnterMatch, Return, Sweeping
<1>3. trades' = {}
  BY <1>2 DEF trades
<1>4. op'.side = side /\ op'.px = market_limit(side) /\ o.side = side
  BY <1>2
<1> HIDE DEF o
<1>5. ASSUME pc' \in Sweeping, NEW x \in pool, mem[x].side = opposite(side)
      PROVE  not_before(mem[x].price)'
  <2>0. BookTypeOK /\ LadderSound
    BY <1>1, AtRest
  <2>1. opposite(side) \in Side /\ x \in OrderId /\ mem[x].price \in Price
    BY <2>0 DEF opposite, Side, BookTypeOK, Order
  <2>2. mem[x].price \in bits[opposite(side)]
    BY <1>5, <2>0, <2>1 DEF LadderSound, bit_sound, members
  <2>3. best[opposite(side)] \in bits[opposite(side)]
          /\ ~better(opposite(side), mem[x].price, best[opposite(side)])
    BY <2>0, <2>1, <2>2 DEF LadderSound, best_sound
  <2>4. best[opposite(side)] \in Int /\ mem[x].price \in Int /\ protection_ \in Int
    BY <2>0, <2>1, <2>3, BandAssumption, PolicyAssumption DEF BookTypeOK, Price
  <2>5. mem'[x].price = mem[x].price
    BY <1>1 DEF book
  <2>6. CASE side = "Bid"
    <3>1. best[opposite(side)] <= mem[x].price
      BY <2>3, <2>4, <2>6 DEF better, opposite
    <3>2. op'.px = best[opposite(side)] + protection_
      BY <1>4, <2>6 DEF market_limit
    <3> QED
      BY <1>4, <2>4, <2>5, <2>6, <3>1, <3>2 DEF not_before
  <2>7. CASE side = "Ask"
    <3>1. mem[x].price <= best[opposite(side)]
      BY <2>3, <2>4, <2>7 DEF better, opposite
    <3>2. op'.px = best[opposite(side)] - protection_
      BY <1>4, <2>7 DEF market_limit
    <3> QED
      BY <1>4, <2>4, <2>5, <2>7, <3>1, <3>2 DEF not_before
  <2> QED
    BY <2>6, <2>7 DEF Side
<1>6. opp_side' = opposite(side)
  BY <1>4 DEF opp_side
<1>7. pc' \in Sweeping =>
         \A x \in pool' : mem'[x].side = opp_side' => not_before(mem[x].price)'
  BY <1>1, <1>5, <1>6 DEF book
<1> QED
  BY <1>3, <1>7 DEF CapInv

\* A market order trades within protection_ ticks of itself.
THEOREM ProtectionCaps == Spec => []ProtectionCapsSweep
<1>1. Init => CapInv
  BY DEF Init, CapInv, NoCall
<1>2. IInv /\ TapeInv /\ CapInv /\ [Next]_vars => CapInv'
  <2> SUFFICES ASSUME IInv, TapeInv, CapInv, [Next]_vars,
                      op'.kind = "market", protection_ > 0
               PROVE  CapInv'
    BY DEF CapInv
  <2>0. tape \in Seq(Event) /\ op \in Call
    BY DEF IInv, TypeOK, CallTypeOK
  <2>1. ASSUME op' = op, pc' \in Sweeping => Engine /\ pc \in Sweeping
        PROVE  pc' \in Sweeping =>
                  \A o \in pool' : mem'[o].side = opp_side' => not_before(mem[o].price)'
    <3> SUFFICES ASSUME pc' \in Sweeping, NEW o \in pool', mem'[o].side = opp_side'
                 PROVE  not_before(mem[o].price)'
      OBVIOUS
    <3>1. o \in pool /\ mem'[o].side = mem[o].side /\ mem'[o].price = mem[o].price
      BY <2>1, SweepMovesNothing
    <3>2. opp_side' = opp_side
      BY <2>1 DEF opp_side
    <3> QED
      BY <2>1, <3>1, <3>2 DEF CapInv, not_before
  <2>2. CASE NextLevel \/ StpStop \/ EndLevel \/ Finish
    <3>1. op' = op /\ tape' = tape /\ (pc' \in Sweeping => Engine /\ pc \in Sweeping)
      BY <2>2 DEF NextLevel, StpStop, EndLevel, Finish, Engine, Sweeping
    <3>2. trades' = trades
      BY <3>1 DEF trades
    <3> QED
      BY <2>1, <3>1, <3>2 DEF CapInv, not_before
  <2>3. CASE StpKill
    <3>1. op' = op /\ pc \in Sweeping /\ Engine /\ tape' = Append(tape, Cancelled(cur))
      BY <2>3 DEF StpKill, Engine, Sweeping
    <3>2. PICK e : e = Cancelled(cur)
      OBVIOUS
    <3>3. e \in Event /\ e.what = "cancel"
      BY <3>2 DEF Cancelled, Event, IInv, TypeOK, CallTypeOK
    <3>4. trades' = trades /\ \A i \in trades : tape'[i] = tape[i]
      BY <2>0, <3>1, <3>2, <3>3, TapeAppend DEF trades
    <3> QED
      BY <2>1, <3>1, <3>4 DEF CapInv, not_before
  <2>4. CASE PartialFill \/ FullFill
    <3>1. op' = op /\ pc \in Sweeping /\ Engine /\ pc = "inner" /\ cur # nil
      BY <2>4 DEF PartialFill, FullFill, Engine, Sweeping
    <3>2. /\ cur \in pool /\ mem[cur].side = opp_side /\ mem[cur].price = lvl
          /\ mem[cur].qty \in Int /\ remaining \in Int
      BY <3>1, AtCursor
    <3>3. not_before(lvl) /\ crosses(op.side, lvl, op.px)
      BY <3>1, <3>2 DEF CapInv, IInv, SweepSound
    <3>4. PICK q \in Int : tape' = Append(tape, Trade(op.id, cur, lvl, q))
      BY <2>4, <3>2 DEF PartialFill, FullFill
    <3>5. PICK e : e = Trade(op.id, cur, lvl, q)
      OBVIOUS
    <3>6. e \in Event /\ e.what = "trade" /\ e.px = lvl
      <4>1. op.id \in Ptr /\ cur \in Ptr /\ lvl \in Int
        BY <3>1, AtCursor, BandAssumption DEF IInv, TypeOK, CallTypeOK, Call, Price, kNoPrice
      <4> QED
        BY <3>5, <4>1 DEF Trade, Event
    <3>7. /\ trades' = trades \cup {Len(tape) + 1} /\ \A i \in trades : tape'[i] = tape[i]
          /\ tape'[Len(tape) + 1] = e
      BY <2>0, <3>4, <3>5, <3>6, TapeAppend DEF trades
    <3>8. \A i \in trades' : not_before(tape[i].px)' /\ crosses(op.side, tape'[i].px, op.px)
      BY <3>1, <3>3, <3>6, <3>7 DEF CapInv, not_before
    <3> QED
      BY <2>1, <3>1, <3>8 DEF CapInv
  <2>5. CASE Returned
    BY <2>5 DEF Returned, NoCall
  <2>6. ASSUME NEW id \in Ptr, NEW side \in Side, NEW px \in CallPrice, NEW qty \in Qty,
               NEW tif \in Tif, NEW owner \in Owner, submit_limit(id, side, px, qty, tif, owner)
        PROVE  FALSE
    BY <2>6 DEF submit_limit, EnterMatch, EnterFok, Return
  <2>7. ASSUME NEW id \in Ptr, cancel(id) PROVE FALSE
    BY <2>7 DEF cancel, Return, NoCall
  <2>8. ASSUME NEW id \in Ptr, NEW new_px \in CallPrice, NEW new_qty \in Qty,
               modify(id, new_px, new_qty)
        PROVE  FALSE
    <3> DEFINE o == [NoCall EXCEPT !.kind = "modify", !.id = id, !.px = new_px, !.qty = new_qty]
    <3>1. op' = o \/ op' = [o EXCEPT !.side = mem[id].side, !.owner = mem[id].owner]
      BY <2>8 DEF modify, EnterMatch, Return
    <3> QED
      BY <3>1 DEF NoCall
  <2>9. CASE UNCHANGED vars
    <3>1. UNCHANGED <<mem, pool, pc, op, tape>>
      BY <2>9 DEF vars, book, call
    <3>2. trades' = trades /\ opp_side' = opp_side
      BY <3>1 DEF trades, opp_side
    <3> QED
      BY <3>1, <3>2 DEF CapInv, not_before
  <2>10. ~PreCheck
    BY PreCheckStep DEF TapeInv
  <2> QED
    BY <2>2, <2>3, <2>4, <2>5, <2>6, <2>7, <2>8, <2>9, <2>10, MarketBegins DEF Next, Engine, Caller
<1>3. IInv /\ CapInv => ProtectionCapsSweep
  <2> SUFFICES ASSUME IInv, CapInv, op.kind = "market", protection_ > 0,
                      NEW i \in trades, NEW j \in trades
               PROVE  tape[i].px - tape[j].px <= protection_
    BY DEF ProtectionCapsSweep, trades
  <2>1. op.px \in Int /\ tape[i].px \in Int /\ tape[j].px \in Int /\ protection_ \in Int
    BY PolicyAssumption DEF IInv, TypeOK, CallTypeOK, Call, Event, trades
  <2> QED
    BY <2>1 DEF CapInv, not_before, crosses
<1> QED
  BY <1>1, <1>2, <1>3, Invariance, TapeSound, PTL DEF Spec

-----------------------------------------------------------------------------
(* Fill-or-kill *)

\* The resting orders within the limit of the current call.
crossing == {o \in pool : mem[o].side = opp_side /\ crosses(op.side, mem[o].price, op.px)}

\* Self-trade prevention keeps the taker from trading with o.
prevented(o) == stp_ # "None" /\ own(op.owner, o)

\* What the current call could trade with.
reach == reachable(op.side, op.px, op.owner)

\* The pre-check has left o behind.
passed(o) ==
    \/ lvl = kNoPrice
    \/ better(opp_side, mem[o].price, lvl)
    \/ pc = "walk" /\ mem[o].price = lvl /\ (cur = nil \/ o \in older[cur])

counted == {o \in crossing : passed(o) /\ ~prevented(o)}

\* The pre-check has counted exactly what it passed and may be traded with, not
\* enough so far, and passed nothing that would have stopped the taker; a
\* fill-or-kill order in match finds at least what it still wants.
FokInv ==
    /\ pc \notin {"fok", "walk"} => avail = 0
    /\ pc \in {"fok", "walk"} =>
          /\ op.tif = "FOK"
          /\ avail = lots(counted) /\ avail < op.qty
          /\ stp_ = "RejectIncoming" => \A o \in crossing : passed(o) => ~prevented(o)
          /\ lvl # kNoPrice => lvl \in bits[opp_side]
    /\ pc = "walk" =>
          /\ stp_ # "None" /\ fok_in_reach
          /\ cur # nil => cur \in members(opp_side, lvl)
    /\ pc \in Sweeping /\ op.tif = "FOK" =>
          ~stopped /\ remaining <= lots(reach)

\* More orders are worth more lots.
LEMMA LotsMonotone ==
    ASSUME BookTypeOK, IsFiniteSet(pool), NEW T \in SUBSET pool, NEW S \in SUBSET T
    PROVE  lots(S) \in Nat /\ lots(T) \in Nat /\ lots(S) <= lots(T)
<1>0. PICK f : f = mem
  OBVIOUS
<1>1. IsFiniteSet(T) /\ \A x \in T : f[x].qty \in Qty
  BY <1>0, FS_Subset DEF BookTypeOK, Order
<1>2. IsFiniteSet(units(f, T))
  BY <1>1, UnitsFinite
<1>3. units(f, S) \in SUBSET units(f, T)
  BY DEF units
<1>4. PICK A, B : A = units(f, S) /\ B = units(f, T)
  OBVIOUS
<1>5. IsFiniteSet(A) /\ Cardinality(A) <= Cardinality(B)
  BY <1>2, <1>3, <1>4, FS_Subset
<1>6. Cardinality(A) \in Nat /\ Cardinality(B) \in Nat
  BY <1>2, <1>4, <1>5, FS_CardinalityType
<1> QED
  BY <1>0, <1>4, <1>5, <1>6 DEF lots

\* The lots of two disjoint sets add up.
LEMMA LotsUnion ==
    ASSUME BookTypeOK, IsFiniteSet(pool), NEW S \in SUBSET pool, NEW T \in SUBSET pool,
           S \cap T = {}
    PROVE  lots(S \cup T) = lots(S) + lots(T)
<1>0. PICK f : f = mem
  OBVIOUS
<1>1. IsFiniteSet(S) /\ IsFiniteSet(T) /\ \A x \in S \cup T : f[x].qty \in Qty
  BY <1>0, FS_Subset DEF BookTypeOK, Order
<1>2. IsFiniteSet(units(f, S)) /\ IsFiniteSet(units(f, T))
  BY <1>1, UnitsFinite
<1>3. units(f, S \cup T) = units(f, S) \cup units(f, T) /\ units(f, S) \cap units(f, T) = {}
  BY DEF units
<1>4. PICK A, B : A = units(f, S) /\ B = units(f, T)
  OBVIOUS
<1>5. Cardinality(A \cup B) = Cardinality(A) + Cardinality(B) - Cardinality(A \cap B)
  BY <1>2, <1>4, FS_Union
<1>6. Cardinality(A \cap B) = 0 /\ Cardinality(A) \in Nat /\ Cardinality(B) \in Nat
  BY <1>2, <1>3, <1>4, FS_EmptySet, FS_CardinalityType
<1>7. Cardinality(A \cup B) = Cardinality(A) + Cardinality(B)
  BY <1>5, <1>6
<1> QED
  BY <1>0, <1>3, <1>4, <1>7 DEF lots

\* The ticks of the other side, from the best to the worst, and the limit.
LEMMA Geometry ==
    ASSUME NEW s \in Side, NEW a \in Int, NEW b \in Int, NEW c \in Int
    PROVE  LET t == opposite(s)
           IN  /\ better(t, a, b) /\ better(t, b, c) => better(t, a, c)
               /\ better(t, a, b) => ~better(t, b, a) /\ a # b
               /\ a # b => better(t, a, b) \/ better(t, b, a)
               /\ crosses(s, a, c) /\ ~crosses(s, b, c) => better(t, a, b)
               /\ crosses(s, b, c) /\ better(t, a, b) => crosses(s, a, c)
  BY DEF Side, opposite, better, crosses

\* reachable, in the words of the current call.
LEMMA ReachIs ==
    reach = {o \in crossing :
                /\ ~prevented(o)
                /\ stp_ = "RejectIncoming" => \A m \in crossing : prevented(m) => ahead(o, m)}
  BY DEF reach, reachable, crossing, prevented, opp_side

\* What holds of the sides and the ticks while a call is served.
LEMMA CallFacts ==
    ASSUME IInv, TotalsInv
    PROVE  /\ op.side \in Side /\ opp_side = opposite(op.side) /\ opp_side \in Side
           /\ op.qty \in Nat /\ op.px \in Int /\ BookTypeOK /\ IsFiniteSet(pool)
           /\ crossing \in SUBSET pool /\ reach \in SUBSET crossing
           /\ \A o \in crossing : /\ mem[o].price \in Price /\ mem[o].price \in Int
                                  /\ o \in OrderId /\ mem[o].side = opp_side
                                  /\ o \in members(opp_side, mem[o].price)
           /\ lots(reach) \in Nat
<1>1. op.side \in Side /\ opp_side = opposite(op.side) /\ opp_side \in Side
        /\ op.qty \in Nat /\ op.px \in Int
  BY QtyAssumption DEF IInv, CallTypeOK, Call, opp_side, opposite, Side, Qty
<1>2. BookTypeOK /\ IsFiniteSet(pool)
  BY DEF IInv, TotalsInv
<1>3. crossing \in SUBSET pool /\ reach \in SUBSET crossing
  BY ReachIs DEF crossing
<1>4. \A o \in crossing : /\ mem[o].price \in Price /\ mem[o].price \in Int
                          /\ o \in OrderId /\ mem[o].side = opp_side
                          /\ o \in members(opp_side, mem[o].price)
  BY <1>2, BandAssumption DEF crossing, members, BookTypeOK, Order, Price
<1>5. lots(reach) \in Nat
  <2>1. PICK S : S = reach
    OBVIOUS
  <2> QED
    BY <1>2, <1>3, <2>1, LotsMonotone
<1> QED
  BY <1>1, <1>2, <1>3, <1>4, <1>5

\* A step of the pre-check moves nothing that the call could trade with.
LEMMA PreCheckFrame ==
    ASSUME UNCHANGED book, op' = op
    PROVE  /\ crossing' = crossing /\ reach' = reach /\ opp_side' = opp_side
           /\ \A o : prevented(o)' <=> prevented(o)
           /\ \A S : Cardinality(units(mem', S)) = lots(S)
           /\ \A s, p : members(s, p)' = members(s, p)
<1> USE DEF book
<1>1. opp_side' = opp_side
  BY DEF opp_side
<1>2. crossing' = crossing
  BY <1>1 DEF crossing
<1>3. reach' = reach
  BY DEF reach, reachable, own, ahead
<1>4. \A o : prevented(o)' <=> prevented(o)
  BY DEF prevented, own
<1>5. \A S : Cardinality(units(mem', S)) = lots(S)
  BY DEF lots
<1>6. \A s, p : members(s, p)' = members(s, p)
  BY DEF members
<1> QED
  BY <1>1, <1>2, <1>3, <1>4, <1>5, <1>6

\* The pre-check's answer is right when it says what there is.
LEMMA PreCheckAnswers ==
    ASSUME IInv, TotalsInv, TapeInv, FokInv, pc \in {"fok", "walk"}, UNCHANGED book,
           \/ FokReturns(TRUE) /\ op.qty <= lots(reach)
           \/ FokReturns(FALSE) /\ lots(reach) < op.qty
    PROVE  FokInv' /\ FokExact'
<1>0. avail' = 0
  BY DEF FokReturns
<1>1. op' = op /\ stopped' = stopped /\ tape' = tape /\ tape = << >> /\ ~stopped
  BY DEF FokReturns, TapeInv
<1>2. lots(reach)' = lots(reach)
  BY <1>1, PreCheckFrame DEF lots
<1>3. CASE FokReturns(TRUE) /\ op.qty <= lots(reach)
  <2>1. pc' = "outer" /\ remaining' = op.qty
    BY <1>3 DEF FokReturns
  <2> QED
    BY <1>0, <1>1, <1>2, <1>3, <2>1 DEF FokInv, FokExact, Sweeping
<1>4. CASE FokReturns(FALSE) /\ lots(reach) < op.qty
  <2>1. pc' = "done" /\ res' = Rejection /\ Rejection.rejected
    BY <1>4 DEF FokReturns, Rejection, NoResult
  <2> QED
    BY <1>0, <1>1, <1>2, <1>4, <2>1 DEF FokInv, FokExact, Sweeping, reach
<1> QED
  BY <1>3, <1>4

\* The pre-check goes on with C counted.
LEMMA PreCheckGoesOn ==
    ASSUME IInv, TotalsInv, FokInv, pc \in {"fok", "walk"}, UNCHANGED book, op' = op,
           pc' \in {"fok", "walk"}, NEW C, counted' = C, avail' = lots(C), lots(C) < op.qty,
           stp_ = "RejectIncoming" => \A o \in crossing : passed(o)' => ~prevented(o),
           lvl' # kNoPrice => lvl' \in bits[opp_side],
           pc' = "walk" => /\ stp_ # "None" /\ fok_in_reach'
                           /\ cur' # nil => cur' \in members(opp_side, lvl')
    PROVE  FokInv' /\ FokExact'
<1>1. /\ crossing' = crossing /\ opp_side' = opp_side
      /\ \A o : prevented(o)' <=> prevented(o)
      /\ \A S : Cardinality(units(mem', S)) = lots(S)
      /\ \A s, p : members(s, p)' = members(s, p)
  BY PreCheckFrame
<1>2. lots(counted)' = lots(C)
  BY <1>1 DEF lots
<1>3. bits' = bits
  BY DEF book
<1> QED
  BY <1>1, <1>2, <1>3 DEF FokInv, FokExact, Sweeping

\* The orders of the levels up to lvl.
up_to_level == {o \in crossing : /\ better(opp_side, mem[o].price, lvl) \/ mem[o].price = lvl
                                 /\ ~prevented(o)}

\* scan_worse leads from a level to the next: nothing lies between them.
LEMMA LevelAfter ==
    ASSUME IInv, TotalsInv, pc \in {"fok", "walk"}, lvl \in Price, NEW o \in crossing
    PROVE  LET r == scan_worse(opp_side, lvl, bits[opp_side])
           IN  (r = kNoPrice \/ better(opp_side, mem[o].price, r))
                 <=> (better(opp_side, mem[o].price, lvl) \/ mem[o].price = lvl)
<1>1. /\ op.side \in Side /\ opp_side = opposite(op.side) /\ opp_side \in Side /\ BookTypeOK
      /\ mem[o].price \in Price /\ mem[o].price \in Int /\ o \in members(opp_side, mem[o].price)
  BY CallFacts
<1>2. LadderSound
  BY AtRest
<1>0. PICK s, t, p, B, r : /\ s = op.side /\ t = opp_side /\ p = mem[o].price /\ B = bits[opp_side]
                           /\ r = scan_worse(opp_side, lvl, B)
  OBVIOUS
<1>f. PICK from : from = lvl
  OBVIOUS
<1>3. p \in B /\ B \in SUBSET Price /\ s \in Side /\ t = opposite(s) /\ t \in Side
        /\ p \in Int /\ from \in Int
  BY <1>0, <1>1, <1>2, <1>f, BandAssumption DEF LadderSound, bit_sound, BookTypeOK, Price
<1>r. r = scan_worse(t, from, B)
  BY <1>0, <1>f
<1>4. /\ (\E q \in B : better(t, from, q)) =>
            /\ r \in B /\ better(t, from, r)
            /\ \A q \in B : better(t, from, q) => ~better(t, q, r)
      /\ ~(\E q \in B : better(t, from, q)) => r = kNoPrice
  BY <1>3, <1>r, ScanWorse
<1>5. CASE \E q \in B : better(t, from, q)
  <2>1. r \in B /\ r \in Int /\ better(t, from, r) /\ r # kNoPrice
          /\ (better(t, from, p) => ~better(t, p, r))
    <3>1. /\ r \in B /\ better(t, from, r)
          /\ \A q \in B : better(t, from, q) => ~better(t, q, r)
      BY <1>4, <1>5
    <3>2. r \in Int /\ r # kNoPrice
      BY <1>3, <3>1, BandAssumption DEF Price, kNoPrice
    <3> QED
      BY <1>3, <3>1, <3>2
  <2>2. better(t, p, from) /\ better(t, from, r) => better(t, p, r)
    BY <1>3, <2>1, Geometry
  <2>3. p # from => better(t, p, from) \/ better(t, from, p)
    BY <1>3, Geometry
  <2> QED
    BY <1>0, <1>f, <2>1, <2>2, <2>3
<1>6. CASE ~\E q \in B : better(t, from, q)
  <2>1. p # from => better(t, p, from) \/ better(t, from, p)
    BY <1>3, Geometry
  <2> QED
    BY <1>0, <1>3, <1>4, <1>6, <1>f, <2>1
<1> QED
  BY <1>5, <1>6

\* Once a level has been read, all of it is counted, and the pre-check answers
\* or goes on to the next one.
LEMMA LevelRead ==
    ASSUME IInv, TotalsInv, TapeInv, FokInv, pc \in {"fok", "walk"}, UNCHANGED book,
           fok_in_reach, NEW n, n = lots(up_to_level), fok_level_read(n),
           stp_ = "RejectIncoming" =>
              \A o \in crossing : better(opp_side, mem[o].price, lvl) \/ mem[o].price = lvl
                                    => ~prevented(o)
    PROVE  FokInv' /\ FokExact'
<1>1. /\ op.side \in Side /\ opp_side = opposite(op.side) /\ opp_side \in Side /\ BookTypeOK
      /\ op.qty \in Nat /\ IsFiniteSet(pool) /\ crossing \in SUBSET pool /\ reach \in SUBSET crossing
      /\ \A o \in crossing : mem[o].price \in Int /\ mem[o].side = opp_side
  BY CallFacts
<1>2. lvl \in Price /\ lvl \in Int
  BY BandAssumption DEF fok_in_reach, IInv, CallTypeOK, Price
<1>3. up_to_level \in SUBSET crossing
  BY DEF up_to_level
<1>4. n \in Nat
  <2>1. PICK S : S = up_to_level
    OBVIOUS
  <2> QED
    BY <1>1, <1>3, <2>1, LotsMonotone
<1>5. CASE n >= op.qty
  <2>1. ASSUME NEW o \in up_to_level, NEW m \in crossing, stp_ = "RejectIncoming", prevented(m)
        PROVE  ahead(o, m)
    <3>1. PICK t, s, a, b, c : /\ s = op.side /\ t = opp_side /\ a = mem[o].price
                               /\ b = lvl /\ c = mem[m].price
      OBVIOUS
    <3>2. /\ s \in Side /\ t = opposite(s) /\ a \in Int /\ b \in Int /\ c \in Int
          /\ better(t, a, b) \/ a = b
          /\ ~better(t, c, b) /\ c # b
      BY <1>1, <1>2, <2>1, <3>1 DEF up_to_level
    <3>3. better(t, b, c)
      BY <3>2, Geometry
    <3>4. better(t, a, c)
      BY <3>2, <3>3, Geometry
    <3> QED
      BY <1>1, <1>3, <2>1, <3>1, <3>4 DEF ahead
  <2>2. up_to_level \subseteq reach
    BY <1>3, <2>1, ReachIs DEF up_to_level
  <2>3. PICK S, T : S = up_to_level /\ T = reach
    OBVIOUS
  <2>4. lots(T) \in Nat /\ lots(S) <= lots(T)
    BY <1>1, <2>2, <2>3, LotsMonotone
  <2>5. op.qty <= lots(reach)
    BY <1>1, <1>4, <1>5, <2>3, <2>4
  <2>6. FokReturns(TRUE)
    BY <1>5 DEF fok_level_read
  <2> QED
    BY <2>5, <2>6, PreCheckAnswers
<1>6. CASE ~(n >= op.qty)
  <2>1. /\ avail' = n /\ lvl' = scan_worse(opp_side, lvl, bits[opp_side]) /\ pc' = "fok" /\ op' = op
    BY <1>6 DEF fok_level_read
  <2>2. /\ crossing' = crossing /\ opp_side' = opp_side /\ \A o : prevented(o)' <=> prevented(o)
    BY <2>1, PreCheckFrame
  <2>3. ASSUME NEW o \in crossing
        PROVE  passed(o)' <=> (better(opp_side, mem[o].price, lvl) \/ mem[o].price = lvl)
    <3>1. (lvl' = kNoPrice \/ better(opp_side, mem[o].price, lvl'))
             <=> (better(opp_side, mem[o].price, lvl) \/ mem[o].price = lvl)
      BY <1>2, <2>1, LevelAfter
    <3>2. passed(o)' <=> (lvl' = kNoPrice \/ better(opp_side, mem[o].price, lvl'))
      BY <2>1, <2>2 DEF passed, book
    <3> QED
      BY <3>1, <3>2
  <2>4. PICK C : C = up_to_level
    OBVIOUS
  <2>5. counted' = C
    <3>1. counted' = {o \in crossing : passed(o)' /\ ~prevented(o)}
      BY <2>2 DEF counted
    <3> QED
      BY <2>3, <2>4, <3>1 DEF up_to_level
  <2>6. lots(C) < op.qty /\ avail' = lots(C)
    BY <1>1, <1>4, <1>6, <2>1, <2>4
  <2>7. lvl' # kNoPrice => lvl' \in bits[opp_side]
    <3>1. PICK s, from, B : s = opp_side /\ from = lvl /\ B = bits[opp_side]
      OBVIOUS
    <3>2. B \in SUBSET Price /\ s \in Side
      BY <1>1, <3>1 DEF BookTypeOK
    <3> QED
      BY <2>1, <3>1, <3>2, ScanWorse
  <2>8. stp_ = "RejectIncoming" => \A o \in crossing : passed(o)' => ~prevented(o)
    BY <2>3
  <2> QED
    BY <2>1, <2>5, <2>6, <2>7, <2>8, PreCheckGoesOn
<1> QED
  BY <1>5, <1>6

\* The pre-check ends where nothing is left within the limit.
LEMMA Fok_FokEnd ==
    ASSUME IInv, TotalsInv, TapeInv, FokInv, FokEnd, UNCHANGED book
    PROVE  FokInv' /\ FokExact'
<1>1. /\ op.side \in Side /\ opp_side = opposite(op.side) /\ BookTypeOK
      /\ op.qty \in Nat /\ op.px \in Int /\ IsFiniteSet(pool) /\ crossing \in SUBSET pool
      /\ reach \in SUBSET crossing /\ \A o \in crossing : mem[o].price \in Int
  BY CallFacts
<1>2. pc = "fok" /\ ~fok_in_reach /\ avail = lots(counted) /\ avail < op.qty
  BY DEF FokEnd, FokInv
<1>3. ASSUME NEW o \in crossing PROVE passed(o)
  <2>1. CASE lvl = kNoPrice
    BY <2>1 DEF passed
  <2>2. CASE lvl # kNoPrice
    <3>1. PICK s, a, b, c : s = op.side /\ a = mem[o].price /\ b = lvl /\ c = op.px
      OBVIOUS
    <3>2. /\ s \in Side /\ a \in Int /\ b \in Int /\ c \in Int
          /\ crosses(s, a, c) /\ ~crosses(s, b, c)
      BY <1>1, <1>2, <2>2, <3>1, BandAssumption
      DEF crossing, fok_in_reach, IInv, CallTypeOK, Price
    <3>3. better(opposite(s), a, b)
      BY <3>2, Geometry
    <3> QED
      BY <1>1, <3>1, <3>3 DEF passed
  <2> QED
    BY <2>1, <2>2
<1>4. reach \subseteq counted /\ counted \subseteq crossing
  BY <1>3, ReachIs DEF counted
<1>5. PICK S, T : S = reach /\ T = counted
  OBVIOUS
<1>6. lots(S) \in Nat /\ lots(T) \in Nat /\ lots(S) <= lots(T)
  BY <1>1, <1>4, <1>5, LotsMonotone
<1>7. lots(reach) < op.qty /\ ~(avail >= op.qty)
  BY <1>1, <1>2, <1>5, <1>6
<1>8. FokReturns(FALSE)
  BY <1>7 DEF FokEnd, FokReturns
<1> QED
  BY <1>2, <1>7, <1>8, PreCheckAnswers

\* Without self-trade prevention a level adds its total.
LEMMA Fok_FokTotal ==
    ASSUME IInv, TotalsInv, TapeInv, FokInv, FokTotal, UNCHANGED book
    PROVE  FokInv' /\ FokExact'
<1>1. /\ op.side \in Side /\ opp_side = opposite(op.side) /\ opp_side \in Side /\ BookTypeOK
      /\ op.px \in Int /\ IsFiniteSet(pool) /\ crossing \in SUBSET pool
      /\ \A o \in crossing : mem[o].price \in Int /\ o \in members(opp_side, mem[o].price)
  BY CallFacts
<1>2. /\ pc = "fok" /\ fok_in_reach /\ stp_ = "None" /\ avail = lots(counted)
      /\ lvl \in Price /\ lvl \in Int /\ lvl # kNoPrice /\ crosses(op.side, lvl, op.px)
  BY BandAssumption DEF FokTotal, FokInv, fok_in_reach, IInv, CallTypeOK, Price
<1>3. PICK S, T : S = counted /\ T = members(opp_side, lvl)
  OBVIOUS
<1>4. S \in SUBSET pool /\ T \in SUBSET pool
  BY <1>1, <1>3 DEF counted, members
<1>5. T \subseteq crossing /\ \A o \in crossing : o \in T <=> mem[o].price = lvl
  BY <1>2, <1>3 DEF members, crossing
<1>6. S \cup T = up_to_level
  BY <1>2, <1>3, <1>5 DEF counted, passed, prevented, up_to_level
<1>7. S \cap T = {}
  <2> SUFFICES ASSUME NEW o \in S, o \in T PROVE FALSE
    OBVIOUS
  <2>1. o \in crossing /\ mem[o].price = lvl /\ better(opp_side, lvl, lvl)
    BY <1>2, <1>3, <1>5 DEF counted, passed
  <2> QED
    BY <1>2, <2>1 DEF better
<1>8. level[opp_side][lvl].total_qty = lots(T)
  BY <1>1, <1>2, <1>3 DEF TotalsInv, TotalsExact
<1>9. avail + level[opp_side][lvl].total_qty = lots(up_to_level)
  BY <1>1, <1>2, <1>3, <1>4, <1>6, <1>7, <1>8, LotsUnion
<1>10. PICK n : n = avail + level[opp_side][lvl].total_qty
  OBVIOUS
<1>11. fok_level_read(n)
  BY <1>10 DEF FokTotal
<1> QED
  BY <1>2, <1>9, <1>10, <1>11, LevelRead

\* The walk of a level begins at its oldest order.
LEMMA Fok_FokWalk ==
    ASSUME IInv, TotalsInv, TapeInv, FokInv, FokWalk, UNCHANGED book
    PROVE  FokInv' /\ FokExact'
<1>1. /\ opp_side \in Side /\ BookTypeOK /\ IsFiniteSet(pool)
  BY CallFacts
<1>2. /\ pc = "fok" /\ fok_in_reach /\ stp_ # "None" /\ avail = lots(counted) /\ avail < op.qty
      /\ lvl \in Price /\ lvl # kNoPrice /\ lvl \in bits[opp_side]
      /\ stp_ = "RejectIncoming" => \A o \in crossing : passed(o) => ~prevented(o)
  BY DEF FokWalk, FokInv, fok_in_reach, IInv, CallTypeOK
<1>3. /\ op' = op /\ avail' = avail /\ lvl' = lvl /\ pc' = "walk"
      /\ cur' = level[opp_side][lvl].head
  BY DEF FokWalk
<1>4. LadderSound
  BY <1>2, AtRest
<1>5. members(opp_side, lvl) # {} /\ ends_sound(opp_side, lvl)
  BY <1>1, <1>2, <1>4 DEF LadderSound, bit_sound, IInv, ListsAreFifo
<1>6. cur' \in members(opp_side, lvl) /\ older[cur'] = {}
  BY <1>3, <1>5 DEF ends_sound
<1>7. cur' # nil
  BY <1>1, <1>6, NilAssumption DEF members, BookTypeOK
<1>8. /\ crossing' = crossing /\ opp_side' = opp_side /\ \A o : prevented(o)' <=> prevented(o)
  BY <1>3, PreCheckFrame
<1>9. \A o : passed(o)' <=> passed(o)
  BY <1>2, <1>3, <1>6, <1>7, <1>8 DEF passed, book
<1>10. PICK C : C = counted
  OBVIOUS
<1>11. counted' = C
  <2>1. counted' = {o \in crossing : passed(o)' /\ ~prevented(o)}
    BY <1>8 DEF counted
  <2> QED
    BY <1>9, <1>10, <2>1 DEF counted
<1>12. fok_in_reach'
  BY <1>2, <1>3 DEF fok_in_reach
<1> QED
  BY <1>2, <1>3, <1>6, <1>9, <1>10, <1>11, <1>12, PreCheckGoesOn

\* A level whose orders have all been seen has been read.
LEMMA Fok_FokLevelEnd ==
    ASSUME IInv, TotalsInv, TapeInv, FokInv, FokLevelEnd, UNCHANGED book
    PROVE  FokInv' /\ FokExact'
<1>1. /\ pc = "walk" /\ cur = nil /\ fok_in_reach /\ avail = lots(counted) /\ lvl # kNoPrice
      /\ stp_ = "RejectIncoming" => \A o \in crossing : passed(o) => ~prevented(o)
  BY DEF FokLevelEnd, FokInv, fok_in_reach
<1>2. \A o : passed(o) <=> (better(opp_side, mem[o].price, lvl) \/ mem[o].price = lvl)
  BY <1>1 DEF passed
<1>3. counted = up_to_level
  BY <1>2 DEF counted, up_to_level
<1>4. PICK n : n = avail
  OBVIOUS
<1>5. fok_level_read(n)
  BY <1>4 DEF FokLevelEnd
<1> QED
  BY <1>1, <1>2, <1>3, <1>4, <1>5, LevelRead

\* Where the walk of the pre-check stands.
LEMMA AtWalk ==
    ASSUME IInv, TotalsInv, FokInv, FokOrder
    PROVE  /\ pc = "walk" /\ lvl \in Int /\ lvl # kNoPrice /\ fok_in_reach
           /\ cur \in crossing /\ mem[cur].price = lvl /\ mem[cur].qty \in Nat
           /\ \A o \in crossing : mem[o].price = lvl => o \in members(opp_side, lvl) /\ o \in pool
           /\ cur \notin older[cur]
           /\ \A o \in crossing : o # cur /\ mem[o].price = lvl =>
                 (cur \in older[o] <=> o \notin older[cur])
           /\ IF mem[cur].next = nil
              THEN \A o \in crossing : mem[o].price = lvl => o = cur \/ o \in older[cur]
              ELSE /\ mem[cur].next \in members(opp_side, lvl)
                   /\ older[mem[cur].next] = older[cur] \cup {cur}
<1>1. /\ pc = "walk" /\ cur # nil /\ fok_in_reach /\ cur \in members(opp_side, lvl)
  BY DEF FokOrder, FokInv
<1>2. lvl \in Price /\ lvl \in Int /\ lvl # kNoPrice /\ opp_side \in Side
  BY <1>1, CallFacts, BandAssumption DEF fok_in_reach, IInv, CallTypeOK, Price
<1>3. cur \in pool /\ mem[cur].side = opp_side /\ mem[cur].price = lvl /\ cur \in crossing
  BY <1>1 DEF members, crossing, fok_in_reach
<1>4. mem[cur].qty \in Nat
  BY <1>3, QtyAssumption DEF IInv, BookTypeOK, Order, Qty
<1>5. \A o \in crossing : mem[o].price = lvl => o \in members(opp_side, lvl) /\ o \in pool
  BY DEF crossing, members
<1>6. cur \notin older[cur]
  BY <1>3 DEF IInv, ArrivalOrder
<1>7. \A o \in crossing : o # cur /\ mem[o].price = lvl =>
         (cur \in older[o] <=> o \notin older[cur])
  BY <1>3, <1>5 DEF IInv, ArrivalOrder
<1>8. node_sound(cur) /\ ends_sound(opp_side, lvl)
  BY <1>2, <1>3 DEF IInv, ListsAreFifo
<1>9. CASE mem[cur].next = nil
  <2>1. older[cur] = members(opp_side, lvl) \ {cur}
    BY <1>1, <1>3, <1>8, <1>9 DEF node_sound, ends_sound
  <2> QED
    BY <1>1, <1>2, <1>3, <1>4, <1>5, <1>6, <1>7, <1>9, <2>1
<1>10. CASE mem[cur].next # nil
  <2>1. /\ mem[cur].next \in members(opp_side, lvl)
        /\ older[mem[cur].next] = older[cur] \cup {cur}
    BY <1>3, <1>8, <1>10 DEF node_sound
  <2> QED
    BY <1>1, <1>2, <1>3, <1>4, <1>5, <1>6, <1>7, <1>10, <2>1
<1> QED
  BY <1>9, <1>10

\* Whatever is not behind the walk is behind or at its cursor.
LEMMA NotPassed ==
    ASSUME IInv, TotalsInv, FokInv, FokOrder, NEW m \in crossing, ~passed(m), m # cur
    PROVE  ahead(cur, m) /\ \A o \in crossing : passed(o) => ahead(o, m)
<1>1. /\ op.side \in Side /\ opp_side = opposite(op.side)
      /\ \A o \in crossing : mem[o].price \in Int /\ mem[o].side = opp_side /\ o \in pool
  BY CallFacts
<1>2. /\ pc = "walk" /\ cur # nil /\ lvl \in Int /\ cur \in crossing /\ mem[cur].price = lvl
      /\ lvl # kNoPrice
      /\ \A o \in crossing : mem[o].price = lvl => o \in members(opp_side, lvl) /\ o \in pool
      /\ \A o \in crossing : o # cur /\ mem[o].price = lvl =>
                 (cur \in older[o] <=> o \notin older[cur])
  BY AtWalk DEF FokOrder
<1>3. PICK s, c, b : s = op.side /\ c = mem[m].price /\ b = lvl
  OBVIOUS
<1>4. s \in Side /\ c \in Int /\ b \in Int /\ ~better(opposite(s), c, b)
        /\ (c = b => m \notin older[cur])
  BY <1>1, <1>2, <1>3 DEF passed
<1>5. better(opposite(s), b, c) \/ (c = b /\ cur \in older[m])
  <2>1. c # b => better(opposite(s), b, c)
    BY <1>4, Geometry
  <2> QED
    BY <1>2, <1>3, <1>4, <2>1
<1>6. ahead(cur, m)
  BY <1>1, <1>2, <1>3, <1>5 DEF ahead
<1>7. ASSUME NEW o \in crossing, passed(o) PROVE ahead(o, m)
  <2>1. PICK a : a = mem[o].price
    OBVIOUS
  <2>2. a \in Int /\ (better(opposite(s), a, b) \/ (a = b /\ o \in older[cur]))
    BY <1>1, <1>2, <1>3, <1>7, <2>1 DEF passed
  <2>3. CASE better(opposite(s), b, c)
    <3>1. better(opposite(s), a, c)
      BY <1>4, <2>2, <2>3, Geometry
    <3> QED
      BY <1>1, <1>3, <2>1, <3>1 DEF ahead
  <2>4. CASE c = b /\ cur \in older[m] /\ better(opposite(s), a, b)
    BY <1>1, <1>3, <2>1, <2>4 DEF ahead
  <2>5. CASE c = b /\ cur \in older[m] /\ a = b /\ o \in older[cur]
    <3>1. m \in pool /\ cur \in pool /\ older[cur] \subseteq older[m]
      BY <1>1, <1>2, <2>5 DEF IInv, ArrivalOrder
    <3> QED
      BY <1>3, <2>1, <2>5, <3>1 DEF ahead
  <2> QED
    BY <1>5, <2>2, <2>3, <2>4, <2>5
<1> QED
  BY <1>6, <1>7

\* The walk stops at the taker's own order, counts another's, or skips it.
LEMMA Fok_FokOrder ==
    ASSUME IInv, TotalsInv, TapeInv, FokInv, FokOrder, UNCHANGED book
    PROVE  FokInv' /\ FokExact'
<1>1. /\ BookTypeOK /\ IsFiniteSet(pool) /\ op.qty \in Nat /\ crossing \in SUBSET pool
      /\ reach \in SUBSET crossing /\ opp_side = opposite(op.side) /\ op.side \in Side
      /\ \A o \in crossing : mem[o].price \in Int /\ mem[o].side = opp_side
  BY CallFacts
<1>2. /\ pc = "walk" /\ lvl \in Int /\ lvl # kNoPrice /\ fok_in_reach
      /\ cur \in crossing /\ mem[cur].price = lvl /\ mem[cur].qty \in Nat /\ cur \notin older[cur]
      /\ IF mem[cur].next = nil
         THEN \A o \in crossing : mem[o].price = lvl => o = cur \/ o \in older[cur]
         ELSE /\ mem[cur].next \in members(opp_side, lvl)
              /\ older[mem[cur].next] = older[cur] \cup {cur}
  BY AtWalk
<1>3. /\ cur # nil /\ stp_ # "None" /\ avail = lots(counted) /\ avail < op.qty
      /\ stp_ = "RejectIncoming" => \A o \in crossing : passed(o) => ~prevented(o)
      /\ lvl \in bits[opp_side]
  BY <1>2 DEF FokOrder, FokInv
<1>4. ~passed(cur)
  BY <1>2, <1>3 DEF passed, better
<1>5. PICK S : S = counted
  OBVIOUS
<1>6. S \in SUBSET crossing /\ S \in SUBSET pool /\ cur \notin S /\ lots(S) \in Nat
  <2>1. S \in SUBSET crossing /\ S \in SUBSET pool /\ cur \notin S
    BY <1>1, <1>4, <1>5 DEF counted
  <2> QED
    BY <1>1, <2>1, LotsMonotone
<1>7. CASE fok_stops
  <2>1. prevented(cur) /\ stp_ = "RejectIncoming"
    BY <1>3, <1>7 DEF fok_stops, prevented
  <2>2. ASSUME NEW o \in reach PROVE o \in S
    <3>1. o \in crossing /\ ~prevented(o) /\ ahead(o, cur)
      BY <1>1, <1>2, <2>1, <2>2, ReachIs
    <3>2. passed(o)
      BY <1>1, <1>2, <1>3, <3>1 DEF ahead, passed
    <3> QED
      BY <1>5, <3>1, <3>2 DEF counted
  <2>3. PICK R : R = reach
    OBVIOUS
  <2>4. lots(R) \in Nat /\ lots(R) <= lots(S)
    BY <1>1, <1>6, <2>2, <2>3, LotsMonotone
  <2>5. lots(reach) < op.qty
    BY <1>1, <1>3, <1>5, <1>6, <2>3, <2>4
  <2>6. FokReturns(FALSE)
    BY <1>7 DEF FokOrder
  <2> QED
    BY <1>2, <2>5, <2>6, PreCheckAnswers
<1>8. CASE ~fok_stops
  <2>0. stp_ = "RejectIncoming" => ~prevented(cur)
    BY <1>8 DEF fok_stops, prevented
  <2>1. PICK C : C = IF prevented(cur) THEN S ELSE S \cup {cur}
    OBVIOUS
  <2>2. C \in SUBSET pool /\ C \subseteq crossing
    BY <1>1, <1>2, <1>6, <2>1
  <2>3. lots(C) = (IF own(op.owner, cur) THEN avail ELSE avail + mem[cur].qty) /\ lots(C) \in Nat
    <3>1. prevented(cur) <=> own(op.owner, cur)
      BY <1>3 DEF prevented
    <3>2. CASE prevented(cur)
      BY <1>3, <1>5, <1>6, <2>1, <3>1, <3>2
    <3>3. CASE ~prevented(cur)
      <4>1. C = S \cup {cur} /\ C \ {cur} = S /\ cur \in C
        BY <1>6, <2>1, <3>3
      <4>2. lots(C) = lots(C \ {cur}) + mem[cur].qty
        <5>1. PICK x : x = cur
          OBVIOUS
        <5> QED
          BY <1>1, <2>2, <4>1, <5>1, LotsWithout
      <4>3. lots(C \ {cur}) = avail /\ avail \in Nat
        BY <1>3, <1>5, <1>6, <4>1
      <4>4. lots(C) = avail + mem[cur].qty /\ lots(C) \in Nat
        BY <1>2, <4>2, <4>3
      <4> QED
        BY <3>1, <3>3, <4>4
    <3> QED
      BY <3>2, <3>3
  <2>4. CASE lots(C) >= op.qty
    <3>1. FokReturns(TRUE)
      BY <1>8, <2>3, <2>4 DEF FokOrder
    <3>2. ~prevented(cur)
      BY <1>1, <1>3, <1>5, <2>1, <2>3, <2>4
    <3>3. ASSUME NEW o \in C PROVE o \in reach
      <4>1. o \in crossing /\ ~prevented(o) /\ (o = cur \/ passed(o))
        BY <1>5, <2>1, <2>2, <3>2, <3>3 DEF counted
      <4>2. ASSUME NEW m \in crossing, stp_ = "RejectIncoming", prevented(m) PROVE ahead(o, m)
        <5>1. ~passed(m) /\ m # cur
          BY <1>3, <2>0, <4>2
        <5> QED
          BY <4>1, <5>1, NotPassed
      <4> QED
        BY <4>1, <4>2, ReachIs
    <3>4. PICK R : R = reach
      OBVIOUS
    <3>5. lots(R) \in Nat /\ lots(C) <= lots(R)
      BY <1>1, <3>3, <3>4, LotsMonotone
    <3>6. op.qty <= lots(reach)
      BY <1>1, <2>3, <2>4, <3>4, <3>5
    <3> QED
      BY <1>2, <3>1, <3>6, PreCheckAnswers
  <2>5. CASE ~(lots(C) >= op.qty)
    <3>1. /\ avail' = lots(C) /\ cur' = mem[cur].next
          /\ UNCHANGED <<pc, op, remaining, lvl, stopped, tape, res>>
      BY <1>8, <2>3, <2>5 DEF FokOrder
    <3>2. /\ crossing' = crossing /\ opp_side' = opp_side /\ \A o : prevented(o)' <=> prevented(o)
      BY <3>1, PreCheckFrame
    <3>3. ASSUME NEW o \in crossing PROVE passed(o)' <=> passed(o) \/ o = cur
      <4>1. passed(o)' <=> \/ better(opp_side, mem[o].price, lvl)
                           \/ mem[o].price = lvl /\ (cur' = nil \/ o \in older[cur'])
        BY <1>2, <3>1, <3>2 DEF passed, book
      <4>2. passed(o) <=> \/ better(opp_side, mem[o].price, lvl)
                          \/ mem[o].price = lvl /\ o \in older[cur]
        BY <1>2, <1>3 DEF passed
      <4> QED
        BY <1>2, <3>1, <4>1, <4>2
    <3>4. counted' = C
      <4>1. counted' = {o \in crossing : passed(o)' /\ ~prevented(o)}
        BY <3>2 DEF counted
      <4> QED
        BY <1>2, <1>5, <2>1, <3>3, <4>1 DEF counted
    <3>5. lots(C) < op.qty
      BY <1>1, <2>3, <2>5
    <3>6. stp_ = "RejectIncoming" => \A o \in crossing : passed(o)' => ~prevented(o)
      BY <1>3, <2>0, <3>3
    <3>7. fok_in_reach' /\ (cur' # nil => cur' \in members(opp_side, lvl'))
      BY <1>2, <3>1 DEF fok_in_reach
    <3> QED
      BY <1>2, <1>3, <3>1, <3>4, <3>5, <3>6, <3>7, PreCheckGoesOn
  <2> QED
    BY <2>4, <2>5
<1> QED
  BY <1>7, <1>8

\* A call enters the pre-check with nothing passed.
LEMMA Fok_Enter ==
    ASSUME IInv, TotalsInv, TapeInv, FokInv, pc = "idle", UNCHANGED book, NEW o \in Call,
           EnterFok(o), avail' = avail, o.tif = "FOK", o.qty # 0
    PROVE  FokInv' /\ FokExact'
<1>1. op' = o /\ lvl' = best[opposite(o.side)] /\ pc' = "fok"
  BY DEF EnterFok
<1>2. opp_side' = opposite(o.side) /\ opp_side' \in Side
  BY <1>1 DEF opp_side, Call, opposite, Side
<1>3. LadderSound /\ BookTypeOK
  BY AtRest
<1>4. best_sound(opp_side') /\ best[opp_side'] = lvl'
  BY <1>1, <1>2, <1>3 DEF LadderSound
<1>5. ASSUME NEW x \in crossing' PROVE ~passed(x)'
  <2>1. mem'[x].side = opp_side' /\ x \in pool /\ mem[x].price \in Price /\ mem' = mem
    BY <1>3, <1>5 DEF crossing, book, BookTypeOK, Order
  <2>2. mem[x].price \in bits[opp_side']
    BY <1>2, <1>3, <2>1 DEF LadderSound, bit_sound, members
  <2>3. lvl' # kNoPrice /\ ~better(opp_side', mem[x].price, lvl')
    BY <1>3, <1>4, <1>2, <2>2, BandAssumption DEF best_sound, BookTypeOK, kNoPrice, Price
  <2> QED
    BY <1>1, <2>1, <2>3 DEF passed
<1>6. counted' = {}
  BY <1>5 DEF counted
<1>7. lots(counted)' = 0
  BY <1>6, FS_EmptySet DEF lots, units
<1>8. avail' = 0 /\ 0 < op'.qty
  BY <1>1, QtyAssumption DEF FokInv, Call, Qty
<1>9. lvl' # kNoPrice => lvl' \in bits'[opp_side']
  BY <1>4 DEF best_sound, book
<1> QED
  BY <1>1, <1>5, <1>7, <1>8, <1>9 DEF FokInv, FokExact, Sweeping

\* The resting orders of a taker after the one at the cursor is taken off.
LEMMA ReachWithout ==
    ASSUME IInv, TotalsInv, pc = "inner", cur # nil, take_off(opp_side, lvl, cur), op' = op
    PROVE  /\ prevented(cur) /\ stp_ # "RejectIncoming" => reach' = reach
           /\ ~prevented(cur) => reach' = reach \ {cur}
           /\ \A x \in pool \ {cur} : mem'[x].qty = mem[x].qty
<1>0. PICK s, p, c : s = opp_side /\ p = lvl /\ c = cur
  OBVIOUS
<1>1. TakenOff(s, p, c) /\ opp_side' = s
  BY <1>0, AtCursor DEF TakenOff, IInv, opp_side
<1>2. /\ \A x \in pool \ {c} :
            /\ mem'[x].side = mem[x].side /\ mem'[x].price = mem[x].price
            /\ mem'[x].qty = mem[x].qty /\ mem'[x].owner = mem[x].owner
            /\ older'[x] = older[x] \ {c}
      /\ pool' = pool \ {c}
  BY <1>1, TakeOffFields DEF IInv, BookTypeOK
<1>3. crossing' = crossing \ {c}
  BY <1>0, <1>1, <1>2 DEF crossing
<1>4. \A o \in crossing \ {c} : prevented(o)' <=> prevented(o)
  BY <1>2 DEF crossing, prevented, own
<1>5. \A o, m \in crossing \ {c} : ahead(o, m)' <=> ahead(o, m)
  BY <1>2 DEF crossing, ahead
<1>6. reach' = {o \in crossing' :
                  /\ ~prevented(o)'
                  /\ stp_ = "RejectIncoming" =>
                        \A m \in crossing' : prevented(m)' => ahead(o, m)'}
  BY DEF reach, reachable, crossing, prevented, opp_side
<1>7. reach' = {o \in crossing \ {c} :
                  /\ ~prevented(o)
                  /\ stp_ = "RejectIncoming" =>
                        \A m \in crossing \ {c} : prevented(m) => ahead(o, m)}
  BY <1>3, <1>4, <1>5, <1>6
<1> QED
  BY <1>0, <1>2, <1>7, ReachIs

\* match stands at an order the taker can trade with, unless it may trade with
\* nothing.
LEMMA CursorInReach ==
    ASSUME IInv, TotalsInv, pc = "inner", cur # nil
    PROVE  /\ ~self_trade => cur \in reach
           /\ self_trade /\ stp_ = "RejectIncoming" => reach = {}
           /\ self_trade <=> prevented(cur)
<1>1. /\ cur \in pool /\ mem[cur].side = opp_side /\ mem[cur].price = lvl /\ older[cur] = {}
      /\ lvl \in Price /\ lvl \in Int
  BY AtCursor, BandAssumption DEF Price
<1>2. cur \in crossing
  BY <1>1 DEF crossing, IInv, SweepSound
<1>3. /\ op.side \in Side /\ opp_side = opposite(op.side) /\ crossing \in SUBSET pool
      /\ \A o \in crossing : mem[o].price \in Int /\ mem[o].side = opp_side
  BY CallFacts
<1>4. self_trade <=> prevented(cur)
  BY DEF self_trade, prevented
<1>5. \A o \in crossing : o # cur => ahead(cur, o)
  BY <1>3, CursorHasPriority
<1>6. ~self_trade => cur \in reach
  BY <1>2, <1>4, <1>5, ReachIs
<1>7. ASSUME self_trade, stp_ = "RejectIncoming", NEW o \in reach PROVE FALSE
  <2>1. o \in crossing /\ o # cur /\ ahead(o, cur) /\ ahead(cur, o)
    BY <1>2, <1>4, <1>5, <1>7, ReachIs
  <2>2. PICK s, a, b : s = op.side /\ a = mem[o].price /\ b = lvl
    OBVIOUS
  <2>3. better(opposite(s), a, b) /\ (better(opposite(s), b, a) \/ a = b)
    BY <1>1, <1>3, <2>1, <2>2 DEF ahead
  <2>4. s \in Side /\ a \in Int /\ b \in Int
    BY <1>1, <1>3, <2>1, <2>2
  <2> QED
    BY <2>3, <2>4, Geometry
<1> QED
  BY <1>4, <1>6, <1>7

\* Every step of match leaves a fill-or-kill order what it still wants.
LEMMA Fok_Sweep ==
    ASSUME IInv, TotalsInv, FokInv, avail' = avail,
           NextLevel \/ StpStop \/ StpKill \/ PartialFill \/ FullFill \/ EndLevel,
           IInv', TotalsInv'
    PROVE  FokInv' /\ FokExact'
<1>1. /\ pc \in Sweeping /\ pc' \in Sweeping /\ op' = op
  BY DEF NextLevel, StpStop, StpKill, PartialFill, FullFill, EndLevel, Sweeping
<1>2. avail' = 0
  BY <1>1 DEF FokInv, Sweeping
<1> SUFFICES ASSUME op.tif = "FOK" PROVE ~stopped' /\ remaining' <= lots(reach)'
  BY <1>1, <1>2 DEF FokInv, FokExact, Sweeping
<1>3. ~stopped /\ remaining <= lots(reach)
  BY <1>1 DEF FokInv
<1>4. /\ BookTypeOK /\ IsFiniteSet(pool) /\ lots(reach) \in Nat /\ reach \in SUBSET pool
      /\ reach \in SUBSET crossing
  BY CallFacts DEF crossing
<1>5. CASE NextLevel \/ EndLevel
  <2>1. UNCHANGED <<mem, pool, older, op, remaining, stopped>>
    BY <1>5 DEF NextLevel, EndLevel, book
  <2>2. reach' = reach
    BY <2>1 DEF reach, reachable, own, ahead
  <2> QED
    BY <1>3, <2>1, <2>2 DEF lots
<1>6. CASE StpStop
  <2>1. pc = "inner" /\ cur # nil /\ self_trade /\ stp_ = "RejectIncoming"
    BY <1>6 DEF StpStop
  <2>2. reach = {} /\ remaining \in Int /\ remaining > 0
    BY <2>1, CursorInReach, AtCursor
  <2>3. lots(reach) = 0
    BY <2>2, FS_EmptySet DEF lots, units
  <2> QED
    BY <1>3, <2>2, <2>3
<1>7. CASE StpKill \/ FullFill
  <2>1. pc = "inner" /\ cur # nil /\ take_off(opp_side, lvl, cur) /\ stopped' = stopped
    BY <1>7 DEF StpKill, FullFill
  <2>2. /\ prevented(cur) /\ stp_ # "RejectIncoming" => reach' = reach
        /\ ~prevented(cur) => reach' = reach \ {cur}
        /\ \A x \in pool \ {cur} : mem'[x].qty = mem[x].qty
    BY <1>1, <2>1, ReachWithout
  <2>3. PICK R, c : R = reach /\ c = cur
    OBVIOUS
  <2>4. CASE StpKill
    <3>1. prevented(cur) /\ stp_ # "RejectIncoming" /\ remaining' = remaining
      BY <2>1, <2>4, CursorInReach DEF StpKill
    <3>2. reach' = R /\ c \notin R
      BY <2>2, <2>3, <3>1, ReachIs
    <3>3. Cardinality(units(mem', R)) = lots(R)
      <4>1. \A x \in R : mem'[x].qty = mem[x].qty
        BY <1>4, <2>2, <2>3, <3>2
      <4> QED
        BY <4>1, LotsSame
    <3> QED
      BY <1>3, <2>1, <2>3, <3>1, <3>2, <3>3 DEF lots
  <2>5. CASE FullFill
    <3>1. /\ ~prevented(cur) /\ cur \in reach /\ remaining' = remaining - mem[cur].qty
          /\ remaining \in Int
      BY <2>1, <2>5, CursorInReach, AtCursor DEF FullFill
    <3>2. reach' = R \ {c} /\ c \in R
      BY <2>2, <2>3, <3>1
    <3>3. /\ lots(R \ {c}) \in Nat /\ mem[c].qty \in Nat
          /\ lots(R) = lots(R \ {c}) + mem[c].qty
      BY <1>4, <2>3, <3>2, LotsWithout
    <3>4. Cardinality(units(mem', R \ {c})) = lots(R \ {c})
      <4>1. \A x \in R \ {c} : mem'[x].qty = mem[x].qty
        BY <1>4, <2>2, <2>3
      <4>2. PICK T : T = R \ {c}
        OBVIOUS
      <4>3. Cardinality(units(mem', T)) = lots(T)
        BY <4>1, <4>2, LotsSame
      <4> QED
        BY <4>2, <4>3
    <3>5. lots(reach)' = lots(R \ {c})
      BY <3>2, <3>4 DEF lots
    <3>6. remaining <= lots(R) /\ remaining' = remaining - mem[c].qty
      BY <1>3, <2>3, <3>1
    <3>7. remaining' <= lots(reach)'
      BY <3>1, <3>3, <3>5, <3>6
    <3> QED
      BY <1>3, <2>1, <3>7
  <2> QED
    BY <1>7, <2>4, <2>5
<1>8. CASE PartialFill
  <2>1. remaining' = 0 /\ stopped' = stopped
    BY <1>8 DEF PartialFill
  <2>2. lots(reach)' \in Nat
    <3>1. PICK f, P, R : f = mem' /\ P = pool' /\ R = reach'
      OBVIOUS
    <3>2. R \subseteq P /\ IsFiniteSet(P) /\ \A x \in P : f[x].qty \in Qty
      BY <3>1 DEF reach, reachable, TotalsInv, IInv, BookTypeOK, Order
    <3>3. IsFiniteSet(R)
      BY <3>2, FS_Subset
    <3>4. IsFiniteSet(units(f, R))
      BY <3>2, <3>3, UnitsFinite
    <3>5. Cardinality(units(f, R)) \in Nat
      BY <3>4, FS_CardinalityType
    <3> QED
      BY <3>1, <3>5 DEF lots
  <2> QED
    BY <1>3, <2>1, <2>2
<1> QED
  BY <1>5, <1>6, <1>7, <1>8

\* A fill-or-kill order leaves match filled.
LEMMA Fok_Finish ==
    ASSUME IInv, TotalsInv, TapeInv, FokInv, Finish, avail' = avail
    PROVE  FokInv' /\ FokExact'
<1>1. pc = "outer" /\ pc' = "done" /\ op' = op /\ tape' = tape /\ sweep_over
        /\ res' = match_result(rests)
  BY DEF Finish
<1>2. avail' = 0
  BY <1>1 DEF FokInv
<1>3. FokInv'
  BY <1>1, <1>2 DEF FokInv, Sweeping
<1> SUFFICES ASSUME op.kind = "limit", op.tif = "FOK" PROVE ~res'.rejected /\ res'.filled = op.qty
  BY <1>1, <1>3 DEF FokExact
<1>4. ~stopped /\ remaining <= lots(reach) /\ remaining \in Int /\ 0 <= remaining
  BY <1>1, QtyAssumption DEF FokInv, Sweeping, IInv, CallTypeOK, Qty
<1>5. remaining = 0
  <2> SUFFICES ASSUME remaining # 0 PROVE FALSE
    OBVIOUS
  <2>1. best[opp_side] = kNoPrice \/ ~crosses(op.side, best[opp_side], op.px)
    BY <1>1, <1>4 DEF sweep_over
  <2>2. /\ op.side \in Side /\ opp_side = opposite(op.side) /\ opp_side \in Side /\ BookTypeOK
        /\ op.px \in Int /\ reach \in SUBSET crossing
        /\ \A o \in crossing : /\ mem[o].price \in Price /\ mem[o].price \in Int
                               /\ o \in members(opp_side, mem[o].price)
    BY CallFacts
  <2>3. LadderSound
    BY <1>1, AtRest
  <2>4. ASSUME NEW o \in crossing PROVE FALSE
    <3>1. mem[o].price \in bits[opp_side]
      BY <2>2, <2>3 DEF LadderSound, bit_sound
    <3>2. /\ best[opp_side] \in bits[opp_side]
          /\ ~better(opp_side, mem[o].price, best[opp_side])
      BY <2>2, <2>3, <3>1 DEF LadderSound, best_sound
    <3>3. best[opp_side] \in Int /\ best[opp_side] # kNoPrice
      BY <2>2, <3>2, BandAssumption DEF BookTypeOK, Price, kNoPrice
    <3>4. PICK s, a, b, c : s = op.side /\ a = mem[o].price /\ b = best[opp_side] /\ c = op.px
      OBVIOUS
    <3>5. /\ s \in Side /\ a \in Int /\ b \in Int /\ c \in Int
          /\ crosses(s, a, c) /\ ~crosses(s, b, c) /\ ~better(opposite(s), a, b)
      BY <2>1, <2>2, <3>2, <3>3, <3>4 DEF crossing
    <3> QED
      BY <3>5, Geometry
  <2>5. reach = {}
    BY <2>2, <2>4
  <2>6. lots(reach) = 0
    BY <2>5, FS_EmptySet DEF lots, units
  <2> QED
    BY <1>4, <2>6
<1>6. filled = op.qty
  BY <1>5, CallFacts DEF filled
<1> QED
  BY <1>1, <1>4, <1>6 DEF match_result, stp_rejected, NoResult

\* The pre-check has counted what there is, and match finds it, in every
\* reachable state.
LEMMA FokSound == Spec => [](FokInv /\ FokExact)
<1>1. Init => FokInv /\ FokExact
  BY DEF Init, FokInv, FokExact, Sweeping
<1>2. IInv /\ TotalsInv /\ TapeInv /\ FokInv /\ FokExact /\ [Next]_vars /\ IInv' /\ TotalsInv'
        => FokInv' /\ FokExact'
  <2> SUFFICES ASSUME IInv, TotalsInv, TapeInv, FokInv, FokExact, [Next]_vars, IInv', TotalsInv'
               PROVE  FokInv' /\ FokExact'
    OBVIOUS
  <2>1. CASE PreCheck /\ UNCHANGED book
    BY <2>1, Fok_FokEnd, Fok_FokTotal, Fok_FokWalk, Fok_FokOrder, Fok_FokLevelEnd DEF PreCheck
  <2>2. CASE Engine /\ UNCHANGED avail
    <3>1. CASE Returned
      BY <2>2, <3>1 DEF Returned, FokInv, FokExact, Sweeping
    <3> QED
      BY <2>2, <3>1, Fok_Sweep, Fok_Finish DEF Engine
  <2>3. CASE Caller /\ UNCHANGED avail
    <3>1. pc = "idle" /\ avail' = 0 /\ tape = << >> /\ ~stopped
      BY <2>3, CallsBeginIdle DEF FokInv, TapeInv
    <3>2. ASSUME NEW o, EnterMatch(o), o.tif # "FOK" PROVE FokInv' /\ FokExact'
      BY <3>1, <3>2 DEF EnterMatch, FokInv, FokExact, Sweeping
    <3>3. ASSUME NEW o, NEW r, Return(o, r),
                 o.kind = "limit" => r.rejected /\ ~limit_valid(o) /\ index' = index
          PROVE  FokInv' /\ FokExact'
      <4>1. op' = o /\ res' = r /\ pc' = "done" /\ tape' = << >>
        BY <3>1, <3>3 DEF Return
      <4>2. index' = index => (limit_valid(op)' <=> limit_valid(o))
        BY <4>1 DEF limit_valid
      <4> QED
        BY <3>1, <3>3, <4>1, <4>2 DEF FokInv, FokExact, Sweeping
    <3>4. ASSUME NEW id \in Ptr, NEW side \in Side, NEW px \in CallPrice, NEW qty \in Qty,
                 NEW tif \in Tif, NEW owner \in Owner, submit_limit(id, side, px, qty, tif, owner)
          PROVE  FokInv' /\ FokExact'
      <4> DEFINE o == [kind |-> "limit", id |-> id, side |-> side, px |-> px, qty |-> qty,
                       tif |-> tif, owner |-> owner]
      <4>1. o \in Call /\ o.kind = "limit" /\ o.tif = tif /\ o.qty = qty
        BY BandAssumption DEF Call, CallPrice
      <4>2. /\ UNCHANGED book
            /\ \/ ~limit_valid(o) /\ Return(o, Rejection)
               \/ limit_valid(o) /\ tif = "FOK" /\ EnterFok(o)
               \/ tif # "FOK" /\ EnterMatch(o)
        BY <3>4 DEF submit_limit
      <4> HIDE DEF o
      <4>3. index' = index /\ Rejection.rejected /\ (limit_valid(o) => o.qty # 0)
        BY <4>2 DEF book, Rejection, NoResult, limit_valid
      <4> QED
        BY <2>3, <3>1, <3>2, <3>3, <4>1, <4>2, <4>3, Fok_Enter
    <3>5. ASSUME NEW id, NEW side, NEW qty, NEW owner, submit_market(id, side, qty, owner)
          PROVE  FokInv' /\ FokExact'
      <4> DEFINE o == [kind |-> "market", id |-> id, side |-> side, px |-> market_limit(side),
                       qty |-> qty, tif |-> "IOC", owner |-> owner]
      <4>1. o.kind = "market" /\ o.tif = "IOC" /\ (EnterMatch(o) \/ Return(o, NoResult))
        BY <3>5 DEF submit_market
      <4> HIDE DEF o
      <4> QED
        BY <3>2, <3>3, <4>1
    <3>6. ASSUME NEW id, cancel(id) PROVE FokInv' /\ FokExact'
      <4> DEFINE o == [NoCall EXCEPT !.kind = "cancel", !.id = id]
      <4>1. o.kind = "cancel" /\ \E r : Return(o, r)
        BY <3>6 DEF cancel, NoCall
      <4> HIDE DEF o
      <4> QED
        BY <3>3, <4>1
    <3>7. ASSUME NEW id, NEW new_px, NEW new_qty, modify(id, new_px, new_qty)
          PROVE  FokInv' /\ FokExact'
      <4> DEFINE o == [NoCall EXCEPT !.kind = "modify", !.id = id, !.px = new_px, !.qty = new_qty]
                 fresh == [o EXCEPT !.side = mem[id].side, !.owner = mem[id].owner]
      <4>1. o.kind = "modify" /\ o.tif = "GTC" /\ fresh.tif = "GTC"
        BY DEF NoCall
      <4>2. EnterMatch(fresh) \/ \E r : Return(o, r)
        BY <3>7 DEF modify
      <4> HIDE DEF o, fresh
      <4> QED
        BY <3>2, <3>3, <4>1, <4>2
    <3> QED
      BY <2>3, <3>4, <3>5, <3>6, <3>7 DEF Caller
  <2>4. CASE UNCHANGED vars
    <3>1. UNCHANGED book /\ UNCHANGED call
      BY <2>4 DEF vars
    <3>2. /\ crossing' = crossing /\ reach' = reach /\ opp_side' = opp_side
          /\ \A o : prevented(o)' <=> prevented(o)
          /\ \A S : Cardinality(units(mem', S)) = lots(S)
          /\ \A s, p : members(s, p)' = members(s, p)
      BY <3>1, PreCheckFrame DEF call
    <3>3. (\A o : passed(o)' <=> passed(o)) /\ (fok_in_reach' <=> fok_in_reach)
      BY <3>1, <3>2 DEF passed, fok_in_reach, book, call
    <3>4. counted' = counted
      <4>1. counted' = {o \in crossing' : passed(o)' /\ ~prevented(o)'}
        BY DEF counted
      <4> QED
        BY <3>2, <3>3, <4>1 DEF counted
    <3>5. lots(counted)' = lots(counted) /\ lots(reach)' = lots(reach)
      BY <3>2, <3>4 DEF lots
    <3>6. FokInv'
      BY <3>1, <3>2, <3>3, <3>5 DEF FokInv, book, call
    <3>7. FokExact'
      BY <3>1, <3>5 DEF FokExact, book, call, limit_valid, reach
    <3> QED
      BY <3>6, <3>7
  <2> QED
    BY <2>1, <2>2, <2>3, <2>4 DEF Next
<1> QED
  BY <1>1, <1>2, Invariance, TotalsInvariance, TapeSound, PTL DEF Spec

\* Fill-or-kill is exact: the pre-check promises what match then finds, and
\* refuses only what is not there.
THEOREM FokCorrect == Spec => []FokExact
  BY FokSound, PTL

\* The pre-check never comes back to a tick, nor to an order of a level.
LEMMA ReadingTerminates == IInv /\ TotalsInv /\ FokInv /\ Next => ReadingStep
<1> SUFFICES ASSUME IInv, TotalsInv, FokInv, Next, pc \in {"fok", "walk"}, pc' \in {"fok", "walk"}
             PROVE  ReadingStep
  BY DEF ReadingStep
<1>1. PreCheck /\ UNCHANGED book
  <2>1. ~Caller
    BY CallsBeginIdle
  <2>2. ~Engine
    BY DEF Engine, NextLevel, StpStop, StpKill, PartialFill, FullFill, EndLevel, Finish, Returned
  <2> QED
    BY <2>1, <2>2 DEF Next
<1>2. op' = op /\ opp_side' = opp_side /\ bits' = bits
  BY <1>1, PreCheckStep DEF opp_side, book
<1>3. \A b : ~FokReturns(b)
  BY DEF FokReturns
<1>4. ASSUME fok_in_reach, lvl' = scan_worse(opp_side, lvl, bits[opp_side])
      PROVE  unread' # unread /\ unread' \subseteq unread
  <2>0. PICK s, t, from, B, r : /\ s = op.side /\ t = opp_side /\ from = lvl /\ B = bits[opp_side]
                                /\ r = lvl'
    OBVIOUS
  <2>1. /\ s \in Side /\ t = opposite(s) /\ t \in Side /\ from \in Price /\ from \in B
        /\ B \in SUBSET Price /\ from # kNoPrice /\ r = scan_worse(t, from, B)
    BY <1>4, <2>0, CallFacts DEF fok_in_reach, FokInv, IInv, CallTypeOK, BookTypeOK
  <2>2. /\ unread = {p \in B : ~better(t, p, from)}
        /\ unread' = IF r = kNoPrice THEN {} ELSE {p \in B : ~better(t, p, r)}
    BY <1>2, <2>0, <2>1 DEF unread
  <2>3. from \in unread
    BY <2>1, <2>2, BandAssumption DEF better, Price
  <2>4. CASE r = kNoPrice
    BY <2>2, <2>3, <2>4
  <2>5. CASE r # kNoPrice
    <3>1. r \in B /\ better(t, from, r)
      BY <2>1, <2>5, ScanWorse
    <3>2. \A p \in B : p \in Int
      BY <2>1, BandAssumption DEF Price
    <3>3. \A p \in B : better(t, p, from) => better(t, p, r)
      BY <2>1, <3>1, <3>2, Geometry
    <3> QED
      BY <2>1, <2>2, <2>3, <2>5, <3>1, <3>3
  <2> QED
    BY <2>4, <2>5
<1>5. CASE FokEnd
  BY <1>3, <1>5 DEF FokEnd
<1>6. CASE FokTotal \/ FokLevelEnd
  <2>1. fok_in_reach /\ lvl' = scan_worse(opp_side, lvl, bits[opp_side])
    BY <1>3, <1>6 DEF FokTotal, FokLevelEnd, fok_level_read, FokInv
  <2> QED
    BY <1>4, <2>1 DEF ReadingStep
<1>7. CASE FokWalk
  BY <1>2, <1>7 DEF FokWalk, unread, ReadingStep
<1>8. CASE FokOrder
  <2>1. pc = "walk" /\ pc' = "walk" /\ cur # nil /\ cur' = mem[cur].next /\ lvl' = lvl
    BY <1>3, <1>8 DEF FokOrder
  <2>2. /\ cur \in members(opp_side, lvl) /\ cur \notin older[cur]
        /\ mem[cur].next # nil => older[mem[cur].next] = older[cur] \cup {cur}
    BY <1>8, <2>1, AtWalk DEF FokInv
  <2>3. unread' = unread
    BY <1>2, <2>1 DEF unread
  <2>4. members(opp_side, lvl)' = members(opp_side, lvl) /\ older' = older
    BY <1>1, <1>2, <2>1 DEF members, book
  <2>5. unseen' # unseen /\ unseen' \subseteq unseen
    BY <2>1, <2>2, <2>4 DEF unseen
  <2> QED
    BY <2>1, <2>3, <2>5 DEF ReadingStep
<1> QED
  BY <1>1, <1>5, <1>6, <1>7, <1>8 DEF PreCheck

\* The loops of a call always come to an end: every step of them clears a bit,
\* takes an order off, leaves a tick or an order behind, or comes nearer to the
\* exit.
THEOREM SweepTerminates == Spec => SweepEnds
<1>1. ASSUME IInv, TotalsInv, FokInv, [ProgressStep]_vars, [Next]_vars
      PROVE  [ProgressStep /\ ReadingStep]_vars
  BY <1>1, ReadingTerminates
<1> QED
  BY <1>1, Invariance, TotalsInvariance, FokSound, MatchTerminates, PTL DEF Spec, SweepEnds

=============================================================================
