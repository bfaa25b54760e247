--------------------------- MODULE GatewayProofs ---------------------------
(***************************************************************************)
(* The gateway's safety properties, for every number of clients, client    *)
(* ids, connections, orders and outbox capacity and each self-trade        *)
(* policy.  The inductive invariant IInv joins the mirror with what holds  *)
(* in the middle of a frame: what is known of the order an engine call is  *)
(* about (CallSound), who owns the resting orders (OwnersOpen), the        *)
(* indices of the loop (IndexSound) and what has been told so far          *)
(* (ToldSound).                                                            *)
(***************************************************************************)
EXTENDS Gateway, TLAPS, FiniteSetTheorems, SequenceTheorems

Conn == [owner : Nat, dead : BOOLEAN, outbox : 0 .. kMaxOutbox]
Order == [qty : Nat \ {0}, owner : Nat, side : Side]
LiveOrder == [owner : Nat, client : ClientId \cup {0}, open : Nat \ {0}, side : Side]
CallType ==
    [kind : {"none", "limit", "market", "cancel", "modify"}, client : ClientId \cup {0}, id : Nat,
     side : Side, want : Nat, filled : Nat, killed : SUBSET (ClientId \cup {0})]
Status == {"Accepted", "PartialRest", "Replaced", "Filled", "PartialDone", "Canceled", "Unknown", "Rejected"}
ReportType == [client : ClientId \cup {0}, filled : Nat, status : Status]

\* Types, with the bounds that index arithmetic needs.
Typed ==
    /\ stp_ \in Stp
    /\ last_ \in Nat
    /\ book \in [DOMAIN book -> Order] /\ DOMAIN book \subseteq 1 .. last_
    /\ live_ \in [DOMAIN live_ -> LiveOrder] /\ DOMAIN live_ \subseteq 1 .. last_
    /\ taker_side_ \in Side
    /\ conns \in Seq(Conn) /\ next_owner \in Nat
    /\ pc \in {"poll", "serve", "call", "handled", "flush", "reap"}
    /\ at \in Nat /\ polled \in Nat
    /\ call \in CallType /\ reports \in Seq(ReportType)

\* Owners are never used twice.
OwnersDistinct ==
    /\ \A x, y \in DOMAIN conns : conns[x].owner = conns[y].owner => x = y
    /\ \A x \in DOMAIN conns : conns[x].owner < next_owner

\* The loop's index is that of a connection where the code uses it, and reap
\* leaves no dead connection behind it.
IndexSound ==
    /\ pc = "serve" => at \in 1 .. (polled + 1) /\ polled <= Len(conns)
    /\ pc \in {"call", "handled", "flush"} => at \in 1 .. polled /\ polled <= Len(conns)
    /\ pc = "reap" => at <= Len(conns) /\ \A y \in DOMAIN conns : y > at => ~conns[y].dead
    /\ pc = "poll" => \A y \in DOMAIN conns : ~conns[y].dead

\* by_client_ and live_ are two views of the same orders.
KeysSound ==
    \A k \in DOMAIN by_client_ :
        /\ by_client_[k] \in DOMAIN live_
        /\ k = <<live_[by_client_[k]].owner, live_[by_client_[k]].client>>

\* Every order on record belongs to an open connection.
OwnersOpen == \A x \in DOMAIN live_ : \E y \in DOMAIN conns : conns[y].owner = live_[x].owner

\* What is known of the order an engine call is about: it is on its way and
\* not on the book, a modified one is still on record as its client's own, and
\* a new one has no record yet and a client id that is free.
CallSound ==
    pc = "call" =>
        /\ call.filled <= call.want
        /\ taker_side_ = call.side
        /\ call.id \notin DOMAIN book
        /\ ~accepted => quiet
        /\ call.kind \in {"limit", "market", "modify"}
        /\ IF call.kind = "modify"
           THEN /\ accepted /\ call.id \in DOMAIN live_
                /\ live_[call.id].owner = c.owner /\ live_[call.id].client = call.client
                /\ live_[call.id].side = call.side
           ELSE /\ call.id \notin DOMAIN live_ /\ call.id <= last_
                /\ call.id # 0 => <<c.owner, call.client>> \notin DOMAIN by_client_

\* What has been told while the frame is handled.
ToldSound ==
    /\ FeedTrue
    /\ pc \notin {"call", "handled"} => call = NoCall /\ reports = << >> /\ trade_msg = NoTrade
    /\ pc = "call" =>
          /\ \A r \in DOMAIN reports : reports[r].status = "Canceled"
          /\ ~c.dead => {reports[r].client : r \in DOMAIN reports} = call.killed

IInv ==
    /\ Typed /\ OwnersDistinct /\ IndexSound /\ MirrorExact /\ KeysSound
    /\ OwnersOpen /\ CallSound /\ ToldSound /\ ReportsTrue

-----------------------------------------------------------------------------
(* Sequences *)

\* RemoveAt(s, n): the elements behind the n-th move down by one.
LEMMA RemoveAtFacts ==
    ASSUME NEW S, NEW s \in Seq(S), NEW n \in 1 .. Len(s)
    PROVE  /\ RemoveAt(s, n) \in Seq(S)
           /\ Len(RemoveAt(s, n)) = Len(s) - 1
           /\ \A x \in 1 .. (Len(s) - 1) : RemoveAt(s, n)[x] = IF x < n THEN s[x] ELSE s[x + 1]
<1> DEFINE a == SubSeq(s, 1, n - 1)  b == SubSeq(s, n + 1, Len(s))
<1>1. a \in Seq(S) /\ Len(a) = n - 1 /\ \A x \in 1 .. (n - 1) : a[x] = s[x]
  BY SubSeqProperties
<1>2. b \in Seq(S) /\ Len(b) = Len(s) - n /\ \A x \in 1 .. (Len(s) - n) : b[x] = s[n + x]
  BY SubSeqProperties
<1>3. RemoveAt(s, n) = a \o b
  BY DEF RemoveAt
<1> HIDE DEF a, b
<1>4. /\ a \o b \in Seq(S) /\ Len(a \o b) = Len(a) + Len(b)
      /\ \A x \in 1 .. (Len(a) + Len(b)) : (a \o b)[x] = IF x <= Len(a) THEN a[x] ELSE b[x - Len(a)]
  BY <1>1, <1>2, ConcatProperties
<1>5. ASSUME NEW x \in 1 .. (Len(s) - 1)
      PROVE  (a \o b)[x] = IF x < n THEN s[x] ELSE s[x + 1]
  <2>1. CASE x < n
    BY <1>1, <1>2, <1>4, <2>1
  <2>2. CASE ~(x < n)
    <3>1. (a \o b)[x] = b[x - (n - 1)] /\ x - (n - 1) \in 1 .. (Len(s) - n)
      BY <1>1, <1>2, <1>4, <2>2
    <3> QED
      BY <1>2, <2>2, <3>1
  <2> QED
    BY <2>1, <2>2
<1> QED
  BY <1>1, <1>2, <1>3, <1>4, <1>5

-----------------------------------------------------------------------------
(* OrderIds: the two views of the orders on record *)

Found ==
    \A x \in DOMAIN live_ :
        /\ <<live_[x].owner, live_[x].client>> \in DOMAIN by_client_
        /\ by_client_[<<live_[x].owner, live_[x].client>>] = x
Views == Found /\ KeysSound

\* The mirror, but for the orders M.
Mirrors(M) ==
    /\ DOMAIN live_ \ M = DOMAIN book \ M
    /\ \A x \in DOMAIN book \ M :
          /\ live_[x].open = book[x].qty /\ live_[x].owner = book[x].owner
          /\ live_[x].side = book[x].side
moving == IF pc = "call" THEN {call.id} ELSE {}

\* MirrorExact is the mirror plus the first view, since no id is 0.
LEMMA MirrorParts == ASSUME Typed, KeysSound PROVE MirrorExact <=> Mirrors(moving) /\ Found
<1>1. 0 \notin DOMAIN live_
  BY DEF Typed
<1> QED
  BY <1>1 DEF MirrorExact, Mirrors, moving, Found, KeysSound, find

\* The same of the next state, for a step that is known by what it does to
\* the mirror of all orders but M.
LEMMA MirrorNext ==
    ASSUME Typed', Views', NEW M, Mirrors(M)', M = moving'
    PROVE  MirrorExact'
<1>1. 0 \notin DOMAIN live_'
  BY DEF Typed
<1> QED
  BY <1>1 DEF MirrorExact, Mirrors, moving, Views, Found, KeysSound, find

\* forget removes the orders S from both views.
LEMMA ForgetViews ==
    ASSUME Views, NEW S, forget(S)
    PROVE  /\ Views' /\ DOMAIN live_' = DOMAIN live_ \ S
           /\ \A x \in DOMAIN live_ \ S : live_'[x] = live_[x]
<1> DEFINE K == {<<live_[x].owner, live_[x].client>> : x \in S \cap DOMAIN live_}
<1>1. DOMAIN live_' = DOMAIN live_ \ S /\ \A x \in DOMAIN live_ \ S : live_'[x] = live_[x]
  BY DEF forget, drop
<1>2. DOMAIN by_client_' = DOMAIN by_client_ \ K /\ \A k \in DOMAIN by_client_ \ K : by_client_'[k] = by_client_[k]
  BY DEF forget, drop
<1>3. \A k \in DOMAIN by_client_ : k \in K <=> by_client_[k] \in S
  BY DEF Views, Found, KeysSound
<1> HIDE DEF K
<1>4. Found'
  BY <1>1, <1>2, <1>3 DEF Views, Found
<1>5. KeysSound'
  BY <1>1, <1>2, <1>3 DEF Views, KeysSound
<1> QED
  BY <1>1, <1>4, <1>5 DEF Views

\* The orders S leave the book and the records together.
LEMMA DropOrders ==
    ASSUME Typed, Views, NEW M, Mirrors(M), NEW S, forget(S), book' = drop(book, S), UNCHANGED last_
    PROVE  /\ Views' /\ Mirrors(M)'
           /\ book' \in [DOMAIN book' -> Order] /\ DOMAIN book' = DOMAIN book \ S
           /\ DOMAIN book' \subseteq 1 .. last_'
           /\ \A x \in DOMAIN book \ S : book'[x] = book[x]
           /\ live_' \in [DOMAIN live_' -> LiveOrder] /\ DOMAIN live_' = DOMAIN live_ \ S
           /\ DOMAIN live_' \subseteq 1 .. last_'
           /\ \A x \in DOMAIN live_ \ S : live_'[x] = live_[x]
<1>1. /\ Views' /\ DOMAIN live_' = DOMAIN live_ \ S
      /\ \A x \in DOMAIN live_ \ S : live_'[x] = live_[x]
  BY ForgetViews
<1>2. DOMAIN book' = DOMAIN book \ S /\ \A x \in DOMAIN book \ S : book'[x] = book[x]
  BY DEF drop
<1>3. book' \in [DOMAIN book' -> Order] /\ DOMAIN book' \subseteq 1 .. last_'
  BY <1>2 DEF Typed, drop
<1>4. live_' \in [DOMAIN live_' -> LiveOrder] /\ DOMAIN live_' \subseteq 1 .. last_'
  BY <1>1 DEF Typed, drop, forget
<1>5. Mirrors(M)'
  BY <1>1, <1>2 DEF Mirrors
<1> QED
  BY <1>1, <1>2, <1>3, <1>4, <1>5

\* record enters an order that is new and has a free client id, or changes
\* the entry of one that is there under the same owner and client id.
LEMMA RecordViews ==
    ASSUME Views, NEW id, NEW owner, NEW client, NEW open, NEW side,
           record(id, owner, client, open, side),
           IF id \in DOMAIN live_ THEN live_[id].owner = owner /\ live_[id].client = client
           ELSE <<owner, client>> \notin DOMAIN by_client_
    PROVE  /\ Views' /\ DOMAIN live_' = DOMAIN live_ \cup {id}
           /\ live_'[id] = [owner |-> owner, client |-> client, open |-> open, side |-> side]
           /\ \A x \in DOMAIN live_ \ {id} : live_'[x] = live_[x]
<1>1. /\ DOMAIN live_' = DOMAIN live_ \cup {id}
      /\ live_'[id] = [owner |-> owner, client |-> client, open |-> open, side |-> side]
      /\ \A x \in DOMAIN live_ \ {id} : live_'[x] = live_[x]
  BY DEF record, put
<1> DEFINE k0 == <<owner, client>>
<1>2. /\ DOMAIN by_client_' = DOMAIN by_client_ \cup {k0} /\ by_client_'[k0] = id
      /\ \A k \in DOMAIN by_client_ \ {k0} : by_client_'[k] = by_client_[k]
  BY DEF record, put
<1>3. \A x \in DOMAIN live_ : <<live_[x].owner, live_[x].client>> = k0 => x = id
  BY DEF Views, Found, KeysSound
<1>4. \A k \in DOMAIN by_client_ : by_client_[k] = id => k = k0
  BY DEF Views, Found, KeysSound
<1>5. live_'[id].owner = owner /\ live_'[id].client = client
  BY <1>1
<1> HIDE DEF k0
<1>6. Found'
  BY <1>1, <1>2, <1>3, <1>5 DEF Views, Found, k0
<1>7. KeysSound'
  BY <1>1, <1>2, <1>4, <1>5 DEF Views, KeysSound, k0
<1> QED
  BY <1>1, <1>6, <1>7 DEF Views

-----------------------------------------------------------------------------
(* Connections *)

\* queue_send keeps the owner, never revives, and either drops the connection
\* or makes its outbox longer.
LEMMA QueueSendFacts ==
    ASSUME NEW conn \in Conn
    PROVE  /\ queue_send(conn) \in Conn /\ queue_send(conn).owner = conn.owner
           /\ conn.dead => queue_send(conn).dead
           /\ ~queue_send(conn).dead => queue_send(conn).outbox = conn.outbox + 1
<1>1. conn.owner \in Nat /\ conn.dead \in BOOLEAN /\ conn.outbox \in 0 .. kMaxOutbox /\ kMaxOutbox \in Nat
  BY BoundAssumption DEF Conn
<1>2. conn = [owner |-> conn.owner, dead |-> conn.dead, outbox |-> conn.outbox]
  BY DEF Conn
<1>3. CASE conn.outbox + 1 > kMaxOutbox
  <2>1. queue_send(conn) = [owner |-> conn.owner, dead |-> TRUE, outbox |-> conn.outbox]
    BY <1>2, <1>3 DEF queue_send
  <2> QED
    BY <1>1, <2>1 DEF Conn
<1>4. CASE ~(conn.outbox + 1 > kMaxOutbox)
  <2>1. queue_send(conn) = [owner |-> conn.owner, dead |-> conn.dead, outbox |-> conn.outbox + 1]
    BY <1>2, <1>4 DEF queue_send
  <2>2. conn.outbox + 1 \in 0 .. kMaxOutbox
    BY <1>1, <1>4
  <2> QED
    BY <1>1, <2>1, <2>2 DEF Conn
<1> QED
  BY <1>3, <1>4

\* What a change of one connection does to the others.
LEMMA ConnUpdate ==
    ASSUME Typed, OwnersDistinct, OwnersOpen, NEW n \in DOMAIN conns, NEW v \in Conn,
           v.owner = conns[n].owner, conns' = [conns EXCEPT ![n] = v],
           next_owner' = next_owner
    PROVE  /\ conns' \in Seq(Conn) /\ Len(conns') = Len(conns) /\ DOMAIN conns' = DOMAIN conns
           /\ conns'[n] = v /\ \A x \in DOMAIN conns \ {n} : conns'[x] = conns[x]
           /\ \A x \in DOMAIN conns : conns'[x].owner = conns[x].owner
           /\ OwnersDistinct'
           /\ UNCHANGED live_ => OwnersOpen'
<1>1. conns \in Seq(Conn)
  BY DEF Typed
<1>2. /\ conns' \in Seq(Conn) /\ Len(conns') = Len(conns) /\ DOMAIN conns' = DOMAIN conns
      /\ conns'[n] = v /\ \A x \in DOMAIN conns \ {n} : conns'[x] = conns[x]
  BY <1>1
<1>3. \A x \in DOMAIN conns : conns'[x].owner = conns[x].owner
  BY <1>2
<1>4. OwnersDistinct'
  BY <1>2, <1>3 DEF OwnersDistinct
<1>5. UNCHANGED live_ => OwnersOpen'
  BY <1>2, <1>3 DEF OwnersOpen
<1> QED
  BY <1>2, <1>3, <1>4, <1>5

\* Where the loop's index points.
LEMMA ServedConn ==
    ASSUME Typed, IndexSound,
           serving \/ pc \in {"call", "handled", "flush"} \/ (pc = "reap" /\ at > 0)
    PROVE  at \in DOMAIN conns /\ c \in Conn /\ c = conns[at]
<1>1. at \in 1 .. Len(conns)
  BY DEF Typed, IndexSound, serving
<1> QED
  BY <1>1 DEF Typed, c

-----------------------------------------------------------------------------
(* The steps of the loop: they leave the book and the records alone *)

books == <<book, ids, snapshot>>

\* Outside an engine call the mirror depends on the book and records only.
LEMMA SameBook ==
    ASSUME IInv, UNCHANGED books, UNCHANGED taker_side_, pc # "call", pc' # "call"
    PROVE  MirrorExact' /\ KeysSound' /\ CallSound' /\ snapshot' = book'
<1>1. snapshot = book
  BY DEF IInv, ToldSound, FeedTrue
<1>2. KeysSound'
  BY DEF IInv, KeysSound, books, ids
<1>3. CallSound'
  BY DEF CallSound
<1>4. MirrorExact'
  BY DEF IInv, MirrorExact, books, ids, find
<1> QED
  BY <1>1, <1>2, <1>3, <1>4 DEF books

\* Outside a handler nothing is being told.
LEMMA NothingTold ==
    ASSUME snapshot' = book', pc' \notin {"call", "handled"},
           call' = NoCall, reports' = << >>, trade_msg' = NoTrade
    PROVE  ToldSound' /\ ReportsTrue'
  BY DEF ToldSound, FeedTrue, ReportsTrue

\* Nothing is told, and nothing is on its way, outside a handler.
LEMMA Idle ==
    ASSUME IInv, pc \notin {"call", "handled"}
    PROVE  call = NoCall /\ reports = << >> /\ trade_msg = NoTrade
  BY DEF IInv, ToldSound

\* poll() and accept: the new connection has an owner of its own.
LEMMA Step_Poll == IInv /\ Poll /\ UNCHANGED stp_ => IInv'
<1> SUFFICES ASSUME IInv, Poll, UNCHANGED stp_ PROVE IInv'
  OBVIOUS
<1>1. /\ pc = "poll" /\ pc' = "serve" /\ at' = 1 /\ polled' = Len(conns)
      /\ UNCHANGED books /\ UNCHANGED <<taker_side_, call, reports, trade_msg>>
  BY DEF Poll, books, ids
<1>2. Typed /\ OwnersDistinct /\ OwnersOpen /\ conns \in Seq(Conn) /\ Len(conns) \in Nat
  BY DEF IInv, Typed
<1>3. MirrorExact' /\ KeysSound' /\ CallSound' /\ snapshot' = book'
  <2>1. pc # "call" /\ pc' # "call"
    BY <1>1
  <2> QED
    BY <1>1, <2>1, SameBook
<1>6. ToldSound' /\ ReportsTrue'
  <2>1. pc' \notin {"call", "handled"} /\ pc \notin {"call", "handled"}
    BY <1>1
  <2>2. call' = NoCall /\ reports' = << >> /\ trade_msg' = NoTrade
    BY <1>1, <2>1, Idle
  <2> QED
    BY <1>3, <2>1, <2>2, NothingTold
<1>4. CASE UNCHANGED <<conns, next_owner>>
  <2>1. Typed'
    BY <1>1, <1>2, <1>4 DEF Typed, books, ids
  <2>2. OwnersDistinct' /\ IndexSound' /\ OwnersOpen'
    BY <1>1, <1>2, <1>4 DEF OwnersDistinct, IndexSound, OwnersOpen, books, ids
  <2> QED
    BY <1>3, <1>6, <2>1, <2>2 DEF IInv
<1>5. ASSUME NEW d, d = [owner |-> next_owner, dead |-> FALSE, outbox |-> 0],
             conns' = Append(conns, d), next_owner' = next_owner + 1
      PROVE  IInv'
  <2>1. d \in Conn /\ d.owner = next_owner
    BY <1>2, <1>5, BoundAssumption DEF Conn, Typed
  <2>2. /\ conns' \in Seq(Conn) /\ Len(conns') = Len(conns) + 1
        /\ \A x \in 1 .. Len(conns) : conns'[x] = conns[x]
        /\ conns'[Len(conns) + 1] = d
    BY <1>2, <1>5, <2>1, AppendProperties
  <2>3. DOMAIN conns' = 1 .. (Len(conns) + 1) /\ DOMAIN conns = 1 .. Len(conns)
    BY <1>2, <2>2
  <2>4. Typed'
    BY <1>1, <1>2, <1>5, <2>2 DEF Typed, books, ids
  <2>5. OwnersDistinct'
    <3>1. next_owner \in Nat /\ \A x \in 1 .. Len(conns) : conns[x].owner \in Nat
      <4>1. \A x \in 1 .. Len(conns) : conns[x] \in Conn
        BY <1>2
      <4> QED
        BY <1>2, <4>1 DEF Typed, Conn
    <3>2. \A x \in 1 .. Len(conns) : conns'[x].owner < next_owner
      BY <1>2, <2>2, <2>3 DEF OwnersDistinct
    <3>3. \A x \in 1 .. (Len(conns) + 1) : conns'[x].owner < next_owner'
      BY <1>2, <1>5, <2>1, <2>2, <3>1, <3>2
    <3>4. ASSUME NEW x \in 1 .. (Len(conns) + 1), NEW y \in 1 .. (Len(conns) + 1),
                 conns'[x].owner = conns'[y].owner
          PROVE  x = y
      <4>1. CASE x = Len(conns) + 1 \/ y = Len(conns) + 1
        BY <1>2, <2>1, <2>2, <3>1, <3>2, <3>4, <4>1
      <4>2. CASE x \in 1 .. Len(conns) /\ y \in 1 .. Len(conns)
        BY <1>2, <2>2, <2>3, <3>4, <4>2 DEF OwnersDistinct
      <4> QED
        BY <1>2, <4>1, <4>2
    <3> QED
      BY <2>3, <3>3, <3>4 DEF OwnersDistinct
  <2>6. IndexSound'
    BY <1>1, <1>2, <2>2 DEF IndexSound
  <2>7. OwnersOpen'
    BY <1>1, <1>2, <2>2, <2>3 DEF OwnersOpen, books, ids
  <2> QED
    BY <1>3, <1>6, <2>4, <2>5, <2>6, <2>7 DEF IInv
<1> QED
  BY <1>4, <1>5 DEF Poll

\* The other steps of the loop that tell nothing: what is left to show is
\* about the connections and the loop's index.
LEMMA LoopStep ==
    ASSUME IInv, UNCHANGED <<stp_, taker_side_>>, UNCHANGED books,
           pc # "call", pc' \in {"poll", "serve", "flush", "reap"},
           call' = NoCall, reports' = << >>, trade_msg' = NoTrade,
           conns' \in Seq(Conn), next_owner' \in Nat, at' \in Nat, polled' \in Nat,
           OwnersDistinct', IndexSound', OwnersOpen'
    PROVE  IInv'
<1>1. pc' # "call" /\ pc' \notin {"call", "handled"}
  OBVIOUS
<1>2. MirrorExact' /\ KeysSound' /\ CallSound' /\ snapshot' = book'
  BY <1>1, SameBook
<1>3. ToldSound' /\ ReportsTrue'
  BY <1>1, <1>2, NothingTold
<1>4. NoCall \in CallType /\ << >> \in Seq(ReportType)
  BY DEF NoCall, CallType, Side
<1>5. Typed'
  BY <1>4 DEF IInv, Typed, books, ids
<1> QED
  BY <1>2, <1>3, <1>5 DEF IInv

LEMMA SameConns ==
    ASSUME IInv, UNCHANGED <<conns, next_owner, live_>>
    PROVE  OwnersDistinct' /\ OwnersOpen' /\ conns' \in Seq(Conn) /\ next_owner' \in Nat
  BY DEF IInv, Typed, OwnersDistinct, OwnersOpen

\* The connection that is served is dropped.
LEMMA Step_Drop == IInv /\ Drop /\ UNCHANGED stp_ => IInv'
<1> SUFFICES ASSUME IInv, Drop, UNCHANGED stp_ PROVE IInv'
  OBVIOUS
<1> DEFINE v == [c EXCEPT !.dead = TRUE]
<1>1. /\ pc = "serve" /\ pc' = "flush" /\ serving /\ UNCHANGED books
      /\ UNCHANGED <<taker_side_, next_owner, at, polled, call, reports, trade_msg>>
      /\ conns' = [conns EXCEPT ![at].dead = TRUE]
  BY DEF Drop, serving, books, ids, loop
<1>2. Typed /\ OwnersDistinct /\ OwnersOpen /\ IndexSound
  BY DEF IInv
<1>3. at \in DOMAIN conns /\ c \in Conn /\ c = conns[at]
  BY <1>1, <1>2, ServedConn
<1>4. v \in Conn /\ v.owner = conns[at].owner /\ conns' = [conns EXCEPT ![at] = v]
  BY <1>1, <1>3 DEF Conn
<1>5. call' = NoCall /\ reports' = << >> /\ trade_msg' = NoTrade
  BY <1>1, Idle
<1> HIDE DEF v
<1>6. /\ conns' \in Seq(Conn) /\ Len(conns') = Len(conns) /\ OwnersDistinct'
      /\ UNCHANGED live_ => OwnersOpen'
  BY <1>1, <1>2, <1>3, <1>4, ConnUpdate
<1>7. IndexSound'
  BY <1>1, <1>2, <1>6 DEF IndexSound, serving
<1>8. at' \in Nat /\ polled' \in Nat /\ next_owner' \in Nat /\ UNCHANGED live_
  BY <1>1, <1>2 DEF Typed, books, ids
<1> QED
  BY <1>1, <1>5, <1>6, <1>7, <1>8, LoopStep

LEMMA Step_Drained == IInv /\ Drained /\ UNCHANGED stp_ => IInv'
<1> SUFFICES ASSUME IInv, Drained, UNCHANGED stp_ PROVE IInv'
  OBVIOUS
<1>1. /\ pc = "serve" /\ pc' = "flush" /\ serving /\ UNCHANGED books /\ UNCHANGED live_
      /\ UNCHANGED <<taker_side_, conns, next_owner, at, polled, call, reports, trade_msg>>
  BY DEF Drained, serving, books, ids, loop
<1>2. OwnersDistinct' /\ OwnersOpen' /\ conns' \in Seq(Conn) /\ next_owner' \in Nat
  BY <1>1, SameConns
<1>3. call' = NoCall /\ reports' = << >> /\ trade_msg' = NoTrade
  BY <1>1, Idle
<1>4. at' \in Nat /\ polled' \in Nat /\ Len(conns) \in Nat
  BY <1>1 DEF IInv, Typed
<1>5. IndexSound'
  BY <1>1, <1>4 DEF IInv, Typed, IndexSound, serving
<1> QED
  BY <1>1, <1>2, <1>3, <1>4, <1>5, LoopStep

LEMMA Step_NextFrame == IInv /\ NextFrame /\ UNCHANGED stp_ => IInv'
<1> SUFFICES ASSUME IInv, NextFrame, UNCHANGED stp_ PROVE IInv'
  OBVIOUS
<1>1. /\ pc = "handled" /\ pc' \in {"serve", "flush"} /\ UNCHANGED books /\ UNCHANGED live_
      /\ UNCHANGED <<taker_side_, conns, next_owner, at, polled>>
      /\ call' = NoCall /\ reports' = << >> /\ trade_msg' = NoTrade
  BY DEF NextFrame, books, ids, loop
<1>2. OwnersDistinct' /\ OwnersOpen' /\ conns' \in Seq(Conn) /\ next_owner' \in Nat
  BY <1>1, SameConns
<1>3. at' \in Nat /\ polled' \in Nat /\ Len(conns) \in Nat
  BY <1>1 DEF IInv, Typed
<1>4. IndexSound'
  BY <1>1, <1>3 DEF IInv, Typed, IndexSound
<1> QED
  BY <1>1, <1>2, <1>3, <1>4, LoopStep

\* A flush leaves the outbox no longer than it was, and the owner alone.
LEMMA FlushFacts ==
    ASSUME NEW conn \in Conn, NEW d \in IF conn.dead THEN {conn} ELSE flush_outbox(conn)
    PROVE  d \in Conn /\ d.owner = conn.owner /\ d.outbox <= conn.outbox
<1>1. conn.owner \in Nat /\ conn.dead \in BOOLEAN /\ conn.outbox \in 0 .. kMaxOutbox /\ kMaxOutbox \in Nat
  BY BoundAssumption DEF Conn
<1>2. conn = [owner |-> conn.owner, dead |-> conn.dead, outbox |-> conn.outbox]
  BY DEF Conn
<1>3. CASE d = conn
  BY <1>1, <1>3
<1>4. ASSUME NEW n \in 0 .. conn.outbox,
             d = [conn EXCEPT !.outbox = n] \/ d = [conn EXCEPT !.outbox = n, !.dead = TRUE]
      PROVE  d \in Conn /\ d.owner = conn.owner /\ d.outbox <= conn.outbox
  <2>1. PICK b \in BOOLEAN : d = [owner |-> conn.owner, dead |-> b, outbox |-> n]
    BY <1>1, <1>2, <1>4
  <2> QED
    BY <1>1, <2>1 DEF Conn
<1>5. CASE conn.dead
  BY <1>3, <1>5
<1>6. CASE ~conn.dead
  <2>1. d \in flush_outbox(conn)
    BY <1>6
  <2>2. \E n \in 0 .. conn.outbox :
           d = [conn EXCEPT !.outbox = n] \/ d = [conn EXCEPT !.outbox = n, !.dead = TRUE]
    <3>1. CASE d \in {[conn EXCEPT !.outbox = n] : n \in 0 .. conn.outbox}
      BY <3>1, Zenon
    <3>2. CASE d \in {[conn EXCEPT !.outbox = n, !.dead = TRUE] : n \in 1 .. conn.outbox}
      <4>1. PICK n \in 1 .. conn.outbox : d = [conn EXCEPT !.outbox = n, !.dead = TRUE]
        BY <3>2, Zenon
      <4>2. n \in 0 .. conn.outbox
        BY <1>1
      <4> QED
        BY <4>1, <4>2, Zenon
    <3> QED
      BY <2>1, <3>1, <3>2, Zenon DEF flush_outbox
  <2> QED
    BY <1>4, <2>2
<1> QED
  BY <1>5, <1>6

LEMMA Step_Flush == IInv /\ Flush /\ UNCHANGED stp_ => IInv'
<1> SUFFICES ASSUME IInv, Flush, UNCHANGED stp_ PROVE IInv'
  OBVIOUS
<1>1. /\ pc = "flush" /\ pc' = "serve" /\ at' = at + 1 /\ UNCHANGED books /\ UNCHANGED live_
      /\ UNCHANGED <<taker_side_, next_owner, polled, call, reports, trade_msg>>
  BY DEF Flush, books, ids
<1>2. Typed /\ OwnersDistinct /\ OwnersOpen /\ IndexSound
  BY DEF IInv
<1>3. at \in DOMAIN conns /\ c \in Conn /\ c = conns[at]
  BY <1>1, <1>2, ServedConn
<1>4. PICK d \in IF c.dead THEN {c} ELSE flush_outbox(c) : conns' = [conns EXCEPT ![at] = d]
  BY DEF Flush
<1>5. d \in Conn /\ d.owner = conns[at].owner
  BY <1>3, <1>4, FlushFacts
<1>6. call' = NoCall /\ reports' = << >> /\ trade_msg' = NoTrade
  BY <1>1, Idle
<1>7. /\ conns' \in Seq(Conn) /\ Len(conns') = Len(conns) /\ OwnersDistinct'
      /\ UNCHANGED live_ => OwnersOpen'
  BY <1>1, <1>2, <1>3, <1>4, <1>5, ConnUpdate
<1>8. at' \in Nat /\ polled' \in Nat /\ next_owner' \in Nat /\ at \in Nat /\ polled \in Nat
  BY <1>1, <1>2 DEF Typed
<1>9. IndexSound'
  BY <1>1, <1>2, <1>7, <1>8 DEF IndexSound
<1> QED
  BY <1>1, <1>6, <1>7, <1>8, <1>9, LoopStep

LEMMA Step_Served == IInv /\ Served /\ UNCHANGED stp_ => IInv'
<1> SUFFICES ASSUME IInv, Served, UNCHANGED stp_ PROVE IInv'
  OBVIOUS
<1>1. /\ pc = "serve" /\ pc' = "reap" /\ at' = Len(conns) /\ UNCHANGED books /\ UNCHANGED live_
      /\ UNCHANGED <<taker_side_, conns, next_owner, polled, call, reports, trade_msg>>
  BY DEF Served, books, ids
<1>2. OwnersDistinct' /\ OwnersOpen' /\ conns' \in Seq(Conn) /\ next_owner' \in Nat
  BY <1>1, SameConns
<1>3. call' = NoCall /\ reports' = << >> /\ trade_msg' = NoTrade
  BY <1>1, Idle
<1>4. at' \in Nat /\ polled' \in Nat /\ conns \in Seq(Conn) /\ Len(conns) \in Nat
  BY <1>1 DEF IInv, Typed
<1>5. IndexSound'
  BY <1>1, <1>4 DEF IndexSound
<1> QED
  BY <1>1, <1>2, <1>3, <1>4, <1>5, LoopStep

LEMMA Step_Reaped == IInv /\ Reaped /\ UNCHANGED stp_ => IInv'
<1> SUFFICES ASSUME IInv, Reaped, UNCHANGED stp_ PROVE IInv'
  OBVIOUS
<1>1. /\ pc = "reap" /\ pc' = "poll" /\ at = 0 /\ at' = 1 /\ polled' = 0
      /\ UNCHANGED books /\ UNCHANGED live_
      /\ UNCHANGED <<taker_side_, conns, next_owner, call, reports, trade_msg>>
  BY DEF Reaped, books, ids
<1>2. OwnersDistinct' /\ OwnersOpen' /\ conns' \in Seq(Conn) /\ next_owner' \in Nat
  BY <1>1, SameConns
<1>3. call' = NoCall /\ reports' = << >> /\ trade_msg' = NoTrade
  BY <1>1, Idle
<1>4. at' \in Nat /\ polled' \in Nat /\ conns \in Seq(Conn) /\ Len(conns) \in Nat
  BY <1>1 DEF IInv, Typed
<1>5. IndexSound'
  BY <1>1, <1>4 DEF IInv, IndexSound
<1> QED
  BY <1>1, <1>2, <1>3, <1>4, <1>5, LoopStep

\* owned_by returns the ids on record under the owner.
LEMMA OwnedBy ==
    ASSUME Views, NEW o
    PROVE  owned_by(o) = {x \in DOMAIN live_ : live_[x].owner = o}
<1>1. ASSUME NEW x \in owned_by(o) PROVE x \in DOMAIN live_ /\ live_[x].owner = o
  BY DEF owned_by, Views, KeysSound
<1>2. ASSUME NEW x \in DOMAIN live_, live_[x].owner = o PROVE x \in owned_by(o)
  BY <1>2 DEF owned_by, Views, Found
<1> QED
  BY <1>1, <1>2

\* Closing a dead connection: its orders are gone before its owner is.
LEMMA ReapDead == ASSUME IInv, Reap, UNCHANGED stp_, c.dead PROVE IInv'
<1> DEFINE S == owned_by(c.owner)
<1>1. /\ pc = "reap" /\ pc' = "reap" /\ at > 0 /\ at' = at - 1
      /\ book' = drop(book, S) /\ forget(S) /\ disconnect_published
      /\ conns' = RemoveAt(conns, at)
      /\ UNCHANGED <<last_, taker_side_, next_owner, polled, call, reports, trade_msg>>
  BY DEF Reap
<1>2. Typed /\ OwnersDistinct /\ OwnersOpen /\ IndexSound /\ KeysSound /\ MirrorExact
  BY DEF IInv
<1>3. Views /\ Mirrors({})
  BY <1>1, <1>2, MirrorParts DEF Views, moving
<1>4. S = {x \in DOMAIN live_ : live_[x].owner = c.owner}
  BY <1>3, OwnedBy
<1>5. at \in 1 .. Len(conns) /\ Len(conns) \in Nat /\ conns \in Seq(Conn) /\ at \in Nat
  BY <1>1, <1>2 DEF IndexSound, Typed
<1>6. c = conns[at] /\ DOMAIN conns = 1 .. Len(conns)
  BY <1>5 DEF c
<1>7. /\ conns' \in Seq(Conn) /\ Len(conns') = Len(conns) - 1
      /\ \A x \in 1 .. (Len(conns) - 1) : conns'[x] = IF x < at THEN conns[x] ELSE conns[x + 1]
  BY <1>1, <1>5, RemoveAtFacts
<1>8. DOMAIN conns' = 1 .. (Len(conns) - 1)
  BY <1>7
<1>9. call' = NoCall /\ reports' = << >> /\ trade_msg' = NoTrade
  BY <1>1, Idle
<1> HIDE DEF S
<1>10. /\ Views' /\ Mirrors({})'
       /\ book' \in [DOMAIN book' -> Order] /\ DOMAIN book' \subseteq 1 .. last_'
       /\ live_' \in [DOMAIN live_' -> LiveOrder] /\ DOMAIN live_' = DOMAIN live_ \ S
       /\ DOMAIN live_' \subseteq 1 .. last_'
       /\ \A x \in DOMAIN live_ \ S : live_'[x] = live_[x]
  BY <1>1, <1>2, <1>3, DropOrders
<1>11. Typed'
  <2>1. NoCall \in CallType /\ << >> \in Seq(ReportType)
    BY DEF NoCall, CallType, Side
  <2> QED
    BY <1>1, <1>2, <1>5, <1>7, <1>9, <1>10, <2>1 DEF Typed
<1>12. MirrorExact' /\ KeysSound' /\ CallSound'
  <2>1. moving' = {} /\ pc' # "call"
    BY <1>1 DEF moving
  <2>2. MirrorExact'
    BY <1>10, <1>11, <2>1, MirrorNext
  <2> QED
    BY <1>10, <2>1, <2>2 DEF Views, CallSound
<1>13. OwnersDistinct'
  <2>1. \A x, y \in DOMAIN conns : conns[x].owner = conns[y].owner => x = y
    BY <1>2 DEF OwnersDistinct
  <2>2. \A x \in DOMAIN conns : conns[x].owner < next_owner
    BY <1>2 DEF OwnersDistinct
  <2>3. \A x \in 1 .. (Len(conns) - 1) : x \in DOMAIN conns /\ x + 1 \in DOMAIN conns
    BY <1>5, <1>6
  <2>4. \A x \in DOMAIN conns' : conns'[x].owner < next_owner'
    BY <1>1, <1>7, <1>8, <2>2, <2>3
  <2>5. ASSUME NEW x \in 1 .. (Len(conns) - 1), NEW y \in 1 .. (Len(conns) - 1),
               conns'[x].owner = conns'[y].owner
        PROVE  x = y
    <3>1. CASE x < at /\ y < at
      BY <1>7, <2>1, <2>3, <2>5, <3>1
    <3>2. CASE x < at /\ ~(y < at)
      <4>1. conns[x].owner = conns[y + 1].owner
        BY <1>7, <2>5, <3>2
      <4>2. x = y + 1
        BY <2>1, <2>3, <4>1
      <4> QED
        BY <1>5, <3>2, <4>2
    <3>3. CASE ~(x < at) /\ y < at
      <4>1. conns[x + 1].owner = conns[y].owner
        BY <1>7, <2>5, <3>3
      <4>2. x + 1 = y
        BY <2>1, <2>3, <4>1
      <4> QED
        BY <1>5, <3>3, <4>2
    <3>4. CASE ~(x < at) /\ ~(y < at)
      <4>1. conns[x + 1].owner = conns[y + 1].owner
        BY <1>7, <2>5, <3>4
      <4>2. x + 1 = y + 1
        BY <2>1, <2>3, <4>1
      <4> QED
        BY <1>5, <4>2
    <3> QED
      BY <3>1, <3>2, <3>3, <3>4
  <2> QED
    BY <1>8, <2>4, <2>5 DEF OwnersDistinct
<1>14. IndexSound'
  <2>1. at' <= Len(conns')
    BY <1>1, <1>5, <1>7
  <2>2. ASSUME NEW y \in DOMAIN conns', y > at' PROVE ~conns'[y].dead
    <3>1. y \in 1 .. (Len(conns) - 1) /\ ~(y < at) /\ y + 1 \in DOMAIN conns /\ y + 1 > at
      BY <1>1, <1>5, <1>6, <1>8, <2>2
    <3> QED
      BY <1>1, <1>2, <1>7, <3>1 DEF IndexSound
  <2> QED
    BY <1>1, <2>1, <2>2 DEF IndexSound
<1>15. OwnersOpen'
  <2> SUFFICES ASSUME NEW x \in DOMAIN live_' PROVE \E z \in DOMAIN conns' : conns'[z].owner = live_'[x].owner
    BY DEF OwnersOpen
  <2>1. x \in DOMAIN live_ /\ live_'[x] = live_[x] /\ live_[x].owner # c.owner
    BY <1>4, <1>10
  <2>2. PICK y \in DOMAIN conns : conns[y].owner = live_[x].owner
    BY <1>2, <2>1 DEF OwnersOpen
  <2>3. y # at
    BY <1>6, <2>1, <2>2
  <2>4. CASE y < at
    BY <1>5, <1>6, <1>7, <1>8, <2>1, <2>2, <2>4
  <2>5. CASE y > at
    <3>1. y - 1 \in 1 .. (Len(conns) - 1) /\ ~(y - 1 < at) /\ (y - 1) + 1 = y
      BY <1>5, <1>6, <2>5
    <3> QED
      BY <1>7, <1>8, <2>1, <2>2, <3>1
  <2> QED
    BY <1>5, <1>6, <2>3, <2>4, <2>5
<1>16. snapshot' = book'
  <2>1. CASE S = {}
    <3>1. book' = book
      BY <1>1, <1>2, <2>1 DEF drop, Typed
    <3>2. snapshot' = snapshot
      BY <1>1, <2>1 DEF disconnect_published, S
    <3>3. snapshot = book
      BY <1>1 DEF IInv, ToldSound, FeedTrue
    <3> QED
      BY <3>1, <3>2, <3>3
  <2>2. CASE S # {}
    BY <1>1, <2>2 DEF disconnect_published, publish_book, S
  <2> QED
    BY <2>1, <2>2
<1>17. ToldSound' /\ ReportsTrue'
  <2>1. pc' \notin {"call", "handled"}
    BY <1>1
  <2> QED
    BY <1>9, <1>16, <2>1, NothingTold
<1> QED
  BY <1>11, <1>12, <1>13, <1>14, <1>15, <1>17 DEF IInv

LEMMA Step_Reap == IInv /\ Reap /\ UNCHANGED stp_ => IInv'
<1> SUFFICES ASSUME IInv, Reap, UNCHANGED stp_ PROVE IInv'
  OBVIOUS
<1>1. CASE ~c.dead
  <2>1. /\ pc = "reap" /\ pc' = "reap" /\ at > 0 /\ at' = at - 1 /\ UNCHANGED books /\ UNCHANGED live_
        /\ UNCHANGED <<taker_side_, conns, next_owner, polled, call, reports, trade_msg>>
    BY <1>1 DEF Reap, books, ids
  <2>2. OwnersDistinct' /\ OwnersOpen' /\ conns' \in Seq(Conn) /\ next_owner' \in Nat
    BY <2>1, SameConns
  <2>3. call' = NoCall /\ reports' = << >> /\ trade_msg' = NoTrade
    BY <2>1, Idle
  <2>4. at \in Nat /\ at' \in Nat /\ polled' \in Nat /\ conns \in Seq(Conn) /\ Len(conns) \in Nat
    BY <2>1 DEF IInv, Typed
  <2>5. IndexSound'
    <3>1. at' <= Len(conns)
      BY <2>1, <2>4 DEF IInv, IndexSound
    <3>2. ASSUME NEW y \in DOMAIN conns, y > at' PROVE ~conns[y].dead
      <4>1. y = at \/ y > at
        BY <2>1, <2>4, <3>2
      <4> QED
        BY <1>1, <2>1, <4>1 DEF c, IInv, IndexSound
    <3> QED
      BY <2>1, <3>1, <3>2 DEF IndexSound
  <2> QED
    BY <2>1, <2>2, <2>3, <2>4, <2>5, LoopStep
<1> QED
  BY <1>1, ReapDead

-----------------------------------------------------------------------------
(* The answer to a frame *)

\* What the status of an answer says of the book the handler leaves behind.
Rests(cl) ==
    /\ <<c.owner, cl.client>> \in DOMAIN by_client_' /\ by_client_'[<<c.owner, cl.client>>] = cl.id
    /\ cl.id \in DOMAIN book'
AnswerTrue(cl, filled, status) ==
    /\ status \in {"Accepted", "PartialRest", "Replaced"} =>
          Rests(cl) /\ book'[cl.id].qty = cl.want - filled
    /\ status \in {"Filled", "PartialDone", "Canceled", "Unknown"} => cl.id \notin DOMAIN book'
    /\ status = "Rejected" => filled = 0 /\ cl.killed = {} /\ (cl.kind = "modify" => Rests(cl))
    /\ status = "Filled" => filled = cl.want
    /\ status = "PartialDone" => 0 < filled /\ filled < cl.want

\* What has been told before the answer: the kills of the call.
Told(cl) ==
    /\ \A r \in DOMAIN reports : reports[r].status = "Canceled"
    /\ ~c.dead => {reports[r].client : r \in DOMAIN reports} = cl.killed
    /\ trade_msg # NoTrade => trade_msg.side = cl.side

\* The answer leaves the connection's owner alone and is the last report.
LEMMA AnswerSent ==
    ASSUME Typed, OwnersDistinct, OwnersOpen, IndexSound, serving \/ pc = "call",
           NEW cl \in CallType, NEW filled \in Nat, NEW status \in Status,
           send_exec(cl, filled, status), UNCHANGED loop
    PROVE  /\ pc' = "handled" /\ OwnersDistinct' /\ IndexSound'
           /\ conns' \in Seq(Conn) /\ reports' \in Seq(ReportType) /\ call' \in CallType
           /\ \A x \in DOMAIN conns : conns'[x].owner = conns[x].owner
           /\ DOMAIN conns' = DOMAIN conns /\ at \in DOMAIN conns
           /\ c'.owner = c.owner /\ (c.dead => c'.dead)
           /\ Len(reports') = Len(reports) + 1 /\ Len(reports) \in Nat
           /\ DOMAIN reports = 1 .. Len(reports)
           /\ \A r \in 1 .. Len(reports) : reports'[r] = reports[r]
           /\ answer'.client = cl.client /\ answer'.filled = filled /\ answer'.status = status
           /\ call'.client = cl.client /\ call'.id = cl.id /\ call'.want = cl.want
           /\ call'.filled = filled /\ call'.killed = cl.killed /\ call'.kind = cl.kind
           /\ call'.side = cl.side
<1> DEFINE v == queue_send(conns[at])
           rep == Report(cl.client, filled, status)
<1>1. /\ conns' = [conns EXCEPT ![at] = v] /\ reports' = Append(reports, rep)
      /\ call' = [cl EXCEPT !.filled = filled] /\ pc' = "handled"
      /\ next_owner' = next_owner /\ at' = at /\ polled' = polled
  BY DEF send_exec, loop
<1>2. at \in DOMAIN conns /\ c \in Conn /\ c = conns[at]
  BY ServedConn
<1>3. v \in Conn /\ v.owner = conns[at].owner /\ (conns[at].dead => v.dead)
  BY <1>2, QueueSendFacts
<1> HIDE DEF v
<1>4. /\ conns' \in Seq(Conn) /\ Len(conns') = Len(conns) /\ DOMAIN conns' = DOMAIN conns
      /\ conns'[at] = v /\ \A x \in DOMAIN conns : conns'[x].owner = conns[x].owner
      /\ OwnersDistinct'
  BY <1>1, <1>2, <1>3, ConnUpdate
<1>5. c'.owner = c.owner /\ (c.dead => c'.dead)
  BY <1>1, <1>2, <1>3, <1>4 DEF c
<1>6. IndexSound'
  BY <1>1, <1>4 DEF IndexSound, Typed, serving
<1>7. /\ cl.client \in ClientId \cup {0} /\ call' \in CallType
      /\ call'.client = cl.client /\ call'.id = cl.id /\ call'.want = cl.want
      /\ call'.filled = filled /\ call'.killed = cl.killed /\ call'.kind = cl.kind
      /\ call'.side = cl.side
  BY <1>1 DEF CallType
<1>8. rep \in ReportType /\ rep.client = cl.client /\ rep.filled = filled /\ rep.status = status
  BY <1>7 DEF ReportType, Report
<1>9. reports \in Seq(ReportType) /\ Len(reports) \in Nat /\ DOMAIN reports = 1 .. Len(reports)
  BY DEF Typed
<1> HIDE DEF rep
<1>10. /\ reports' \in Seq(ReportType) /\ Len(reports') = Len(reports) + 1
       /\ \A r \in 1 .. Len(reports) : reports'[r] = reports[r]
       /\ reports'[Len(reports) + 1] = rep
  BY <1>1, <1>8, <1>9, AppendProperties
<1>11. answer' = rep
  BY <1>10 DEF answer
<1> QED
  BY <1>1, <1>2, <1>4, <1>5, <1>6, <1>7, <1>8, <1>9, <1>10, <1>11

\* A handler that ends with a true answer and a Book message keeps the
\* invariant, if it left the records and the book in step.
LEMMA Answered ==
    ASSUME IInv, UNCHANGED <<stp_, last_, trade_msg>>, UNCHANGED loop, serving \/ pc = "call",
           NEW cl \in CallType, NEW filled \in Nat, NEW status \in Status,
           send_exec(cl, filled, status), publish_book,
           Told(cl), AnswerTrue(cl, filled, status),
           taker_side_' \in Side, Views', Mirrors({})',
           book' \in [DOMAIN book' -> Order], DOMAIN book' \subseteq 1 .. last_',
           live_' \in [DOMAIN live_' -> LiveOrder], DOMAIN live_' \subseteq 1 .. last_',
           \A x \in DOMAIN live_' :
               \/ live_'[x].owner = c.owner
               \/ x \in DOMAIN live_ /\ live_'[x].owner = live_[x].owner
    PROVE  IInv'
<1>1. Typed /\ OwnersDistinct /\ OwnersOpen /\ IndexSound
  BY DEF IInv
<1>2. /\ pc' = "handled" /\ OwnersDistinct' /\ IndexSound'
      /\ conns' \in Seq(Conn) /\ reports' \in Seq(ReportType) /\ call' \in CallType
      /\ \A x \in DOMAIN conns : conns'[x].owner = conns[x].owner
      /\ DOMAIN conns' = DOMAIN conns /\ at \in DOMAIN conns
      /\ c'.owner = c.owner /\ (c.dead => c'.dead)
      /\ Len(reports') = Len(reports) + 1 /\ Len(reports) \in Nat
      /\ DOMAIN reports = 1 .. Len(reports)
      /\ \A r \in 1 .. Len(reports) : reports'[r] = reports[r]
      /\ answer'.client = cl.client /\ answer'.filled = filled /\ answer'.status = status
      /\ call'.client = cl.client /\ call'.id = cl.id /\ call'.want = cl.want
      /\ call'.filled = filled /\ call'.killed = cl.killed /\ call'.kind = cl.kind
      /\ call'.side = cl.side
  BY <1>1, AnswerSent
<1>3. Typed'
  BY <1>1, <1>2 DEF Typed, loop
<1>4. MirrorExact' /\ KeysSound' /\ CallSound'
  <2>1. moving' = {} /\ pc' # "call"
    BY <1>2 DEF moving
  <2>2. MirrorExact'
    BY <1>3, <2>1, MirrorNext
  <2> QED
    BY <2>1, <2>2 DEF Views, CallSound
<1>5. OwnersOpen'
  <2> SUFFICES ASSUME NEW x \in DOMAIN live_'
               PROVE  \E y \in DOMAIN conns' : conns'[y].owner = live_'[x].owner
    BY DEF OwnersOpen
  <2>1. CASE live_'[x].owner = c.owner
    BY <1>2, <2>1 DEF c
  <2>2. CASE x \in DOMAIN live_ /\ live_'[x].owner = live_[x].owner
    BY <1>1, <1>2, <2>2 DEF OwnersOpen
  <2> QED
    BY <2>1, <2>2
<1>6. ToldSound'
  BY <1>2 DEF ToldSound, FeedTrue, Told, publish_book
<1>7. Len(reports') - 1 = Len(reports)
  BY <1>2
<1>8. /\ ~c'.dead => {reports'[r].client : r \in 1 .. (Len(reports') - 1)} = call'.killed
      /\ \A r \in 1 .. (Len(reports') - 1) : reports'[r].status = "Canceled"
  <2>1. {reports'[r].client : r \in 1 .. Len(reports)} = {reports[r].client : r \in 1 .. Len(reports)}
    BY <1>2
  <2> QED
    BY <1>2, <1>7, <2>1 DEF Told
<1>9. Rests(cl) => own_live'
  <2> SUFFICES ASSUME Rests(cl) PROVE own_live'
    OBVIOUS
  <2>1. cl.id # 0
    BY <1>3 DEF Rests, Typed
  <2>2. find(c.owner, call.client)' = cl.id
    BY <1>2 DEF Rests, find
  <2> QED
    BY <1>2, <2>1, <2>2 DEF own_live, Rests
<1>10. ReportsTrue'
  BY <1>2, <1>8, <1>9 DEF ReportsTrue, AnswerTrue
<1> QED
  BY <1>2, <1>3, <1>4, <1>5, <1>6, <1>10 DEF IInv

-----------------------------------------------------------------------------
(* The frames, up to the engine call *)

\* The state a frame finds: nothing told, the records exact.
LEMMA ServeFacts ==
    ASSUME IInv, serving
    PROVE  /\ Typed /\ Views /\ Mirrors({}) /\ OwnersDistinct /\ OwnersOpen /\ IndexSound
           /\ pc = "serve" /\ call = NoCall /\ reports = << >> /\ trade_msg = NoTrade /\ snapshot = book
           /\ at \in DOMAIN conns /\ c \in Conn /\ c = conns[at]
           /\ DOMAIN live_ = DOMAIN book
<1>1. pc = "serve" /\ Typed /\ KeysSound /\ MirrorExact /\ IndexSound /\ OwnersDistinct /\ OwnersOpen
  BY DEF IInv, serving
<1>2. call = NoCall /\ reports = << >> /\ trade_msg = NoTrade
  BY <1>1, Idle
<1>3. snapshot = book
  BY <1>1 DEF IInv, ToldSound, FeedTrue
<1>4. Mirrors({}) /\ Views
  BY <1>1, MirrorParts DEF Views, moving
<1>5. at \in DOMAIN conns /\ c \in Conn /\ c = conns[at]
  BY <1>1, ServedConn
<1>6. DOMAIN live_ = DOMAIN book
  BY <1>4 DEF Mirrors
<1> QED
  BY <1>1, <1>2, <1>3, <1>4, <1>5, <1>6

\* find returns 0, or the id of an order on record under that owner and client id.
LEMMA FindFacts ==
    ASSUME Typed, Views, NEW o, NEW k
    PROVE  /\ find(o, k) \in Nat
           /\ find(o, k) = 0 <=> <<o, k>> \notin DOMAIN by_client_
           /\ find(o, k) # 0 =>
                 /\ find(o, k) \in DOMAIN live_ /\ by_client_[<<o, k>>] = find(o, k)
                 /\ live_[find(o, k)].owner = o /\ live_[find(o, k)].client = k
<1>1. DOMAIN live_ \subseteq Nat /\ 0 \notin DOMAIN live_
  BY DEF Typed
<1>2. CASE <<o, k>> \notin DOMAIN by_client_
  BY <1>2 DEF find
<1>3. CASE <<o, k>> \in DOMAIN by_client_
  <2>1. find(o, k) = by_client_[<<o, k>>] /\ by_client_[<<o, k>>] \in DOMAIN live_
    BY <1>3 DEF find, Views, KeysSound
  <2>2. <<o, k>> = <<live_[by_client_[<<o, k>>]].owner, live_[by_client_[<<o, k>>]].client>>
    BY <1>3 DEF Views, KeysSound
  <2> QED
    BY <1>1, <1>3, <2>1, <2>2
<1> QED
  BY <1>2, <1>3

\* The record of a cancel or a modify is typed.
LEMMA NoCallWith ==
    ASSUME NEW client \in ClientId \cup {0}, NEW id \in Nat, NEW want \in Nat
    PROVE  /\ [NoCall EXCEPT !.kind = "cancel", !.client = client, !.id = id] \in CallType
           /\ [NoCall EXCEPT !.kind = "modify", !.client = client, !.id = id, !.want = want] \in CallType
<1>1. NoCall \in CallType
  BY DEF NoCall, CallType, Side
<1> QED
  BY <1>1 DEF CallType

LEMMA NothingToldYet ==
    ASSUME reports = << >>, trade_msg = NoTrade, NEW cl, cl.killed = {}
    PROVE  Told(cl)
  BY DEF Told

\* The book and the records, left alone.
LEMMA SameRecords ==
    ASSUME Typed, Views, Mirrors({}), UNCHANGED <<book, last_, by_client_, live_>>
    PROVE  /\ Views' /\ Mirrors({})' 
           /\ book' \in [DOMAIN book' -> Order] /\ DOMAIN book' \subseteq 1 .. last_'
           /\ live_' \in [DOMAIN live_' -> LiveOrder] /\ DOMAIN live_' \subseteq 1 .. last_'
           /\ \A x \in DOMAIN live_' : x \in DOMAIN live_ /\ live_'[x].owner = live_[x].owner
  BY DEF Typed, Views, Found, KeysSound, Mirrors

LEMMA Step_Cancel ==
    ASSUME IInv, NEW client \in ClientId \cup {0}, Cancel(client), UNCHANGED stp_
    PROVE  IInv'
<1> DEFINE id == find(c.owner, client)
           cl == [NoCall EXCEPT !.kind = "cancel", !.client = client, !.id = id]
           status == IF id \in DOMAIN book THEN "Canceled" ELSE "Unknown"
<1>1. /\ serving /\ book' = drop(book, {id})
      /\ IF id \in DOMAIN book THEN forget({id}) ELSE UNCHANGED <<by_client_, live_>>
      /\ send_exec(cl, 0, status) /\ publish_book
      /\ UNCHANGED <<last_, taker_side_, loop, trade_msg>>
  BY DEF Cancel
<1>2. /\ Typed /\ Views /\ Mirrors({}) /\ reports = << >> /\ trade_msg = NoTrade
      /\ DOMAIN live_ = DOMAIN book
  BY <1>1, ServeFacts
<1>3. id \in Nat
  BY <1>2, FindFacts
<1> HIDE DEF id
<1>4. cl \in CallType /\ cl.killed = {} /\ cl.id = id /\ status \in Status
  <2>1. cl \in CallType
    BY <1>3, NoCallWith, 0 \in Nat
  <2>2. cl.killed = {} /\ cl.id = id
    BY DEF NoCall
  <2>3. status \in Status
    BY DEF Status
  <2> QED
    BY <2>1, <2>2, <2>3
<1>5. Told(cl)
  BY <1>2, <1>4, NothingToldYet
<1>6. DOMAIN book' = DOMAIN book \ {id}
  BY <1>1 DEF drop
<1>7. AnswerTrue(cl, 0, status)
  BY <1>4, <1>6 DEF AnswerTrue
<1>8. taker_side_' \in Side
  BY <1>1, <1>2 DEF Typed
<1>9. /\ Views' /\ Mirrors({})'
      /\ book' \in [DOMAIN book' -> Order] /\ DOMAIN book' \subseteq 1 .. last_'
      /\ live_' \in [DOMAIN live_' -> LiveOrder] /\ DOMAIN live_' \subseteq 1 .. last_'
      /\ \A x \in DOMAIN live_' : x \in DOMAIN live_ /\ live_'[x].owner = live_[x].owner
  <2>1. CASE id \in DOMAIN book
    <3>1. forget({id})
      BY <1>1, <2>1
    <3> QED
      BY <1>1, <1>2, <3>1, DropOrders
  <2>2. CASE id \notin DOMAIN book
    <3>1. book' = book
      BY <1>1, <1>2, <2>2 DEF drop, Typed
    <3> QED
      BY <1>1, <1>2, <2>2, <3>1, SameRecords
  <2> QED
    BY <2>1, <2>2
<1> HIDE DEF cl, status
<1> QED
  BY <1>1, <1>4, <1>5, <1>7, <1>8, <1>9, Answered

\* A new order or a market order: the id it is given is new, and a call that
\* was given one has a client id that is free.
LEMMA Step_submit ==
    ASSUME IInv, NEW kind \in {"limit", "market"}, NEW client \in ClientId \cup {0},
           NEW side \in Side, NEW qty \in Qty, submit(kind, client, side, qty), UNCHANGED stp_
    PROVE  IInv'
<1>0. PICK id : id = assign(c.owner, client)
  OBVIOUS
<1>1. /\ serving /\ taker_side_' = side /\ last_' = (IF id = 0 THEN last_ ELSE id)
      /\ call' = [kind |-> kind, client |-> client, id |-> id, side |-> side, want |-> qty,
                  filled |-> 0, killed |-> {}]
      /\ pc' = "call"
      /\ UNCHANGED <<book, by_client_, live_, snapshot, conns, loop, reports, trade_msg>>
  BY <1>0 DEF submit
<1>2. /\ Typed /\ Views /\ Mirrors({}) /\ OwnersDistinct /\ OwnersOpen /\ IndexSound
      /\ pc = "serve" /\ reports = << >> /\ trade_msg = NoTrade /\ DOMAIN live_ = DOMAIN book
  BY <1>1, ServeFacts
<1>3. /\ qty \in Nat /\ last_ \in Nat /\ DOMAIN live_ \subseteq 1 .. last_
      /\ id # 0 => id = last_ + 1 /\ <<c.owner, client>> \notin DOMAIN by_client_
  <2>1. find(c.owner, client) = 0 <=> <<c.owner, client>> \notin DOMAIN by_client_
    BY <1>2, FindFacts
  <2> QED
    BY <1>0, <1>2, <2>1, BoundAssumption DEF Qty, Typed, assign
<1>4. id \in Nat /\ last_' \in Nat /\ last_ <= last_' /\ id <= last_' /\ id \notin DOMAIN live_
  BY <1>1, <1>3
<1>5. Typed'
  <2>1. call' \in CallType
    BY <1>1, <1>3, <1>4 DEF CallType
  <2> QED
    BY <1>1, <1>2, <1>4, <2>1 DEF Typed, loop
<1>6. Views'
  BY <1>1, <1>2 DEF Views, Found, KeysSound
<1>7. MirrorExact'
  <2>1. moving' = {id}
    BY <1>1 DEF moving
  <2>2. Mirrors({id})'
    BY <1>1, <1>2 DEF Mirrors
  <2> QED
    BY <1>5, <1>6, <2>1, <2>2, MirrorNext
<1>8. OwnersDistinct' /\ OwnersOpen' /\ IndexSound'
  BY <1>1, <1>2 DEF OwnersDistinct, OwnersOpen, IndexSound, Typed, serving, loop
<1>9. c' = c /\ call'.id = id /\ call'.filled = 0 /\ call'.want = qty /\ call'.killed = {}
      /\ call'.kind = kind /\ call'.client = client /\ call'.side = side
  BY <1>1 DEF c, loop
<1>10. CallSound'
  BY <1>1, <1>2, <1>3, <1>4, <1>9 DEF CallSound, quiet
<1>11. ToldSound' /\ ReportsTrue'
  <2>1. \A r \in DOMAIN reports' : FALSE
    BY <1>1, <1>2
  <2>2. {reports'[r].client : r \in DOMAIN reports'} = call'.killed
    BY <1>9, <2>1
  <2> QED
    BY <1>1, <1>2, <2>1, <2>2 DEF ToldSound, FeedTrue, ReportsTrue
<1> QED
  BY <1>5, <1>6, <1>7, <1>8, <1>10, <1>11 DEF IInv, Views

\* An order's quantity changes on the book and on record alike.
LEMMA ResizeOrder ==
    ASSUME Typed, NEW M, Mirrors(M), NEW id \in DOMAIN book \ M, NEW q \in Nat \ {0},
           book' = [book EXCEPT ![id].qty = q],
           DOMAIN live_' = DOMAIN live_, \A x \in DOMAIN live_ \ {id} : live_'[x] = live_[x],
           live_'[id].open = q, live_'[id].owner = live_[id].owner, live_'[id].side = live_[id].side
    PROVE  /\ Mirrors(M)' /\ book' \in [DOMAIN book' -> Order] /\ DOMAIN book' = DOMAIN book
           /\ book'[id].qty = q /\ \A x \in DOMAIN book \ {id} : book'[x] = book[x]
<1>1. book \in [DOMAIN book -> Order] /\ book[id] \in Order
  BY DEF Typed
<1>2. /\ DOMAIN book' = DOMAIN book /\ book'[id] = [book[id] EXCEPT !.qty = q]
      /\ \A x \in DOMAIN book \ {id} : book'[x] = book[x]
  BY <1>1
<1>3. /\ book'[id] \in Order /\ book'[id].qty = q /\ book'[id].owner = book[id].owner
      /\ book'[id].side = book[id].side
  BY <1>1, <1>2 DEF Order
<1>4. book' \in [DOMAIN book' -> Order]
  BY <1>1, <1>3
<1>5. Mirrors(M)'
  BY <1>2, <1>3 DEF Mirrors
<1> QED
  BY <1>2, <1>3, <1>4, <1>5

\* A reprice enters the engine: the order is off the book and still on record.
LEMMA RepriceStarts ==
    ASSUME IInv, serving, UNCHANGED stp_, NEW client \in ClientId \cup {0}, NEW qty \in Nat, qty > 0,
           NEW id \in DOMAIN book, id = find(c.owner, client),
           taker_side_' = live_[id].side, pc' = "call", book' = drop(book, {id}),
           call' = [[NoCall EXCEPT !.kind = "modify", !.client = client, !.id = id, !.want = qty]
                       EXCEPT !.side = book[id].side],
           UNCHANGED <<last_, by_client_, live_, snapshot, conns, loop, reports, trade_msg>>
    PROVE  IInv'
<1>1. /\ Typed /\ Views /\ Mirrors({}) /\ OwnersDistinct /\ OwnersOpen /\ IndexSound
      /\ pc = "serve" /\ reports = << >> /\ trade_msg = NoTrade /\ DOMAIN live_ = DOMAIN book
  BY ServeFacts
<1>2. /\ id \in Nat /\ id # 0 /\ last_ \in Nat /\ book[id] \in Order /\ book[id].side \in Side
      /\ live_[id].side = book[id].side
  BY <1>1 DEF Typed, Order, Mirrors
<1>3. live_[id].owner = c.owner /\ live_[id].client = client
  BY <1>1, <1>2, FindFacts
<1> DEFINE cl == [NoCall EXCEPT !.kind = "modify", !.client = client, !.id = id, !.want = qty]
<1>4. cl \in CallType
  BY <1>2, NoCallWith
<1>5. /\ cl.kind = "modify" /\ cl.client = client /\ cl.id = id /\ cl.want = qty
      /\ cl.filled = 0 /\ cl.killed = {}
  BY DEF NoCall
<1>6. call' = [cl EXCEPT !.side = book[id].side]
  OBVIOUS
<1> HIDE DEF cl
<1>7. /\ call' \in CallType
      /\ call'.kind = "modify" /\ call'.client = client /\ call'.id = id /\ call'.want = qty
      /\ call'.filled = 0 /\ call'.killed = {} /\ call'.side = book[id].side
  BY <1>2, <1>4, <1>5, <1>6 DEF CallType
<1>8. /\ DOMAIN book' = DOMAIN book \ {id} /\ \A x \in DOMAIN book \ {id} : book'[x] = book[x]
      /\ book' \in [DOMAIN book' -> Order]
  BY <1>1 DEF drop, Typed
<1>9. Typed'
  BY <1>1, <1>2, <1>7, <1>8 DEF Typed, loop
<1>10. Views'
  BY <1>1 DEF Views, Found, KeysSound
<1>11. MirrorExact'
  <2>1. moving' = {id}
    BY <1>7 DEF moving
  <2>2. Mirrors({id})'
    <3>1. DOMAIN live_' \ {id} = DOMAIN book' \ {id}
      BY <1>1, <1>8
    <3>2. \A x \in DOMAIN book' \ {id} :
             /\ live_'[x].open = book'[x].qty /\ live_'[x].owner = book'[x].owner
             /\ live_'[x].side = book'[x].side
      <4>1. \A x \in DOMAIN book :
               /\ live_[x].open = book[x].qty /\ live_[x].owner = book[x].owner
               /\ live_[x].side = book[x].side
        BY <1>1 DEF Mirrors
      <4>2. live_' = live_
        OBVIOUS
      <4> QED
        BY <1>8, <4>1, <4>2
    <3> QED
      BY <3>1, <3>2 DEF Mirrors
  <2> QED
    BY <1>9, <1>10, <2>1, <2>2, MirrorNext
<1>12. OwnersDistinct' /\ OwnersOpen' /\ IndexSound'
  BY <1>1 DEF OwnersDistinct, OwnersOpen, IndexSound, Typed, serving, loop
<1>13. c' = c
  BY DEF c, loop
<1>14. CallSound'
  BY <1>1, <1>2, <1>3, <1>7, <1>8, <1>13 DEF CallSound, accepted
<1>15. ToldSound' /\ ReportsTrue'
  <2>1. \A r \in DOMAIN reports' : FALSE
    BY <1>1
  <2>2. {reports'[r].client : r \in DOMAIN reports'} = call'.killed
    BY <1>7, <2>1
  <2> QED
    BY <1>1, <2>1, <2>2 DEF ToldSound, FeedTrue, ReportsTrue
<1> QED
  BY <1>9, <1>10, <1>11, <1>12, <1>14, <1>15 DEF IInv, Views

LEMMA Step_Modify ==
    ASSUME IInv, NEW client \in ClientId \cup {0}, NEW qty \in Qty, Modify(client, qty), UNCHANGED stp_
    PROVE  IInv'
<1>1. PICK id : id = find(c.owner, client)
  OBVIOUS
<1> DEFINE cl == [NoCall EXCEPT !.kind = "modify", !.client = client, !.id = id, !.want = qty]
<1>2. /\ serving /\ taker_side_' = modify_side(id) /\ UNCHANGED <<last_, loop, trade_msg>>
      /\ pc' = "handled" => publish_book
      /\ pc' # "handled" => UNCHANGED snapshot
  BY <1>1 DEF Modify
<1>3. /\ Typed /\ Views /\ Mirrors({}) /\ reports = << >> /\ trade_msg = NoTrade
      /\ DOMAIN live_ = DOMAIN book
  BY <1>2, ServeFacts
<1>4. id \in Nat /\ qty \in Nat
  <2>1. id \in Nat
    BY <1>1, <1>3, FindFacts
  <2>2. qty \in Nat
    BY BoundAssumption DEF Qty
  <2> QED
    BY <2>1, <2>2
<1>5. cl \in CallType
  BY <1>4, NoCallWith
<1>6. /\ cl.kind = "modify" /\ cl.client = client /\ cl.id = id /\ cl.want = qty
      /\ cl.filled = 0 /\ cl.killed = {}
  BY DEF NoCall
<1>7. taker_side_' \in Side
  BY <1>2, <1>3 DEF Typed, modify_side, LiveOrder
<1>8. id \in DOMAIN book =>
         /\ id # 0 /\ <<c.owner, client>> \in DOMAIN by_client_ /\ by_client_[<<c.owner, client>>] = id
         /\ live_[id].owner = c.owner /\ live_[id].client = client
  <2> SUFFICES ASSUME id \in DOMAIN book PROVE id # 0
    BY <1>1, <1>3, FindFacts
  <2> QED
    BY <1>3 DEF Typed
<1>9. Told(cl)
  BY <1>3, <1>6, NothingToldYet
<1>10. CASE id \notin DOMAIN book /\ send_exec(cl, 0, "Unknown") /\ UNCHANGED <<book, by_client_, live_>>
  <2>1. AnswerTrue(cl, 0, "Unknown") /\ "Unknown" \in Status /\ publish_book
    BY <1>2, <1>6, <1>10 DEF AnswerTrue, Status, send_exec
  <2>2. /\ Views' /\ Mirrors({})'
        /\ book' \in [DOMAIN book' -> Order] /\ DOMAIN book' \subseteq 1 .. last_'
        /\ live_' \in [DOMAIN live_' -> LiveOrder] /\ DOMAIN live_' \subseteq 1 .. last_'
        /\ \A x \in DOMAIN live_' : x \in DOMAIN live_ /\ live_'[x].owner = live_[x].owner
    BY <1>2, <1>3, <1>10, SameRecords
  <2> HIDE DEF cl
  <2> QED
    BY <1>2, <1>5, <1>7, <1>9, <1>10, <2>1, <2>2, 0 \in Nat, Answered
<1>11. CASE id \in DOMAIN book /\ send_exec(cl, 0, "Rejected") /\ UNCHANGED <<book, by_client_, live_>>
  <2>1. AnswerTrue(cl, 0, "Rejected") /\ "Rejected" \in Status /\ publish_book
    BY <1>2, <1>6, <1>8, <1>11 DEF AnswerTrue, Status, send_exec, Rests
  <2>2. /\ Views' /\ Mirrors({})'
        /\ book' \in [DOMAIN book' -> Order] /\ DOMAIN book' \subseteq 1 .. last_'
        /\ live_' \in [DOMAIN live_' -> LiveOrder] /\ DOMAIN live_' \subseteq 1 .. last_'
        /\ \A x \in DOMAIN live_' : x \in DOMAIN live_ /\ live_'[x].owner = live_[x].owner
    BY <1>2, <1>3, <1>11, SameRecords
  <2> HIDE DEF cl
  <2> QED
    BY <1>2, <1>5, <1>7, <1>9, <1>11, <2>1, <2>2, 0 \in Nat, Answered
<1>12. CASE /\ id \in DOMAIN book /\ qty > 0 /\ qty <= book[id].qty
            /\ book' = [book EXCEPT ![id].qty = qty]
            /\ record(id, c.owner, client, qty, live_[id].side)
            /\ send_exec([cl EXCEPT !.side = book[id].side], 0, "Replaced")
  <2>1. PICK cl2 : cl2 = [cl EXCEPT !.side = book[id].side]
    OBVIOUS
  <2>2. book[id].side \in Side /\ live_[id] \in LiveOrder
    BY <1>3, <1>12 DEF Typed, Order
  <2> HIDE DEF cl
  <2>3. cl2 \in CallType /\ cl2.client = client /\ cl2.id = id /\ cl2.want = qty /\ cl2.killed = {}
    BY <1>5, <1>6, <2>1, <2>2 DEF CallType
  <2>4. Told(cl2)
    BY <1>3, <2>3, NothingToldYet
  <2>5. PICK side : side = live_[id].side
    OBVIOUS
  <2>6. PICK o : o = c.owner
    OBVIOUS
  <2>7. record(id, o, client, qty, side)
    BY <1>12, <2>5, <2>6
  <2>8. /\ Views' /\ DOMAIN live_' = DOMAIN live_ \cup {id}
        /\ live_'[id] = [owner |-> o, client |-> client, open |-> qty, side |-> side]
        /\ \A x \in DOMAIN live_ \ {id} : live_'[x] = live_[x]
    <3>1. id \in DOMAIN live_ /\ live_[id].owner = o /\ live_[id].client = client
      BY <1>3, <1>8, <1>12, <2>6
    <3>2. IF id \in DOMAIN live_ THEN live_[id].owner = o /\ live_[id].client = client
          ELSE <<o, client>> \notin DOMAIN by_client_
      BY <3>1
    <3> QED
      BY <1>3, <2>7, <3>2, RecordViews
  <2>9. /\ live_'[id].owner = live_[id].owner /\ live_'[id].client = client
        /\ live_'[id].open = qty /\ live_'[id].side = live_[id].side
        /\ DOMAIN live_' = DOMAIN live_ /\ live_'[id] \in LiveOrder
    <3>1. o = live_[id].owner /\ side = live_[id].side /\ id \in DOMAIN live_ /\ qty \in Nat \ {0}
      BY <1>3, <1>4, <1>8, <1>12, <2>5, <2>6
    <3>2. o \in Nat /\ side \in Side
      BY <2>2, <3>1 DEF LiveOrder
    <3>3. live_'[id] \in LiveOrder
      BY <2>8, <3>1, <3>2 DEF LiveOrder
    <3> QED
      BY <2>8, <3>1, <3>3
  <2>10. /\ Mirrors({})' /\ book' \in [DOMAIN book' -> Order] /\ DOMAIN book' = DOMAIN book
         /\ book'[id].qty = qty
    <3>1. /\ id \in DOMAIN book \ {} /\ qty \in Nat \ {0} /\ book' = [book EXCEPT ![id].qty = qty]
      BY <1>4, <1>12
    <3> QED
      BY <1>3, <2>8, <2>9, <3>1, ResizeOrder
  <2>11. live_' \in [DOMAIN live_' -> LiveOrder]
    BY <1>3, <2>7, <2>8, <2>9 DEF Typed, record, put
  <2>12. DOMAIN book' \subseteq 1 .. last_' /\ DOMAIN live_' \subseteq 1 .. last_'
    BY <1>2, <1>3, <2>9, <2>10 DEF Typed
  <2>13. \A x \in DOMAIN live_' : x \in DOMAIN live_ /\ live_'[x].owner = live_[x].owner
    BY <2>8, <2>9
  <2>14. Rests(cl2)
    BY <1>3, <1>8, <1>12, <2>3, <2>8, <2>9, <2>10 DEF Rests, Views, Found
  <2>15. AnswerTrue(cl2, 0, "Replaced") /\ "Replaced" \in Status
    BY <1>4, <2>3, <2>10, <2>14 DEF AnswerTrue, Status
  <2>16. send_exec(cl2, 0, "Replaced") /\ publish_book
    BY <1>2, <1>12, <2>1 DEF send_exec
  <2> QED
    BY <1>2, <1>7, <2>3, <2>4, <2>8, <2>10, <2>11, <2>12, <2>13, <2>15, <2>16, 0 \in Nat, Answered
<1>13. CASE /\ id \in DOMAIN book /\ qty > 0 /\ book' = drop(book, {id})
            /\ call' = [cl EXCEPT !.side = book[id].side] /\ pc' = "call"
            /\ UNCHANGED <<by_client_, live_, conns, reports>>
  <2>1. taker_side_' = live_[id].side
    BY <1>2, <1>3, <1>13 DEF modify_side
  <2>2. UNCHANGED snapshot
    BY <1>2, <1>13
  <2> QED
    BY <1>1, <1>2, <1>4, <1>13, <2>1, <2>2, RepriceStarts
<1> QED
  BY <1>1, <1>10, <1>11, <1>12, <1>13 DEF Modify

-----------------------------------------------------------------------------
(* The engine call and its callbacks *)

\* The state inside a call, for the order id it is about.
LEMMA CallFacts ==
    ASSUME IInv, pc = "call", NEW id, id = call.id
    PROVE  /\ Typed /\ Views /\ Mirrors({id}) /\ OwnersDistinct /\ OwnersOpen /\ IndexSound
           /\ at \in DOMAIN conns /\ c \in Conn /\ c = conns[at]
           /\ call \in CallType /\ id \notin DOMAIN book /\ call.filled <= call.want
           /\ taker_side_ = call.side /\ Told(call)
<1>1. Typed /\ KeysSound /\ MirrorExact /\ OwnersDistinct /\ OwnersOpen /\ IndexSound
  BY DEF IInv
<1>2. Mirrors({id}) /\ Views
  BY <1>1, MirrorParts DEF Views, moving
<1>3. at \in DOMAIN conns /\ c \in Conn /\ c = conns[at]
  BY <1>1, ServedConn
<1>4. /\ call \in CallType /\ id \notin DOMAIN book /\ call.filled <= call.want
      /\ taker_side_ = call.side
  BY <1>1 DEF Typed, IInv, CallSound
<1>5. Told(call)
  BY DEF IInv, ToldSound, FeedTrue, Told
<1> QED
  BY <1>1, <1>2, <1>3, <1>4, <1>5

\* A callback keeps the invariant if it takes orders off the book and the
\* records alike, leaves the one the call is about alone, and is told.
LEMMA CallContinues ==
    ASSUME IInv, pc = "call", pc' = "call", accepted, NEW id, id = call.id,
           UNCHANGED <<stp_, last_, taker_side_>>, UNCHANGED loop,
           call' \in CallType, call'.id = id, call'.kind = call.kind, call'.client = call.client,
           call'.side = call.side, call'.want = call.want, call'.filled <= call.want,
           Views', Mirrors({id})',
           book' \in [DOMAIN book' -> Order], DOMAIN book' \subseteq DOMAIN book,
           live_' \in [DOMAIN live_' -> LiveOrder], DOMAIN live_' \subseteq DOMAIN live_,
           \A x \in DOMAIN live_' : live_'[x].owner = live_[x].owner,
           id \in DOMAIN live_ => id \in DOMAIN live_' /\ live_'[id] = live_[id],
           DOMAIN by_client_' \subseteq DOMAIN by_client_,
           conns' \in Seq(Conn), Len(conns') = Len(conns),
           \A x \in DOMAIN conns : conns'[x].owner = conns[x].owner,
           reports' \in Seq(ReportType), \A r \in DOMAIN reports' : reports'[r].status = "Canceled",
           ~c'.dead => {reports'[r].client : r \in DOMAIN reports'} = call'.killed,
           trade_msg' # NoTrade => trade_msg'.side = call.side
    PROVE  IInv'
<1>1. /\ Typed /\ OwnersDistinct /\ OwnersOpen /\ IndexSound /\ at \in DOMAIN conns
      /\ id \notin DOMAIN book /\ taker_side_ = call.side /\ c = conns[at]
  BY CallFacts
<1>2. DOMAIN conns' = DOMAIN conns /\ c'.owner = c.owner
  <2>1. conns \in Seq(Conn)
    BY <1>1 DEF Typed
  <2>2. DOMAIN conns' = DOMAIN conns
    BY <2>1
  <2> QED
    BY <1>1, <2>2 DEF c, loop
<1>3. Typed'
  BY <1>1 DEF Typed, loop
<1>4. MirrorExact'
  <2>1. moving' = {id}
    BY DEF moving
  <2> QED
    BY <1>3, <2>1, MirrorNext
<1>5. OwnersDistinct' /\ OwnersOpen'
  <2>1. OwnersDistinct'
    BY <1>1, <1>2 DEF OwnersDistinct, loop
  <2>2. ASSUME NEW x \in DOMAIN live_' PROVE \E y \in DOMAIN conns' : conns'[y].owner = live_'[x].owner
    <3>1. PICK y \in DOMAIN conns : conns[y].owner = live_[x].owner
      BY <1>1 DEF OwnersOpen
    <3> QED
      BY <1>2, <3>1
  <2> QED
    BY <2>1, <2>2 DEF OwnersOpen
<1>6. IndexSound'
  BY <1>1 DEF IndexSound, loop
<1>7. accepted'
  BY DEF accepted
<1>8. CallSound'
  <2>1. call.kind \in {"limit", "market", "modify"}
    BY DEF IInv, CallSound
  <2>2. CASE call.kind = "modify"
    <3>1. /\ id \in DOMAIN live_ /\ live_[id].owner = c.owner /\ live_[id].client = call.client
          /\ live_[id].side = call.side
      BY <2>2 DEF IInv, CallSound
    <3> QED
      BY <1>1, <1>2, <1>7, <2>2, <3>1 DEF CallSound
  <2>3. CASE call.kind # "modify"
    <3>1. id \notin DOMAIN live_ /\ id <= last_ /\ (id # 0 => <<c.owner, call.client>> \notin DOMAIN by_client_)
      BY <2>3 DEF IInv, CallSound
    <3>2. id \notin DOMAIN live_' /\ (id # 0 => <<c'.owner, call'.client>> \notin DOMAIN by_client_')
      BY <1>2, <3>1
    <3> QED
      BY <1>1, <1>7, <2>1, <2>3, <3>1, <3>2 DEF CallSound
  <2> QED
    BY <2>2, <2>3
<1>9. ToldSound' /\ ReportsTrue'
  BY DEF ToldSound, FeedTrue, ReportsTrue
<1> QED
  BY <1>3, <1>4, <1>5, <1>6, <1>8, <1>9 DEF IInv, Views

\* on_trade: the maker's entry follows its order.
LEMMA Step_Trade ==
    ASSUME IInv, NEW m \in DOMAIN book, Trade(m), UNCHANGED stp_
    PROVE  IInv'
<1>1. PICK id : id = call.id
  OBVIOUS
<1>2. PICK take : take = IF book[m].qty <= call.want - call.filled THEN book[m].qty
                         ELSE call.want - call.filled
  OBVIOUS
<1>3. /\ pc = "call" /\ accepted /\ call.filled < call.want
      /\ book' = (IF take = book[m].qty THEN drop(book, {m}) ELSE [book EXCEPT ![m].qty = @ - take])
      /\ fill(m, take)
      /\ trade_msg' = [side |-> taker_side_, qty |-> take]
      /\ call' = [call EXCEPT !.filled = @ + take]
      /\ UNCHANGED <<last_, taker_side_, snapshot, conns, loop, pc, reports>>
  BY <1>2 DEF Trade, matching
<1>4. /\ Typed /\ Views /\ Mirrors({id}) /\ call \in CallType /\ id \notin DOMAIN book
      /\ taker_side_ = call.side /\ Told(call)
  BY <1>1, <1>3, CallFacts
<1>5. m \in DOMAIN book \ {id} /\ m \in DOMAIN live_ /\ live_[m].open = book[m].qty
  BY <1>4 DEF Mirrors
<1>6. book[m].qty \in Nat \ {0} /\ call.want \in Nat /\ call.filled \in Nat
  <2>1. book[m] \in Order
    BY <1>4 DEF Typed
  <2> QED
    BY <1>4, <2>1 DEF Order, CallType
<1>7. take \in Nat \ {0} /\ take <= book[m].qty /\ call.filled + take <= call.want
  BY <1>2, <1>3, <1>6
<1>8. /\ call' \in CallType /\ call'.id = id /\ call'.kind = call.kind /\ call'.client = call.client
      /\ call'.side = call.side /\ call'.want = call.want /\ call'.filled <= call.want
      /\ call'.killed = call.killed
  BY <1>1, <1>3, <1>4, <1>6, <1>7 DEF CallType
<1>9. /\ Views' /\ Mirrors({id})'
      /\ book' \in [DOMAIN book' -> Order] /\ DOMAIN book' \subseteq DOMAIN book
      /\ live_' \in [DOMAIN live_' -> LiveOrder] /\ DOMAIN live_' \subseteq DOMAIN live_
      /\ \A x \in DOMAIN live_' : live_'[x].owner = live_[x].owner
      /\ id \in DOMAIN live_ => id \in DOMAIN live_' /\ live_'[id] = live_[id]
      /\ DOMAIN by_client_' \subseteq DOMAIN by_client_
  <2>1. CASE take = book[m].qty
    <3>1. book' = drop(book, {m}) /\ forget({m})
      BY <1>3, <1>5, <2>1 DEF fill
    <3>2. DOMAIN by_client_' \subseteq DOMAIN by_client_
      BY <3>1 DEF forget, drop
    <3>3. /\ Views' /\ Mirrors({id})'
          /\ book' \in [DOMAIN book' -> Order] /\ DOMAIN book' = DOMAIN book \ {m}
          /\ live_' \in [DOMAIN live_' -> LiveOrder] /\ DOMAIN live_' = DOMAIN live_ \ {m}
          /\ \A x \in DOMAIN live_ \ {m} : live_'[x] = live_[x]
      BY <1>3, <1>4, <3>1, DropOrders
    <3> QED
      BY <1>5, <3>2, <3>3
  <2>2. CASE take # book[m].qty
    <3>1. PICK q : q = book[m].qty - take
      OBVIOUS
    <3>2. q \in Nat \ {0}
      BY <1>6, <1>7, <2>2, <3>1
    <3>3. live_' = [live_ EXCEPT ![m].open = q] /\ by_client_' = by_client_
      BY <1>3, <1>5, <2>2, <3>1 DEF fill
    <3>4. book' = [book EXCEPT ![m].qty = q]
      BY <1>3, <2>2, <3>1
    <3>5. live_ \in [DOMAIN live_ -> LiveOrder] /\ live_[m] \in LiveOrder
      BY <1>4, <1>5 DEF Typed
    <3>6. /\ DOMAIN live_' = DOMAIN live_ /\ \A x \in DOMAIN live_ \ {m} : live_'[x] = live_[x]
          /\ live_'[m] = [live_[m] EXCEPT !.open = q]
      BY <1>5, <3>3, <3>5
    <3>7. /\ live_'[m] \in LiveOrder /\ live_'[m].open = q /\ live_'[m].owner = live_[m].owner
          /\ live_'[m].client = live_[m].client /\ live_'[m].side = live_[m].side
      BY <3>2, <3>5, <3>6 DEF LiveOrder
    <3>8. live_' \in [DOMAIN live_' -> LiveOrder]
      BY <3>3, <3>5, <3>7
    <3>9. Views'
      BY <1>4, <3>3, <3>6, <3>7 DEF Views, Found, KeysSound
    <3>10. Mirrors({id})' /\ book' \in [DOMAIN book' -> Order] /\ DOMAIN book' = DOMAIN book
      BY <1>4, <1>5, <3>2, <3>4, <3>6, <3>7, ResizeOrder
    <3> QED
      BY <1>5, <3>3, <3>6, <3>7, <3>8, <3>9, <3>10
  <2> QED
    BY <2>1, <2>2
<1>10. c' = c /\ conns' \in Seq(Conn) /\ reports' \in Seq(ReportType)
  BY <1>3, <1>4 DEF c, loop, Typed
<1>11. /\ \A r \in DOMAIN reports' : reports'[r].status = "Canceled"
       /\ ~c'.dead => {reports'[r].client : r \in DOMAIN reports'} = call'.killed
  BY <1>3, <1>4, <1>8, <1>10 DEF Told
<1>12. trade_msg'.side = call.side
  BY <1>3, <1>4
<1>13. Len(conns') = Len(conns) /\ \A x \in DOMAIN conns : conns'[x].owner = conns[x].owner
  BY <1>3
<1> QED
  BY <1>1, <1>3, <1>8, <1>9, <1>10, <1>11, <1>12, <1>13, CallContinues

\* Owners are distinct: only the served connection can be told of a kill.
LEMMA Listeners ==
    ASSUME Typed, OwnersDistinct, at \in DOMAIN conns
    PROVE  listeners(c.owner) = IF c.dead THEN {} ELSE {at}
<1>1. \A x \in DOMAIN conns : conns[x].owner = conns[at].owner => x = at
  BY DEF OwnersDistinct
<1> QED
  BY <1>1 DEF listeners, c

\* on_cancel: a killed order's entry goes, and its client is told.
LEMMA Step_Kill ==
    ASSUME IInv, NEW m \in DOMAIN book, Kill(m), UNCHANGED stp_
    PROVE  IInv'
<1>1. PICK id : id = call.id
  OBVIOUS
<1>2. PICK k : k = live_[m].client
  OBVIOUS
<1>3. /\ pc = "call" /\ accepted /\ call.filled < call.want /\ book[m].owner = c.owner
      /\ book' = drop(book, {m}) /\ forget({m}) /\ kill_told(m)
      /\ call' = [call EXCEPT !.killed = @ \cup {k}]
      /\ UNCHANGED <<last_, taker_side_, snapshot, loop, pc, trade_msg>>
  BY <1>2 DEF Kill, matching
<1>4. /\ Typed /\ Views /\ Mirrors({id}) /\ OwnersDistinct /\ OwnersOpen /\ at \in DOMAIN conns
      /\ c \in Conn /\ c = conns[at]
      /\ call \in CallType /\ id \notin DOMAIN book /\ call.filled <= call.want /\ Told(call)
  BY <1>1, <1>3, CallFacts
<1>5. m # id /\ m \in DOMAIN live_
  BY <1>4 DEF Mirrors
<1>6. k \in ClientId \cup {0}
  BY <1>2, <1>4, <1>5 DEF Typed, LiveOrder
<1>7. /\ call' \in CallType /\ call'.id = id /\ call'.kind = call.kind /\ call'.client = call.client
      /\ call'.side = call.side /\ call'.want = call.want /\ call'.filled <= call.want
      /\ call'.killed = call.killed \cup {k}
  BY <1>1, <1>3, <1>4, <1>6 DEF CallType
<1>8. DOMAIN by_client_' \subseteq DOMAIN by_client_
  BY <1>3 DEF forget, drop
<1>9. /\ Views' /\ Mirrors({id})'
      /\ book' \in [DOMAIN book' -> Order] /\ DOMAIN book' = DOMAIN book \ {m}
      /\ live_' \in [DOMAIN live_' -> LiveOrder] /\ DOMAIN live_' = DOMAIN live_ \ {m}
      /\ \A x \in DOMAIN live_ \ {m} : live_'[x] = live_[x]
  BY <1>3, <1>4, DropOrders
<1>10. /\ DOMAIN book' \subseteq DOMAIN book /\ DOMAIN live_' \subseteq DOMAIN live_
       /\ \A x \in DOMAIN live_' : live_'[x].owner = live_[x].owner
       /\ id \in DOMAIN live_ => id \in DOMAIN live_' /\ live_'[id] = live_[id]
  BY <1>5, <1>9
<1>11. trade_msg' # NoTrade => trade_msg'.side = call.side
  BY <1>3, <1>4 DEF Told
<1>12. listeners(book[m].owner) = IF c.dead THEN {} ELSE {at}
  BY <1>3, <1>4, Listeners
<1>13. conns \in Seq(Conn) /\ reports \in Seq(ReportType) /\ Len(reports) \in Nat
       /\ DOMAIN reports = 1 .. Len(reports)
  BY <1>4 DEF Typed
<1>14. CASE c.dead
  <2>1. UNCHANGED <<conns, reports>>
    BY <1>3, <1>12, <1>14 DEF kill_told
  <2>2. /\ c' = c /\ conns' \in Seq(Conn) /\ reports' \in Seq(ReportType) /\ Len(conns') = Len(conns)
        /\ \A x \in DOMAIN conns : conns'[x].owner = conns[x].owner
        /\ \A r \in DOMAIN reports' : reports'[r].status = "Canceled"
    BY <1>3, <1>4, <1>13, <2>1 DEF c, loop, Told
  <2>3. ~c'.dead => {reports'[r].client : r \in DOMAIN reports'} = call'.killed
    BY <1>14, <2>2
  <2> QED
    BY <1>1, <1>3, <1>7, <1>8, <1>9, <1>10, <1>11, <2>2, <2>3, CallContinues
<1>15. CASE ~c.dead
  <2>1. PICK rep : rep = Report(k, 0, "Canceled")
    OBVIOUS
  <2>2. conns' = [conns EXCEPT ![at] = queue_send(@)] /\ reports' = Append(reports, rep)
    BY <1>2, <1>3, <1>12, <1>15, <2>1 DEF kill_told
  <2>3. PICK v : v = queue_send(conns[at])
    OBVIOUS
  <2>4. v \in Conn /\ v.owner = conns[at].owner
    BY <1>4, <2>3, QueueSendFacts
  <2>5. conns' = [conns EXCEPT ![at] = v] /\ next_owner' = next_owner
    BY <1>3, <2>2, <2>3 DEF loop
  <2>6. /\ conns' \in Seq(Conn) /\ Len(conns') = Len(conns)
        /\ \A x \in DOMAIN conns : conns'[x].owner = conns[x].owner
    BY <1>4, <2>4, <2>5, ConnUpdate
  <2>7. rep \in ReportType /\ rep.client = k /\ rep.status = "Canceled"
    BY <1>6, <2>1 DEF ReportType, Report, Status
  <2>8. /\ reports' \in Seq(ReportType) /\ Len(reports') = Len(reports) + 1
        /\ \A r \in 1 .. Len(reports) : reports'[r] = reports[r]
        /\ reports'[Len(reports) + 1] = rep
    BY <1>13, <2>2, <2>7, AppendProperties
  <2>9. DOMAIN reports' = 1 .. (Len(reports) + 1)
    BY <2>8
  <2>10. \A r \in DOMAIN reports' : reports'[r].status = "Canceled"
    BY <1>4, <1>13, <2>7, <2>8, <2>9 DEF Told
  <2>11. {reports'[r].client : r \in DOMAIN reports'} = {reports[r].client : r \in DOMAIN reports} \cup {k}
    <3>1. ASSUME NEW r \in DOMAIN reports' PROVE reports'[r].client \in {reports[n].client : n \in DOMAIN reports} \cup {k}
      <4>1. CASE r = Len(reports) + 1
        BY <2>7, <2>8, <4>1
      <4>2. CASE r \in 1 .. Len(reports)
        BY <1>13, <2>8, <4>2
      <4> QED
        BY <1>13, <2>9, <4>1, <4>2
    <3>2. ASSUME NEW r \in DOMAIN reports PROVE reports[r].client \in {reports'[n].client : n \in DOMAIN reports'}
      <4>1. r \in DOMAIN reports' /\ reports'[r] = reports[r]
        BY <1>13, <2>8, <2>9
      <4> QED
        BY <4>1
    <3>3. k \in {reports'[n].client : n \in DOMAIN reports'}
      <4>1. Len(reports) + 1 \in DOMAIN reports'
        BY <1>13, <2>9
      <4> QED
        BY <2>7, <2>8, <4>1
    <3> QED
      BY <3>1, <3>2, <3>3
  <2>12. {reports'[r].client : r \in DOMAIN reports'} = call'.killed
    BY <1>4, <1>7, <1>15, <2>11 DEF Told
  <2> QED
    BY <1>1, <1>3, <1>7, <1>8, <1>9, <1>10, <1>11, <2>6, <2>8, <2>10, <2>12, CallContinues
<1> QED
  BY <1>14, <1>15

-----------------------------------------------------------------------------
(* The engine call returns *)

\* The remainder rests: it is recorded under the client id of the frame.
LEMMA Rested ==
    ASSUME IInv, pc = "call", engine_rests, UNCHANGED last_
    PROVE  /\ Views' /\ Mirrors({})' /\ Rests(call) /\ book'[call.id].qty = call.want - call.filled
           /\ book' \in [DOMAIN book' -> Order] /\ DOMAIN book' \subseteq 1 .. last_'
           /\ live_' \in [DOMAIN live_' -> LiveOrder] /\ DOMAIN live_' \subseteq 1 .. last_'
           /\ \A x \in DOMAIN live_' :
                 \/ live_'[x].owner = c.owner
                 \/ x \in DOMAIN live_ /\ live_'[x].owner = live_[x].owner
<1>1. PICK id : id = call.id
  OBVIOUS
<1>2. PICK o : o = c.owner
  OBVIOUS
<1>3. PICK k : k = call.client
  OBVIOUS
<1>4. PICK q : q = call.want - call.filled
  OBVIOUS
<1>5. PICK s : s = call.side
  OBVIOUS
<1>6. /\ accepted /\ call.filled < call.want
      /\ book' = put(book, id, [qty |-> q, owner |-> o, side |-> s]) /\ record(id, o, k, q, s)
  BY <1>1, <1>2, <1>3, <1>4, <1>5 DEF engine_rests
<1>7. /\ Typed /\ Views /\ Mirrors({id}) /\ c \in Conn /\ call \in CallType /\ id \notin DOMAIN book
  BY <1>1, CallFacts
<1>8. /\ o \in Nat /\ k \in ClientId \cup {0} /\ q \in Nat \ {0} /\ s \in Side
      /\ id \in Nat \ {0} /\ last_ \in Nat
  BY <1>1, <1>2, <1>3, <1>4, <1>5, <1>6, <1>7 DEF Conn, CallType, accepted, Typed
<1>9. IF id \in DOMAIN live_ THEN live_[id].owner = o /\ live_[id].client = k
      ELSE <<o, k>> \notin DOMAIN by_client_
  BY <1>1, <1>2, <1>3, <1>8 DEF IInv, CallSound
<1>10. id <= last_
  <2>1. call.kind = "modify" => id \in DOMAIN live_
    BY <1>1 DEF IInv, CallSound
  <2>2. call.kind # "modify" => id <= last_
    BY <1>1 DEF IInv, CallSound
  <2> QED
    BY <1>7, <1>8, <2>1, <2>2 DEF Typed
<1>11. /\ Views' /\ DOMAIN live_' = DOMAIN live_ \cup {id}
       /\ live_'[id] = [owner |-> o, client |-> k, open |-> q, side |-> s]
       /\ \A x \in DOMAIN live_ \ {id} : live_'[x] = live_[x]
  BY <1>6, <1>7, <1>9, RecordViews
<1>12. /\ DOMAIN book' = DOMAIN book \cup {id} /\ book'[id] = [qty |-> q, owner |-> o, side |-> s]
       /\ \A x \in DOMAIN book \ {id} : book'[x] = book[x]
  BY <1>6 DEF put
<1>13. /\ live_'[id] \in LiveOrder /\ book'[id] \in Order
       /\ live_'[id].owner = o /\ live_'[id].client = k /\ live_'[id].open = q /\ live_'[id].side = s
       /\ book'[id].owner = o /\ book'[id].qty = q /\ book'[id].side = s
  BY <1>8, <1>11, <1>12 DEF LiveOrder, Order
<1>14. book' \in [DOMAIN book' -> Order] /\ DOMAIN book' \subseteq 1 .. last_'
  <2>1. \A x \in DOMAIN book' : book'[x] \in Order
    BY <1>7, <1>12, <1>13 DEF Typed
  <2>2. book' = [x \in DOMAIN book' |-> book'[x]]
    BY <1>6 DEF put
  <2> QED
    BY <1>7, <1>8, <1>10, <1>12, <2>1, <2>2 DEF Typed
<1>15. live_' \in [DOMAIN live_' -> LiveOrder] /\ DOMAIN live_' \subseteq 1 .. last_'
  <2>1. \A x \in DOMAIN live_' : live_'[x] \in LiveOrder
    BY <1>7, <1>11, <1>13 DEF Typed
  <2>2. live_' = [x \in DOMAIN live_' |-> live_'[x]]
    BY <1>6 DEF record, put
  <2> QED
    BY <1>7, <1>8, <1>10, <1>11, <2>1, <2>2 DEF Typed
<1>16. Mirrors({})'
  <2>1. DOMAIN live_' = DOMAIN book'
    BY <1>7, <1>11, <1>12 DEF Mirrors
  <2>2. ASSUME NEW x \in DOMAIN book'
        PROVE  /\ live_'[x].open = book'[x].qty /\ live_'[x].owner = book'[x].owner
               /\ live_'[x].side = book'[x].side
    <3>1. CASE x = id
      BY <1>13, <3>1
    <3>2. CASE x # id
      <4>1. x \in DOMAIN book \ {id} /\ x \in DOMAIN live_ \ {id}
        BY <1>7, <1>12, <3>2 DEF Mirrors
      <4> QED
        BY <1>7, <1>11, <1>12, <4>1 DEF Mirrors
    <3> QED
      BY <3>1, <3>2
  <2> QED
    BY <2>1, <2>2 DEF Mirrors
<1>17. Rests(call)
  BY <1>1, <1>2, <1>3, <1>11, <1>12, <1>13 DEF Rests, Views, Found
<1>18. book'[call.id].qty = call.want - call.filled
  BY <1>1, <1>4, <1>13
<1>19. \A x \in DOMAIN live_' :
          \/ live_'[x].owner = c.owner
          \/ x \in DOMAIN live_ /\ live_'[x].owner = live_[x].owner
  BY <1>2, <1>11, <1>13
<1> QED
  BY <1>11, <1>14, <1>15, <1>16, <1>17, <1>18, <1>19

\* A call about a new order returns and nothing rests: the records were exact
\* without it.
LEMMA NotRested ==
    ASSUME IInv, pc = "call", call.kind # "modify", UNCHANGED <<last_, book, by_client_, live_>>
    PROVE  /\ Views' /\ Mirrors({})' /\ call.id \notin DOMAIN book'
           /\ book' \in [DOMAIN book' -> Order] /\ DOMAIN book' \subseteq 1 .. last_'
           /\ live_' \in [DOMAIN live_' -> LiveOrder] /\ DOMAIN live_' \subseteq 1 .. last_'
           /\ \A x \in DOMAIN live_' : x \in DOMAIN live_ /\ live_'[x].owner = live_[x].owner
<1>1. PICK id : id = call.id
  OBVIOUS
<1>2. Typed /\ Views /\ Mirrors({id}) /\ id \notin DOMAIN book
  BY <1>1, CallFacts
<1>3. id \notin DOMAIN live_
  BY <1>1 DEF IInv, CallSound
<1>4. Mirrors({})
  BY <1>2, <1>3 DEF Mirrors
<1> QED
  BY <1>1, <1>2, <1>4, SameRecords

LEMMA CallTyped ==
    ASSUME IInv, pc = "call"
    PROVE  /\ call \in CallType /\ Told(call) /\ taker_side_ \in Side
           /\ call.filled \in Nat /\ call.want \in Nat /\ call.filled <= call.want
           /\ ~accepted => quiet
<1>1. PICK id : id = call.id
  OBVIOUS
<1>2. Typed /\ call \in CallType /\ Told(call) /\ call.filled <= call.want
  BY <1>1, CallFacts
<1>3. ~accepted => quiet
  BY DEF IInv, CallSound
<1> QED
  BY <1>2, <1>3 DEF Typed, CallType

LEMMA Step_NewOrderReturns == IInv /\ NewOrderReturns /\ UNCHANGED stp_ => IInv'
<1> SUFFICES ASSUME IInv, NewOrderReturns, UNCHANGED stp_ PROVE IInv'
  OBVIOUS
<1>1. /\ pc = "call" /\ call.kind = "limit" /\ publish_book
      /\ UNCHANGED <<last_, taker_side_, trade_msg>> /\ UNCHANGED loop /\ call.kind # "modify"
  BY DEF NewOrderReturns
<1>2. /\ call \in CallType /\ Told(call) /\ taker_side_' \in Side
      /\ call.filled \in Nat /\ call.want \in Nat /\ call.filled <= call.want
  BY <1>1, CallTyped
<1>3. PICK cl : cl = call
  OBVIOUS
<1>4. PICK f : f = call.filled
  OBVIOUS
<1>5. cl \in CallType /\ Told(cl) /\ f \in Nat
  BY <1>2, <1>3, <1>4
<1>6. CASE quiet /\ UNCHANGED <<book, by_client_, live_>> /\ send_exec(call, 0, submit_status(TRUE, FALSE))
  <2>1. send_exec(cl, 0, "Rejected") /\ "Rejected" \in Status
    BY <1>3, <1>6 DEF submit_status, Status
  <2>2. AnswerTrue(cl, 0, "Rejected")
    BY <1>1, <1>3, <1>6 DEF AnswerTrue, quiet
  <2>3. /\ Views' /\ Mirrors({})'
        /\ book' \in [DOMAIN book' -> Order] /\ DOMAIN book' \subseteq 1 .. last_'
        /\ live_' \in [DOMAIN live_' -> LiveOrder] /\ DOMAIN live_' \subseteq 1 .. last_'
        /\ \A x \in DOMAIN live_' : x \in DOMAIN live_ /\ live_'[x].owner = live_[x].owner
    BY <1>1, <1>6, NotRested
  <2> QED
    BY <1>1, <1>2, <1>5, <2>1, <2>2, <2>3, 0 \in Nat, Answered
<1>7. CASE engine_rests /\ send_exec(call, call.filled, submit_status(FALSE, TRUE))
  <2>1. PICK st : st = submit_status(FALSE, TRUE)
    OBVIOUS
  <2>2. send_exec(cl, f, st)
    BY <1>3, <1>4, <1>7, <2>1
  <2>3. st \in {"PartialRest", "Accepted"}
    BY <1>2, <1>7, <2>1 DEF submit_status, engine_rests
  <2>4. /\ Views' /\ Mirrors({})' /\ Rests(call) /\ book'[call.id].qty = call.want - call.filled
        /\ book' \in [DOMAIN book' -> Order] /\ DOMAIN book' \subseteq 1 .. last_'
        /\ live_' \in [DOMAIN live_' -> LiveOrder] /\ DOMAIN live_' \subseteq 1 .. last_'
        /\ \A x \in DOMAIN live_' :
              \/ live_'[x].owner = c.owner
              \/ x \in DOMAIN live_ /\ live_'[x].owner = live_[x].owner
    BY <1>1, <1>7, Rested
  <2>5. AnswerTrue(cl, f, st) /\ st \in Status
    BY <1>3, <1>4, <2>3, <2>4 DEF AnswerTrue, Status
  <2> QED
    BY <1>1, <1>2, <1>5, <2>2, <2>4, <2>5, Answered
<1>8. CASE /\ accepted /\ UNCHANGED <<book, by_client_, live_>>
           /\ send_exec(call, call.filled, submit_status(FALSE, FALSE))
  <2>1. PICK st : st = submit_status(FALSE, FALSE)
    OBVIOUS
  <2>2. send_exec(cl, f, st)
    BY <1>3, <1>4, <1>8, <2>1
  <2>3. /\ st \in {"Filled", "PartialDone", "Canceled"} /\ (st = "Filled" => call.filled = call.want)
        /\ st = "PartialDone" => 0 < call.filled /\ call.filled < call.want
    BY <1>2, <2>1 DEF submit_status
  <2>4. /\ Views' /\ Mirrors({})' /\ call.id \notin DOMAIN book'
        /\ book' \in [DOMAIN book' -> Order] /\ DOMAIN book' \subseteq 1 .. last_'
        /\ live_' \in [DOMAIN live_' -> LiveOrder] /\ DOMAIN live_' \subseteq 1 .. last_'
        /\ \A x \in DOMAIN live_' : x \in DOMAIN live_ /\ live_'[x].owner = live_[x].owner
    BY <1>1, <1>8, NotRested
  <2>5. AnswerTrue(cl, f, st) /\ st \in Status
    BY <1>3, <1>4, <2>3, <2>4 DEF AnswerTrue, Status
  <2> QED
    BY <1>1, <1>2, <1>5, <2>2, <2>4, <2>5, Answered
<1> QED
  BY <1>6, <1>7, <1>8 DEF NewOrderReturns

LEMMA Step_MarketReturns == IInv /\ MarketReturns /\ UNCHANGED stp_ => IInv'
<1> SUFFICES ASSUME IInv, MarketReturns, UNCHANGED stp_ PROVE IInv'
  OBVIOUS
<1>1. PICK st : st = IF call.id = 0 THEN "Rejected"
                     ELSE IF call.filled = call.want THEN "Filled"
                     ELSE IF call.filled > 0 THEN "PartialDone" ELSE "Canceled"
  OBVIOUS
<1>2. /\ pc = "call" /\ call.kind = "market" /\ publish_book /\ send_exec(call, call.filled, st)
      /\ UNCHANGED <<last_, taker_side_, trade_msg>> /\ UNCHANGED loop /\ call.kind # "modify"
      /\ UNCHANGED <<last_, book, by_client_, live_>>
  BY <1>1 DEF MarketReturns, ids
<1>3. /\ call \in CallType /\ Told(call) /\ taker_side_' \in Side
      /\ call.filled \in Nat /\ call.want \in Nat /\ call.filled <= call.want
      /\ ~accepted => quiet
  BY <1>2, CallTyped
<1>4. PICK cl : cl = call
  OBVIOUS
<1>5. PICK f : f = call.filled
  OBVIOUS
<1>6. cl \in CallType /\ Told(cl) /\ f \in Nat /\ send_exec(cl, f, st)
  BY <1>2, <1>3, <1>4, <1>5
<1>7. /\ st \in {"Rejected", "Filled", "PartialDone", "Canceled"} /\ (st = "Filled" => call.filled = call.want)
      /\ st = "PartialDone" => 0 < call.filled /\ call.filled < call.want
      /\ st = "Rejected" => call.filled = 0 /\ call.killed = {}
  BY <1>1, <1>3 DEF accepted, quiet
<1>8. /\ Views' /\ Mirrors({})' /\ call.id \notin DOMAIN book'
      /\ book' \in [DOMAIN book' -> Order] /\ DOMAIN book' \subseteq 1 .. last_'
      /\ live_' \in [DOMAIN live_' -> LiveOrder] /\ DOMAIN live_' \subseteq 1 .. last_'
      /\ \A x \in DOMAIN live_' : x \in DOMAIN live_ /\ live_'[x].owner = live_[x].owner
  BY <1>2, NotRested
<1>9. AnswerTrue(cl, f, st) /\ st \in Status
  BY <1>2, <1>4, <1>5, <1>7, <1>8 DEF AnswerTrue, Status
<1> QED
  BY <1>2, <1>3, <1>6, <1>8, <1>9, Answered

LEMMA Step_ModifyReturns == IInv /\ ModifyReturns /\ UNCHANGED stp_ => IInv'
<1> SUFFICES ASSUME IInv, ModifyReturns, UNCHANGED stp_ PROVE IInv'
  OBVIOUS
<1>1. /\ pc = "call" /\ call.kind = "modify" /\ publish_book
      /\ UNCHANGED <<last_, taker_side_, trade_msg>> /\ UNCHANGED loop
  BY DEF ModifyReturns
<1>2. /\ call \in CallType /\ Told(call) /\ taker_side_' \in Side
      /\ call.filled \in Nat /\ call.want \in Nat /\ call.filled <= call.want
  BY <1>1, CallTyped
<1>3. PICK cl : cl = call
  OBVIOUS
<1>4. PICK f : f = call.filled
  OBVIOUS
<1>5. cl \in CallType /\ Told(cl) /\ f \in Nat
  BY <1>2, <1>3, <1>4
<1>6. CASE engine_rests /\ send_exec(call, call.filled, "Replaced")
  <2>1. send_exec(cl, f, "Replaced")
    BY <1>3, <1>4, <1>6
  <2>2. /\ Views' /\ Mirrors({})' /\ Rests(call) /\ book'[call.id].qty = call.want - call.filled
        /\ book' \in [DOMAIN book' -> Order] /\ DOMAIN book' \subseteq 1 .. last_'
        /\ live_' \in [DOMAIN live_' -> LiveOrder] /\ DOMAIN live_' \subseteq 1 .. last_'
        /\ \A x \in DOMAIN live_' :
              \/ live_'[x].owner = c.owner
              \/ x \in DOMAIN live_ /\ live_'[x].owner = live_[x].owner
    BY <1>1, <1>6, Rested
  <2>3. AnswerTrue(cl, f, "Replaced") /\ "Replaced" \in Status
    BY <1>3, <1>4, <2>2 DEF AnswerTrue, Status
  <2> QED
    BY <1>1, <1>2, <1>5, <2>1, <2>2, <2>3, Answered
<1>7. CASE forget({call.id}) /\ UNCHANGED book /\ send_exec(call, call.filled, reprice_status)
  <2>1. PICK st : st = reprice_status
    OBVIOUS
  <2>2. PICK id : id = call.id
    OBVIOUS
  <2>3. send_exec(cl, f, st) /\ forget({id})
    BY <1>3, <1>4, <1>7, <2>1, <2>2
  <2>4. /\ st \in {"Filled", "PartialDone", "Canceled"} /\ (st = "Filled" => call.filled = call.want)
        /\ st = "PartialDone" => 0 < call.filled /\ call.filled < call.want
    BY <1>2, <2>1 DEF reprice_status
  <2>5. Typed /\ Views /\ Mirrors({id}) /\ id \notin DOMAIN book
    BY <1>1, <2>2, CallFacts
  <2>6. book' = drop(book, {id})
    BY <1>7, <2>5 DEF drop, Typed
  <2>7. /\ Views' /\ Mirrors({id})'
        /\ book' \in [DOMAIN book' -> Order] /\ DOMAIN book' = DOMAIN book \ {id}
        /\ DOMAIN book' \subseteq 1 .. last_'
        /\ live_' \in [DOMAIN live_' -> LiveOrder] /\ DOMAIN live_' = DOMAIN live_ \ {id}
        /\ DOMAIN live_' \subseteq 1 .. last_'
        /\ \A x \in DOMAIN live_ \ {id} : live_'[x] = live_[x]
    BY <1>1, <2>3, <2>5, <2>6, DropOrders
  <2>8. Mirrors({})'
    BY <2>7 DEF Mirrors
  <2>9. \A x \in DOMAIN live_' : x \in DOMAIN live_ /\ live_'[x].owner = live_[x].owner
    BY <2>7
  <2>10. AnswerTrue(cl, f, st) /\ st \in Status
    BY <1>3, <1>4, <2>2, <2>4, <2>7 DEF AnswerTrue, Status
  <2> QED
    BY <1>1, <1>2, <1>5, <2>3, <2>7, <2>8, <2>9, <2>10, Answered
<1> QED
  BY <1>6, <1>7 DEF ModifyReturns

-----------------------------------------------------------------------------
(* The invariant *)

LEMMA InitIInv == Init => IInv
<1> SUFFICES ASSUME Init PROVE IInv
  OBVIOUS
<1>1. NoCall \in CallType
  BY DEF NoCall, CallType, Side
<1>2. Typed
  BY <1>1, BoundAssumption DEF Init, Typed, Side
<1>3. OwnersDistinct /\ IndexSound /\ KeysSound /\ OwnersOpen /\ CallSound
  BY DEF Init, OwnersDistinct, IndexSound, KeysSound, OwnersOpen, CallSound
<1>4. MirrorExact
  BY DEF Init, MirrorExact
<1>5. ToldSound /\ ReportsTrue
  BY DEF Init, ToldSound, FeedTrue, ReportsTrue
<1> QED
  BY <1>2, <1>3, <1>4, <1>5 DEF IInv

LEMMA Stutter == IInv /\ UNCHANGED vars => IInv'
<1> SUFFICES ASSUME IInv, UNCHANGED vars PROVE IInv'
  OBVIOUS
<1>1. UNCHANGED <<stp_, book, last_, by_client_, live_, taker_side_, snapshot, conns, next_owner, at, polled,
                  pc, call, reports, trade_msg>>
  BY DEF vars, ids, loop
<1>2. c' = c /\ answer' = answer /\ own_live' = own_live /\ accepted' = accepted /\ quiet' = quiet
  BY <1>1 DEF c, answer, own_live, find, accepted, quiet
<1>3. Typed' /\ OwnersDistinct' /\ IndexSound' /\ KeysSound' /\ OwnersOpen'
  BY <1>1 DEF IInv, Typed, OwnersDistinct, IndexSound, KeysSound, OwnersOpen
<1>4. MirrorExact'
  BY <1>1 DEF IInv, MirrorExact, find
<1>5. CallSound' /\ ToldSound' /\ ReportsTrue'
  BY <1>1, <1>2 DEF IInv, CallSound, ToldSound, FeedTrue, ReportsTrue
<1> QED
  BY <1>3, <1>4, <1>5 DEF IInv

\* Every step of the gateway keeps the invariant.
LEMMA Inductive == IInv /\ [Next]_vars => IInv'
<1> SUFFICES ASSUME IInv, [Next]_vars PROVE IInv'
  OBVIOUS
<1>1. CASE UNCHANGED vars
  BY <1>1, Stutter
<1>2. ASSUME Next PROVE IInv'
  <2>1. UNCHANGED stp_ /\ (Poll \/ Work)
    BY <1>2 DEF Next
  <2>2. CASE Frame
    BY <2>1, <2>2, Step_submit, Step_Cancel, Step_Modify DEF Frame
  <2>3. CASE Engine
    BY <2>1, <2>3, Step_Trade, Step_Kill, Step_NewOrderReturns, Step_MarketReturns, Step_ModifyReturns DEF Engine
  <2>4. CASE Poll \/ Drop \/ Drained \/ NextFrame \/ Flush \/ Served \/ Reap \/ Reaped
    BY <2>1, <2>4, Step_Poll, Step_Drop, Step_Drained, Step_NextFrame, Step_Flush, Step_Served,
       Step_Reap, Step_Reaped
  <2> QED
    BY <2>1, <2>2, <2>3, <2>4 DEF Work
<1> QED
  BY <1>1, <1>2

\* The gateway's invariant holds of every behaviour of the poll loop.
THEOREM Invariance == Spec => []IInv
<1>1. Init => IInv
  BY InitIInv
<1>2. IInv /\ [Next]_vars => IInv'
  BY Inductive
<1> QED
  BY <1>1, <1>2, PTL DEF Spec

\* OrderIds mirrors the book in every reachable state: "an entry lives exactly
\* as long as its order rests".
THEOREM GatewayMirrorExact == Spec => []MirrorExact
<1>1. IInv => MirrorExact
  BY DEF IInv
<1> QED
  BY <1>1, Invariance, PTL

\* handle_frame answers every frame once, truthfully, after one report for each
\* order that the self-trade policy killed.
THEOREM GatewayReportsTrue == Spec => []ReportsTrue
<1>1. IInv => ReportsTrue
  BY DEF IInv
<1> QED
  BY <1>1, Invariance, PTL

\* FeedPublisher: trades carry the taker's side, and the last Book message
\* shows the book whenever the loop is not inside the engine.
THEOREM GatewayFeedTrue == Spec => []FeedTrue
<1>1. IInv => FeedTrue
  BY DEF IInv, ToldSound
<1> QED
  BY <1>1, Invariance, PTL

\* cancel_on_disconnect runs before a connection is closed: no resting order
\* outlives its connection.
THEOREM GatewayNoOrphans == Spec => []NoOrphans
<1>1. ASSUME IInv PROVE NoOrphans
  <2> SUFFICES ASSUME NEW x \in DOMAIN book
               PROVE  \E y \in DOMAIN conns :
                         conns[y].owner = book[x].owner /\ (pc = "poll" => ~conns[y].dead)
    BY DEF NoOrphans
  <2>1. Mirrors(moving) /\ OwnersOpen /\ IndexSound
    BY <1>1, MirrorParts DEF IInv
  <2>2. x \notin moving
    BY <1>1 DEF IInv, CallSound, moving
  <2>3. x \in DOMAIN live_ /\ live_[x].owner = book[x].owner
    BY <2>1, <2>2 DEF Mirrors
  <2>4. PICK y \in DOMAIN conns : conns[y].owner = live_[x].owner
    BY <2>1, <2>3 DEF OwnersOpen
  <2>5. pc = "poll" => ~conns[y].dead
    BY <2>1 DEF IndexSound
  <2> QED
    BY <2>3, <2>4, <2>5
<1> QED
  BY <1>1, Invariance, PTL

-----------------------------------------------------------------------------
(* Whose orders a step touches *)

\* The order a client's cancel or modify finds is the client's own.
LEMMA FoundIsOwn ==
    ASSUME IInv, serving, NEW k, find(c.owner, k) \in DOMAIN book
    PROVE  book[find(c.owner, k)].owner = c.owner
<1>1. Typed /\ Views /\ Mirrors({}) /\ DOMAIN live_ = DOMAIN book
  BY ServeFacts
<1>2. find(c.owner, k) # 0
  BY <1>1 DEF Typed
<1>3. live_[find(c.owner, k)].owner = c.owner
  BY <1>1, <1>2, FindFacts
<1> QED
  BY <1>1, <1>3 DEF Mirrors

LEMMA OwnStep == IInv /\ Next => ForeignStep
<1> SUFFICES ASSUME IInv, Next, NEW x \in DOMAIN book
             PROVE  \/ x \in DOMAIN book' /\ book'[x] = book[x]
                    \/ book[x].owner = c.owner
                    \/ pc = "call" /\ x # call.id /\ call'.filled > call.filled
  BY DEF ForeignStep
<1>1. CASE book' = book
  BY <1>1
<1>2. ASSUME NEW client \in ClientId \cup {0}, Cancel(client) PROVE book[x].owner = c.owner \/ (x \in DOMAIN book' /\ book'[x] = book[x])
  BY <1>2, FoundIsOwn DEF Cancel, drop
<1>3. ASSUME NEW client \in ClientId \cup {0}, NEW qty \in Qty, Modify(client, qty)
      PROVE  book[x].owner = c.owner \/ (x \in DOMAIN book' /\ book'[x] = book[x])
  <2>1. PICK id : id = find(c.owner, client)
    OBVIOUS
  <2>2. /\ serving
        /\ \/ book' = book
           \/ id \in DOMAIN book /\ book' = [book EXCEPT ![id].qty = qty]
           \/ id \in DOMAIN book /\ book' = drop(book, {id})
    BY <1>3, <2>1 DEF Modify
  <2>3. id \in DOMAIN book => book[id].owner = c.owner
    BY <2>1, <2>2, FoundIsOwn
  <2>4. CASE x = id
    BY <2>3, <2>4
  <2>5. CASE x # id
    BY <2>2, <2>5 DEF drop
  <2> QED
    BY <2>4, <2>5
<1>4. ASSUME NEW m \in DOMAIN book, Trade(m)
      PROVE  \/ x \in DOMAIN book' /\ book'[x] = book[x]
             \/ pc = "call" /\ x # call.id /\ call'.filled > call.filled
  <2>1. PICK id : id = call.id
    OBVIOUS
  <2>2. PICK take : take = IF book[m].qty <= call.want - call.filled THEN book[m].qty
                           ELSE call.want - call.filled
    OBVIOUS
  <2>3. /\ pc = "call" /\ call.filled < call.want /\ call' = [call EXCEPT !.filled = @ + take]
        /\ book' = IF take = book[m].qty THEN drop(book, {m}) ELSE [book EXCEPT ![m].qty = @ - take]
    BY <1>4, <2>2 DEF Trade, matching
  <2>4. Typed /\ call \in CallType /\ id \notin DOMAIN book
    BY <2>1, <2>3, CallFacts
  <2>5. book[m].qty \in Nat \ {0} /\ call.want \in Nat /\ call.filled \in Nat
    <3>1. book[m] \in Order
      BY <2>4 DEF Typed
    <3> QED
      BY <2>4, <3>1 DEF Order, CallType
  <2>6. take \in Nat \ {0}
    BY <2>2, <2>3, <2>5
  <2>7. call'.filled = call.filled + take
    BY <2>3, <2>4 DEF CallType
  <2> QED
    BY <2>1, <2>3, <2>4, <2>5, <2>6, <2>7
<1>5. ASSUME NEW m \in DOMAIN book, Kill(m) PROVE book[x].owner = c.owner \/ (x \in DOMAIN book' /\ book'[x] = book[x])
  BY <1>5 DEF Kill, drop
<1>6. ASSUME NewOrderReturns \/ ModifyReturns PROVE x \in DOMAIN book' /\ book'[x] = book[x]
  <2>1. pc = "call" /\ (engine_rests \/ book' = book)
    BY <1>6 DEF NewOrderReturns, ModifyReturns
  <2>2. call.id \notin DOMAIN book
    BY <2>1 DEF IInv, CallSound
  <2> QED
    BY <2>1, <2>2 DEF engine_rests, put
<1>7. ASSUME Reap PROVE book[x].owner = c.owner \/ (x \in DOMAIN book' /\ book'[x] = book[x])
  <2>1. pc = "reap" /\ (book' = book \/ book' = drop(book, owned_by(c.owner)))
    BY <1>7 DEF Reap
  <2>2. Mirrors({}) /\ Views
    BY <2>1, MirrorParts DEF IInv, Views, moving
  <2>3. x \in owned_by(c.owner) => book[x].owner = c.owner
    BY <2>2, OwnedBy DEF Mirrors
  <2> QED
    BY <2>1, <2>3 DEF drop
<1>8. CASE Frame
  <2>1. CASE \E kind \in {"limit", "market"}, client \in ClientId \cup {0}, side \in Side, qty \in Qty :
                submit(kind, client, side, qty)
    BY <1>1, <2>1 DEF submit
  <2> QED
    BY <1>2, <1>3, <1>8, <2>1 DEF Frame
<1>9. CASE Engine
  <2>1. CASE MarketReturns
    BY <1>1, <2>1 DEF MarketReturns
  <2> QED
    BY <1>4, <1>5, <1>6, <1>9, <2>1 DEF Engine
<1>10. CASE Poll \/ Drop \/ Drained \/ NextFrame \/ Flush \/ Served \/ Reaped
  BY <1>1, <1>10 DEF Poll, Drop, Drained, NextFrame, Flush, Served, Reaped
<1> QED
  BY <1>7, <1>8, <1>9, <1>10 DEF Next, Work

\* "A client can cancel or amend only its own orders": find looks client ids up
\* under their owner, so nobody else's order changes but by a trade.
THEOREM GatewayOnlyOwnOrders == Spec => OnlyOwnOrders
<1>1. IInv /\ [Next]_vars => [ForeignStep]_vars
  BY OwnStep
<1> QED
  BY <1>1, Invariance, PTL DEF Spec, OnlyOwnOrders

-----------------------------------------------------------------------------
(* An iteration of the loop ends *)

\* The components of left_of_iteration, of a program counter p, a loop index i
\* and count n, a served connection d, an engine call cl and a book b.
phase(p) == CASE p = "poll" -> 0 [] p = "reap" -> 1 [] OTHER -> 2
ahead(p, i, n) == IF p = "reap" THEN i ELSE n + 1 - i
room(p, i, n, d) ==
    IF (p \in {"serve", "call", "handled"} /\ i <= n) /\ ~d.dead THEN kMaxOutbox + 1 - d.outbox ELSE 0
stage(p, d) ==
    CASE p = "serve" -> 3 [] p = "call" -> 2 [] p = "handled" -> (IF d.dead THEN 1 ELSE 4) [] OTHER -> 0
todo(p, cl, b) == IF p = "call" THEN cl.want - cl.filled + Cardinality(DOMAIN b) ELSE 0

\* The lexicographic order, component by component.
LEMMA BeforeTuples ==
    ASSUME NEW a1, NEW a2, NEW a3, NEW a4, NEW a5, NEW b1, NEW b2, NEW b3, NEW b4, NEW b5,
           \/ a1 \in 0 .. (b1 - 1)
           \/ a1 = b1 /\ a2 \in 0 .. (b2 - 1)
           \/ a1 = b1 /\ a2 = b2 /\ a3 \in 0 .. (b3 - 1)
           \/ a1 = b1 /\ a2 = b2 /\ a3 = b3 /\ a4 \in 0 .. (b4 - 1)
           \/ a1 = b1 /\ a2 = b2 /\ a3 = b3 /\ a4 = b4 /\ a5 \in 0 .. (b5 - 1)
    PROVE  before(<<a1, a2, a3, a4, a5>>, <<b1, b2, b3, b4, b5>>)
<1> DEFINE a == <<a1, a2, a3, a4, a5>>
           b == <<b1, b2, b3, b4, b5>>
<1>1. DOMAIN a = 1 .. 5
  OBVIOUS
<1>2. ASSUME NEW n \in 1 .. 5, a[n] \in 0 .. (b[n] - 1), \A m \in 1 .. (n - 1) : a[m] = b[m]
      PROVE  before(a, b)
  BY <1>1, <1>2 DEF before
<1> HIDE DEF before
<1>3. CASE a1 \in 0 .. (b1 - 1)
  BY <1>3, <1>2, 1 \in 1 .. 5
<1>4. CASE a1 = b1 /\ a2 \in 0 .. (b2 - 1)
  BY <1>4, <1>2, 2 \in 1 .. 5
<1>5. CASE a1 = b1 /\ a2 = b2 /\ a3 \in 0 .. (b3 - 1)
  BY <1>5, <1>2, 3 \in 1 .. 5
<1>6. CASE a1 = b1 /\ a2 = b2 /\ a3 = b3 /\ a4 \in 0 .. (b4 - 1)
  BY <1>6, <1>2, 4 \in 1 .. 5
<1>7. CASE a1 = b1 /\ a2 = b2 /\ a3 = b3 /\ a4 = b4 /\ a5 \in 0 .. (b5 - 1)
  BY <1>7, <1>2, 5 \in 1 .. 5
<1> QED
  BY <1>3, <1>4, <1>5, <1>6, <1>7

\* A step leaves less of the iteration if one component shrinks and those
\* before it stay.
LEMMA LessLeft ==
    ASSUME \/ phase(pc') \in 0 .. (phase(pc) - 1)
           \/ phase(pc') = phase(pc) /\ ahead(pc', at', polled') \in 0 .. (ahead(pc, at, polled) - 1)
           \/ /\ phase(pc') = phase(pc) /\ ahead(pc', at', polled') = ahead(pc, at, polled)
              /\ room(pc', at', polled', c') \in 0 .. (room(pc, at, polled, c) - 1)
           \/ /\ phase(pc') = phase(pc) /\ ahead(pc', at', polled') = ahead(pc, at, polled)
              /\ room(pc', at', polled', c') = room(pc, at, polled, c)
              /\ stage(pc', c') \in 0 .. (stage(pc, c) - 1)
           \/ /\ phase(pc') = phase(pc) /\ ahead(pc', at', polled') = ahead(pc, at, polled)
              /\ room(pc', at', polled', c') = room(pc, at, polled, c) /\ stage(pc', c') = stage(pc, c)
              /\ todo(pc', call', book') \in 0 .. (todo(pc, call, book) - 1)
    PROVE  before(left_of_iteration', left_of_iteration)
<1>1. left_of_iteration = <<phase(pc), ahead(pc, at, polled), room(pc, at, polled, c), stage(pc, c),
                            todo(pc, call, book)>>
  BY Zenon DEF left_of_iteration, phase, ahead, room, stage, todo, serving_c
<1>2. left_of_iteration' = <<phase(pc'), ahead(pc', at', polled'), room(pc', at', polled', c'), stage(pc', c'),
                             todo(pc', call', book')>>
  BY Zenon DEF left_of_iteration, phase, ahead, room, stage, todo, serving_c
<1> QED
  BY <1>1, <1>2, BeforeTuples

LEMMA StageValues ==
    /\ phase("poll") = 0 /\ phase("reap") = 1 /\ phase("serve") = 2 /\ phase("call") = 2
    /\ phase("handled") = 2 /\ phase("flush") = 2
    /\ \A d : /\ stage("serve", d) = 3 /\ stage("call", d) = 2 /\ stage("flush", d) = 0
              /\ d.dead => stage("handled", d) = 1
              /\ ~d.dead => stage("handled", d) = 4
  BY DEF phase, stage

\* Room in the outbox: at least the report that would drop the connection.
LEMMA RoomValues ==
    ASSUME NEW p \in {"serve", "call", "handled"}, NEW i \in Nat, NEW n \in Nat, i <= n, NEW d \in Conn
    PROVE  /\ d.dead => room(p, i, n, d) = 0
           /\ ~d.dead => room(p, i, n, d) = kMaxOutbox + 1 - d.outbox /\ room(p, i, n, d) \in Nat \ {0}
           /\ ~d.dead => room(p, i, n, queue_send(d)) \in 0 .. (kMaxOutbox - d.outbox)
           /\ d.dead => room(p, i, n, queue_send(d)) = 0
<1>1. d.outbox \in 0 .. kMaxOutbox /\ kMaxOutbox \in Nat
  BY BoundAssumption DEF Conn
<1>2. /\ queue_send(d) \in Conn /\ (d.dead => queue_send(d).dead)
      /\ ~queue_send(d).dead => queue_send(d).outbox = d.outbox + 1
  BY QueueSendFacts
<1>3. queue_send(d).outbox \in 0 .. kMaxOutbox
  BY <1>2 DEF Conn
<1> QED
  BY <1>1, <1>2, <1>3 DEF room

LEMMA ServingFacts ==
    ASSUME IInv, serving \/ pc \in {"call", "handled", "flush"}
    PROVE  /\ pc \in {"serve", "call", "handled", "flush"} /\ at \in Nat /\ polled \in Nat /\ at <= polled
           /\ at \in DOMAIN conns /\ c \in Conn /\ c = conns[at] /\ conns \in Seq(Conn)
<1>1. Typed /\ IndexSound
  BY DEF IInv
<1>2. at \in DOMAIN conns /\ c \in Conn /\ c = conns[at]
  BY <1>1, ServedConn
<1>3. pc \in {"serve", "call", "handled", "flush"} /\ at \in Nat /\ polled \in Nat /\ at <= polled
  BY <1>1 DEF Typed, IndexSound, serving
<1> QED
  BY <1>1, <1>2, <1>3 DEF Typed

\* A report to the served connection takes room in its outbox, or drops it.
LEMMA ReportedLess ==
    ASSUME IInv, serving \/ pc = "call", pc' \in {"call", "handled"}, UNCHANGED loop, ~c.dead,
           conns' = [conns EXCEPT ![at] = queue_send(@)]
    PROVE  before(left_of_iteration', left_of_iteration)
<1>1. /\ pc \in {"serve", "call"} /\ at \in Nat /\ polled \in Nat /\ at <= polled
      /\ at \in DOMAIN conns /\ c \in Conn /\ c = conns[at] /\ conns \in Seq(Conn)
  BY ServingFacts DEF serving
<1>2. c' = queue_send(c) /\ at' = at /\ polled' = polled
  BY <1>1 DEF c, loop
<1>3. /\ room(pc, at, polled, c) = kMaxOutbox + 1 - c.outbox
      /\ room(pc', at, polled, queue_send(c)) \in 0 .. (kMaxOutbox - c.outbox)
  <2>1. pc \in {"serve", "call", "handled"} /\ pc' \in {"serve", "call", "handled"}
    BY <1>1
  <2>2. room(pc, at, polled, c) = kMaxOutbox + 1 - c.outbox
    BY <1>1, <2>1, RoomValues
  <2>3. room(pc', at, polled, queue_send(c)) \in 0 .. (kMaxOutbox - c.outbox)
    BY <1>1, <2>1, RoomValues
  <2> QED
    BY <2>2, <2>3
<1>4. room(pc', at', polled', c') \in 0 .. (room(pc, at, polled, c) - 1)
  <2>1. (kMaxOutbox + 1 - c.outbox) - 1 = kMaxOutbox - c.outbox
    BY <1>1, BoundAssumption DEF Conn
  <2> QED
    BY <1>2, <1>3, <2>1
<1>5. phase(pc') = phase(pc)
  BY <1>1, StageValues
<1>6. ahead(pc', at', polled') = ahead(pc, at, polled)
  BY <1>1, <1>2 DEF ahead
<1> QED
  BY <1>4, <1>5, <1>6, LessLeft

\* The answer to a frame leaves less, also on a connection that is dead.
LEMMA AnsweredLess ==
    ASSUME IInv, serving \/ pc = "call", pc' = "handled", UNCHANGED loop,
           conns' = [conns EXCEPT ![at] = queue_send(@)]
    PROVE  before(left_of_iteration', left_of_iteration)
<1>1. CASE ~c.dead
  BY <1>1, ReportedLess
<1>2. CASE c.dead
  <2>1. /\ pc \in {"serve", "call"} /\ at \in Nat /\ polled \in Nat /\ at <= polled
        /\ at \in DOMAIN conns /\ c \in Conn /\ c = conns[at] /\ conns \in Seq(Conn)
    BY ServingFacts DEF serving
  <2>2. c' = queue_send(c) /\ at' = at /\ polled' = polled
    BY <2>1 DEF c, loop
  <2>3. room(pc, at, polled, c) = 0 /\ room(pc', at', polled', c') = 0
    BY <1>2, <2>1, <2>2, RoomValues
  <2>4. c'.dead
    BY <1>2, <2>1, <2>2, QueueSendFacts
  <2>5. phase(pc') = phase(pc) /\ stage(pc', c') = 1 /\ stage(pc, c) \in {2, 3}
    BY <2>1, <2>4, StageValues
  <2>6. ahead(pc', at', polled') = ahead(pc, at, polled)
    BY <2>1, <2>2 DEF ahead
  <2> QED
    BY <2>3, <2>5, <2>6, LessLeft
<1> QED
  BY <1>1, <1>2

\* A frame enters the engine.
LEMMA CalledLess ==
    ASSUME IInv, serving, pc' = "call", UNCHANGED loop, UNCHANGED conns
    PROVE  before(left_of_iteration', left_of_iteration)
<1>1. pc = "serve" /\ at' = at /\ polled' = polled /\ c' = c
  BY DEF serving, loop, c
<1>2. room(pc', at', polled', c') = room(pc, at, polled, c) /\ ahead(pc', at', polled') = ahead(pc, at, polled)
  BY <1>1 DEF room, ahead
<1>3. phase(pc') = phase(pc) /\ stage(pc', c') = 2 /\ stage(pc, c) = 3
  BY <1>1, StageValues
<1> QED
  BY <1>2, <1>3, LessLeft

\* The connection's turn is over.
LEMMA TurnOverLess ==
    ASSUME IInv, serving \/ (pc = "handled" /\ c.dead), pc' = "flush", UNCHANGED loop
    PROVE  before(left_of_iteration', left_of_iteration)
<1>1. /\ pc \in {"serve", "handled"} /\ at \in Nat /\ polled \in Nat /\ at <= polled /\ c \in Conn
  BY ServingFacts DEF serving
<1>2. at' = at /\ polled' = polled
  BY DEF loop
<1>3. room(pc', at', polled', c') = 0 /\ ahead(pc', at', polled') = ahead(pc, at, polled)
  BY <1>1, <1>2 DEF room, ahead
<1>4. phase(pc') = phase(pc) /\ stage(pc', c') = 0
  BY <1>1, StageValues
<1>5. stage(pc, c) \in {1, 3}
  BY StageValues DEF serving
<1>6. CASE ~c.dead
  <2>1. room(pc, at, polled, c) \in Nat \ {0}
    BY <1>1, <1>6, RoomValues
  <2>2. room(pc', at', polled', c') \in 0 .. (room(pc, at, polled, c) - 1)
    BY <1>3, <2>1
  <2> QED
    BY <1>3, <1>4, <2>2, LessLeft
<1>7. CASE c.dead
  <2>1. room(pc, at, polled, c) = 0
    BY <1>1, <1>7, RoomValues
  <2>2. stage(pc', c') \in 0 .. (stage(pc, c) - 1)
    BY <1>4, <1>5
  <2> QED
    BY <1>3, <1>4, <2>1, <2>2, LessLeft
<1> QED
  BY <1>6, <1>7

LEMMA NextFrameLess ==
    ASSUME IInv, NextFrame
    PROVE  before(left_of_iteration', left_of_iteration)
<1>1. pc = "handled" /\ UNCHANGED loop /\ at' = at /\ polled' = polled /\ conns' = conns /\ c' = c
  BY DEF NextFrame, loop, c
<1>2. CASE c.dead
  BY <1>1, <1>2, TurnOverLess DEF NextFrame
<1>3. CASE ~c.dead
  <2>1. pc' = "serve"
    BY <1>3 DEF NextFrame
  <2>2. room(pc', at', polled', c') = room(pc, at, polled, c) /\ ahead(pc', at', polled') = ahead(pc, at, polled)
    BY <1>1, <2>1 DEF room, ahead
  <2>3. phase(pc') = phase(pc) /\ stage(pc', c') = 3 /\ stage(pc, c) = 4
    BY <1>1, <1>3, <2>1, StageValues
  <2> QED
    BY <2>2, <2>3, LessLeft
<1> QED
  BY <1>2, <1>3

\* The loop moves on to the next connection, to the next phase, or back to poll().
LEMMA LoopLess ==
    ASSUME IInv, Flush \/ Served \/ Reap \/ Reaped
    PROVE  before(left_of_iteration', left_of_iteration)
<1>1. CASE Flush
  <2>1. pc = "flush" /\ pc' = "serve" /\ at' = at + 1 /\ polled' = polled
    BY <1>1 DEF Flush
  <2>2. at \in Nat /\ polled \in Nat /\ at <= polled
    BY <2>1, ServingFacts
  <2>3. ahead(pc', at', polled') \in 0 .. (ahead(pc, at, polled) - 1)
    BY <2>1, <2>2 DEF ahead
  <2>4. phase(pc') = phase(pc)
    BY <2>1, StageValues
  <2> QED
    BY <2>3, <2>4, LessLeft
<1>2. CASE Served
  <2>1. phase(pc') = 1 /\ phase(pc) = 2
    BY <1>2, StageValues DEF Served
  <2> QED
    BY <2>1, LessLeft
<1>3. CASE Reap
  <2>1. pc = "reap" /\ pc' = "reap" /\ at' = at - 1 /\ at > 0 /\ at \in Nat
    BY <1>3 DEF Reap, IInv, Typed
  <2>2. ahead(pc', at', polled') \in 0 .. (ahead(pc, at, polled) - 1)
    BY <2>1 DEF ahead
  <2> QED
    BY <2>1, <2>2, LessLeft
<1>4. CASE Reaped
  <2>1. phase(pc') = 0 /\ phase(pc) = 1
    BY <1>4, StageValues DEF Reaped
  <2> QED
    BY <2>1, LessLeft
<1> QED
  BY <1>1, <1>2, <1>3, <1>4

\* The engine has only so much to trade and so many orders to meet.
LEMMA EngineLess ==
    ASSUME IInv, NEW m \in DOMAIN book, Trade(m) \/ Kill(m)
    PROVE  before(left_of_iteration', left_of_iteration)
<1>1. /\ pc = "call" /\ pc' = "call" /\ call.filled < call.want /\ UNCHANGED loop
      /\ at' = at /\ polled' = polled
  BY DEF Trade, Kill, matching, loop
<1>2. PICK id : id = call.id
  OBVIOUS
<1>3. /\ Typed /\ call \in CallType /\ c \in Conn /\ at \in DOMAIN conns /\ OwnersDistinct
  BY <1>1, <1>2, CallFacts
<1>4. call.want \in Nat /\ call.filled \in Nat
  BY <1>3 DEF CallType
<1>5. IsFiniteSet(DOMAIN book)
  <2>1. last_ \in Nat /\ DOMAIN book \subseteq 1 .. last_
    BY <1>3 DEF Typed
  <2>2. IsFiniteSet(1 .. last_)
    BY <2>1, FS_Interval
  <2> QED
    BY <2>1, <2>2, FS_Subset
<1>6. /\ IsFiniteSet(DOMAIN book \ {m}) /\ Cardinality(DOMAIN book \ {m}) = Cardinality(DOMAIN book) - 1
      /\ Cardinality(DOMAIN book) \in Nat /\ Cardinality(DOMAIN book \ {m}) \in Nat
  BY <1>5, FS_RemoveElement, FS_CardinalityType
<1>7. phase(pc') = phase(pc) /\ stage(pc', c') = stage(pc, c) /\ ahead(pc', at', polled') = ahead(pc, at, polled)
  BY <1>1, StageValues DEF ahead
<1>8. CASE Trade(m)
  <2>1. PICK take : take = IF book[m].qty <= call.want - call.filled THEN book[m].qty
                           ELSE call.want - call.filled
    OBVIOUS
  <2>2. /\ call' = [call EXCEPT !.filled = @ + take] /\ UNCHANGED conns
        /\ book' = IF take = book[m].qty THEN drop(book, {m}) ELSE [book EXCEPT ![m].qty = @ - take]
    BY <1>8, <2>1 DEF Trade
  <2>3. book[m].qty \in Nat \ {0}
    <3>1. book[m] \in Order
      BY <1>3 DEF Typed
    <3> QED
      BY <3>1 DEF Order
  <2>4. take \in Nat \ {0} /\ call.filled + take <= call.want
    BY <1>1, <1>4, <2>1, <2>3
  <2>5. call'.filled = call.filled + take /\ call'.want = call.want
    BY <1>3, <2>2 DEF CallType
  <2>6. DOMAIN book' = DOMAIN book \/ DOMAIN book' = DOMAIN book \ {m}
    BY <2>2 DEF drop
  <2>7. Cardinality(DOMAIN book') \in Nat /\ Cardinality(DOMAIN book') <= Cardinality(DOMAIN book)
    BY <1>6, <2>6
  <2>8. todo(pc', call', book') \in 0 .. (todo(pc, call, book) - 1)
    BY <1>1, <1>4, <1>6, <2>4, <2>5, <2>7 DEF todo
  <2>9. room(pc', at', polled', c') = room(pc, at, polled, c)
    BY <1>1, <2>2 DEF c
  <2> QED
    BY <1>7, <2>8, <2>9, LessLeft
<1>9. CASE Kill(m)
  <2>1. /\ book' = drop(book, {m}) /\ kill_told(m) /\ book[m].owner = c.owner
        /\ call' = [call EXCEPT !.killed = @ \cup {live_[m].client}]
    BY <1>9 DEF Kill
  <2>2. listeners(book[m].owner) = IF c.dead THEN {} ELSE {at}
    BY <1>3, <2>1, Listeners
  <2>3. CASE ~c.dead
    <3>1. conns' = [conns EXCEPT ![at] = queue_send(@)]
      BY <2>1, <2>2, <2>3 DEF kill_told
    <3> QED
      BY <1>1, <2>3, <3>1, ReportedLess
  <2>4. CASE c.dead
    <3>1. UNCHANGED conns
      BY <2>1, <2>2, <2>4 DEF kill_told
    <3>2. room(pc', at', polled', c') = room(pc, at, polled, c)
      BY <1>1, <3>1 DEF c
    <3>3. call'.filled = call.filled /\ call'.want = call.want
      BY <1>3, <2>1 DEF CallType
    <3>4. DOMAIN book' = DOMAIN book \ {m}
      BY <2>1 DEF drop
    <3>5. todo(pc', call', book') \in 0 .. (todo(pc, call, book) - 1)
      BY <1>1, <1>4, <1>6, <3>3, <3>4 DEF todo
    <3> QED
      BY <1>7, <3>2, <3>5, LessLeft
  <2> QED
    BY <2>3, <2>4
<1> QED
  BY <1>8, <1>9

LEMMA WorkLess == IInv /\ Work => before(left_of_iteration', left_of_iteration)
<1> SUFFICES ASSUME IInv, Work PROVE before(left_of_iteration', left_of_iteration)
  OBVIOUS
<1>1. CASE \E kind \in {"limit", "market"}, client \in ClientId \cup {0}, side \in Side, qty \in Qty :
              submit(kind, client, side, qty)
  BY <1>1, CalledLess DEF submit
<1>2. ASSUME NEW client \in ClientId \cup {0}, Cancel(client) PROVE before(left_of_iteration', left_of_iteration)
  <2>1. serving /\ pc' = "handled" /\ UNCHANGED loop /\ conns' = [conns EXCEPT ![at] = queue_send(@)]
    BY <1>2 DEF Cancel, send_exec
  <2> QED
    BY <2>1, AnsweredLess
<1>3. ASSUME NEW client \in ClientId \cup {0}, NEW qty \in Qty, Modify(client, qty)
      PROVE  before(left_of_iteration', left_of_iteration)
  <2>1. /\ serving /\ UNCHANGED loop
        /\ \/ pc' = "handled" /\ conns' = [conns EXCEPT ![at] = queue_send(@)]
           \/ pc' = "call" /\ UNCHANGED conns
    BY <1>3 DEF Modify, send_exec
  <2> QED
    BY <2>1, AnsweredLess, CalledLess
<1>4. CASE NewOrderReturns \/ MarketReturns \/ ModifyReturns
  <2>1. pc = "call" /\ pc' = "handled" /\ UNCHANGED loop /\ conns' = [conns EXCEPT ![at] = queue_send(@)]
    BY <1>4 DEF NewOrderReturns, MarketReturns, ModifyReturns, send_exec
  <2> QED
    BY <2>1, AnsweredLess
<1>5. CASE Drop \/ Drained
  <2>1. serving /\ pc' = "flush" /\ UNCHANGED loop
    BY <1>5 DEF Drop, Drained
  <2> QED
    BY <2>1, TurnOverLess
<1>6. CASE Frame
  BY <1>1, <1>2, <1>3, <1>6 DEF Frame
<1>7. CASE Engine
  BY <1>4, <1>7, EngineLess DEF Engine
<1> QED
  BY <1>5, <1>6, <1>7, NextFrameLess, LoopLess DEF Work

\* The poll loop always comes back to poll(): every other step leaves less of
\* the iteration, by a measure in the natural numbers.
THEOREM GatewayIterationEnds == Spec => IterationEnds
<1>1. IInv /\ [Next]_vars => [pc # "poll" => before(left_of_iteration', left_of_iteration)]_vars
  BY WorkLess DEF Next, Poll
<1> QED
  BY <1>1, Invariance, PTL DEF Spec, IterationEnds
=============================================================================
