--------------------------- MODULE FramingProofs ---------------------------
(***************************************************************************)
(* Chunking does not matter: for every stream, every way it is cut into    *)
(* chunks and every buffer that holds one frame, FrameBuffer delivers the  *)
(* frames of the stream.  The inductive invariant ties the three places a  *)
(* byte can be in to the stream: behind the last frame delivered come the  *)
(* unread bytes of the buffer and then the rest of the chunk, nothing      *)
(* missing and nothing twice.                                              *)
(***************************************************************************)
EXTENDS Framing, SequenceTheorems, TLAPS

Typed ==
    /\ buf_ \in Seq(Byte) /\ data \in Seq(Byte) /\ sent \in Seq(Byte) /\ out \in Seq(Seq(Byte))
    /\ pos \in 0 .. Len(buf_) /\ Len(buf_) <= kCapacity
    /\ poisoned_ \in BOOLEAN /\ ok \in BOOLEAN /\ pc \in {"idle", "feed", "drain"}

\* No whole frame and no bad length is in the buffer.
drained == unread >= kHeaderLen => ~bad_len(len) /\ unread < kHeaderLen + len

Control ==
    /\ ok = ~poisoned_ /\ (poisoned_ => pc = "idle")
    /\ pc # "drain" => pos = 0
    /\ pc # "drain" /\ ~poisoned_ => drained
    /\ pc = "idle" => data = << >>

\* The buffer and the rest of the chunk are what the stream has after its
\* first e bytes, of which the buffer still holds the last pos.
Follows(e) ==
    /\ e - pos + Len(buf_) + Len(data) = Len(sent) /\ e >= pos
    /\ \A x \in 1 .. Len(buf_) : buf_[x] = sent[e - pos + x]
    /\ \A x \in 1 .. Len(data) : data[x] = sent[e - pos + Len(buf_) + x]

\* The stream up to byte e has been delivered.
Delivered(e) ==
    \E cut \in [0 .. Len(out) -> 0 .. Len(sent)] :
        framed(sent, out, cut) /\ cut[Len(out)] = e

StreamSound ==
    \E e \in 0 .. Len(sent) :
        /\ Delivered(e)
        /\ IF poisoned_ THEN bad_at(sent, e) ELSE Follows(e)

IInv == Typed /\ Control /\ StreamSound

-----------------------------------------------------------------------------
(* Streams *)

\* The length in a header is a number.
LEMMA LenIsNat ==
    ASSUME NEW s \in Seq(Byte), NEW p \in Nat, header_at(s, p)
    PROVE  u16(s, p + 1) \in Nat
<1>1. p + 1 \in 1 .. Len(s) /\ p + 1 + 1 \in 1 .. Len(s)
  BY DEF header_at, kHeaderLen
<1>2. s[p + 1] \in Nat /\ s[p + 1 + 1] \in Nat /\ Radix \in Nat
  <2>1. s[p + 1] \in Byte /\ s[p + 1 + 1] \in Byte
    BY <1>1
  <2>2. \A x \in Byte : x \in Nat
    BY ByteAssumption
  <2> QED
    BY <2>1, <2>2, ByteAssumption
<1>3. \A a, b, c \in Nat : a + b * c \in Nat
  OBVIOUS
<1> QED
  BY <1>2, <1>3 DEF u16

\* Pieces of two streams that agree byte by byte are the same piece.
LEMMA PiecesAgree ==
    ASSUME NEW s \in Seq(Byte), NEW t \in Seq(Byte),
           NEW a \in Nat, NEW b \in Nat, NEW n \in Nat,
           a + n <= Len(s), b + n <= Len(t),
           \A x \in 1 .. n : s[a + x] = t[b + x]
    PROVE  SubSeq(s, a + 1, a + n) = SubSeq(t, b + 1, b + n) /\ SubSeq(s, a + 1, a + n) \in Seq(Byte)
<1> DEFINE u == SubSeq(s, a + 1, a + n)
           v == SubSeq(t, b + 1, b + n)
<1>1. u \in Seq(Byte) /\ Len(u) = n /\ \A x \in 1 .. n : u[x] = s[a + x]
  OBVIOUS
<1>2. v \in Seq(Byte) /\ Len(v) = n /\ \A x \in 1 .. n : v[x] = t[b + x]
  OBVIOUS
<1> HIDE DEF u, v
<1>3. u = v
  BY <1>1, <1>2, SeqEqual
<1> QED
  BY <1>1, <1>3 DEF u, v

\* A frame that is whole, and a bad length, are so in every longer stream.
LEMMA LongerStream ==
    ASSUME NEW s \in Seq(Byte), NEW t \in Seq(Byte), Len(s) <= Len(t),
           \A x \in 1 .. Len(s) : t[x] = s[x], NEW p \in Nat
    PROVE  /\ header_at(s, p) => header_at(t, p) /\ u16(t, p + 1) = u16(s, p + 1)
           /\ bad_at(s, p) => bad_at(t, p)
           /\ whole_at(s, p) => whole_at(t, p)
<1>1. ASSUME header_at(s, p) PROVE header_at(t, p) /\ u16(t, p + 1) = u16(s, p + 1)
  <2>1. p + 1 \in 1 .. Len(s) /\ p + 1 + 1 \in 1 .. Len(s) /\ header_at(t, p)
    BY <1>1 DEF header_at, kHeaderLen
  <2> QED
    BY <2>1 DEF u16
<1>2. bad_at(s, p) => bad_at(t, p)
  BY <1>1 DEF bad_at
<1>3. ASSUME whole_at(s, p) PROVE whole_at(t, p)
  <2>1. header_at(s, p) /\ ~bad_at(s, p) /\ p + kHeaderLen + u16(s, p + 1) <= Len(s)
    BY <1>3 DEF whole_at
  <2>2. u16(s, p + 1) \in Nat
    BY <2>1, LenIsNat
  <2>3. header_at(t, p) /\ u16(t, p + 1) = u16(s, p + 1) /\ ~bad_at(t, p)
    BY <1>1, <2>1 DEF bad_at
  <2>4. p + kHeaderLen + u16(t, p + 1) <= Len(t)
    BY <2>1, <2>2, <2>3 DEF kHeaderLen
  <2> QED
    BY <2>3, <2>4 DEF whole_at
<1> QED
  BY <1>1, <1>2, <1>3

\* Where a whole frame ends.
LEMMA WholeEnd ==
    ASSUME NEW s \in Seq(Byte), NEW p \in Nat, whole_at(s, p)
    PROVE  /\ header_at(s, p) /\ u16(s, p + 1) \in Nat
           /\ p + kHeaderLen + u16(s, p + 1) \in 0 .. Len(s)
<1>1. header_at(s, p) /\ p + kHeaderLen + u16(s, p + 1) <= Len(s)
  BY DEF whole_at
<1>2. u16(s, p + 1) \in Nat
  BY <1>1, LenIsNat
<1> QED
  BY <1>1, <1>2 DEF kHeaderLen

\* The frames of a stream are frames of every longer one.
LEMMA FramedLonger ==
    ASSUME NEW s \in Seq(Byte), NEW t \in Seq(Byte), Len(s) <= Len(t),
           \A x \in 1 .. Len(s) : t[x] = s[x],
           NEW o \in Seq(Seq(Byte)), NEW cut \in [0 .. Len(o) -> 0 .. Len(s)],
           framed(s, o, cut)
    PROVE  framed(t, o, cut) /\ cut \in [0 .. Len(o) -> 0 .. Len(t)]
<1>1. cut \in [0 .. Len(o) -> 0 .. Len(t)] /\ Len(o) \in Nat
  <2>1. 0 .. Len(s) \subseteq 0 .. Len(t)
    OBVIOUS
  <2> QED
    BY <2>1
<1>2. ASSUME NEW k \in 1 .. Len(o)
      PROVE  /\ whole_at(t, cut[k - 1])
             /\ cut[k] = cut[k - 1] + kHeaderLen + u16(t, cut[k - 1] + 1)
             /\ o[k] = SubSeq(t, cut[k - 1] + kHeaderLen + 1, cut[k])
  <2>1. k - 1 \in 0 .. Len(o)
    BY <1>1
  <2>2. PICK p \in Nat : p = cut[k - 1]
    <3>1. cut[k - 1] \in 0 .. Len(s)
      BY <2>1
    <3> QED
      BY <3>1
  <2>3. /\ whole_at(s, p) /\ cut[k] = p + kHeaderLen + u16(s, p + 1)
        /\ o[k] = SubSeq(s, p + kHeaderLen + 1, cut[k])
    BY <2>2 DEF framed
  <2>4. header_at(s, p) /\ u16(s, p + 1) \in Nat /\ p + kHeaderLen + u16(s, p + 1) \in 0 .. Len(s)
    BY <2>3, WholeEnd
  <2>5. whole_at(t, p) /\ u16(t, p + 1) = u16(s, p + 1)
    BY <2>3, <2>4, LongerStream
  <2>6. SubSeq(s, p + kHeaderLen + 1, cut[k]) = SubSeq(t, p + kHeaderLen + 1, cut[k])
    <3>1. PICK a \in Nat, n \in Nat : a = p + kHeaderLen /\ n = u16(s, p + 1)
      <4>1. p + kHeaderLen \in Nat
        BY DEF kHeaderLen
      <4> QED
        BY <2>4, <4>1, Zenon
    <3>2. a + n <= Len(s) /\ a + n <= Len(t) /\ \A x \in 1 .. n : s[a + x] = t[a + x]
      <4>1. a + n \in 0 .. Len(s) /\ Len(s) \in Nat /\ Len(t) \in Nat
        BY <2>4, <3>1
      <4>2. \A x \in 1 .. n : a + x \in 1 .. Len(s)
        BY <4>1
      <4> QED
        BY <4>1, <4>2
    <3>3. SubSeq(s, a + 1, a + n) = SubSeq(t, a + 1, a + n)
      BY <3>2, PiecesAgree
    <3> QED
      BY <2>3, <3>1, <3>3
  <2> QED
    BY <2>2, <2>3, <2>5, <2>6
<1> QED
  BY <1>1, <1>2 DEF framed

-----------------------------------------------------------------------------
(* The steps *)

\* The types, spelled out for arithmetic.
LEMMA Lens ==
    ASSUME Typed
    PROVE  /\ Len(buf_) \in Nat /\ Len(data) \in Nat /\ Len(sent) \in Nat /\ Len(out) \in Nat
           /\ pos \in Nat /\ pos <= Len(buf_) /\ Len(buf_) <= kCapacity /\ kCapacity \in Nat
  BY CapacityAssumption DEF Typed

\* The header the buffer shows is the one after the frames delivered.
LEMMA HeaderHere ==
    ASSUME Typed, NEW e \in 0 .. Len(sent), Follows(e), unread >= kHeaderLen
    PROVE  header_at(sent, e) /\ u16(sent, e + 1) = len /\ len \in Nat
<1>1. /\ Len(buf_) \in Nat /\ Len(data) \in Nat /\ Len(sent) \in Nat /\ pos \in Nat /\ e \in Nat
      /\ e - pos + Len(buf_) + Len(data) = Len(sent)
  BY Lens DEF Follows
<1>2. Len(buf_) - pos >= 2
  BY DEF unread, kHeaderLen
<1>3. header_at(sent, e)
  BY <1>1, <1>2 DEF header_at, kHeaderLen
<1>4. pos + 1 \in 1 .. Len(buf_) /\ pos + 1 + 1 \in 1 .. Len(buf_)
  BY <1>1, <1>2
<1>5. buf_[pos + 1] = sent[e - pos + (pos + 1)] /\ buf_[pos + 1 + 1] = sent[e - pos + (pos + 1 + 1)]
  BY <1>4 DEF Follows
<1>6. e - pos + (pos + 1) = e + 1 /\ e - pos + (pos + 1 + 1) = e + 1 + 1
  BY <1>1
<1>7. u16(sent, e + 1) = len
  BY <1>5, <1>6 DEF len, u16
<1> QED
  BY <1>1, <1>3, <1>7, LenIsNat DEF Typed

\* The empty stream.
LEMMA InitIInv == Init => IInv
<1> SUFFICES ASSUME Init PROVE IInv
  OBVIOUS
<1>1. /\ buf_ = << >> /\ poisoned_ = FALSE /\ pc = "idle" /\ data = << >> /\ pos = 0 /\ ok = TRUE
      /\ sent = << >> /\ out = << >>
  BY DEF Init
<1>2. Typed
  <2>1. Len(<< >>) = 0 /\ << >> \in Seq(Byte) /\ << >> \in Seq(Seq(Byte))
    OBVIOUS
  <2>2. 0 \in 0 .. 0 /\ 0 <= kCapacity
    BY CapacityAssumption
  <2> QED
    BY <1>1, <2>1, <2>2 DEF Typed
<1>3. Control
  <2>1. ~(unread >= kHeaderLen)
    BY <1>1 DEF unread, kHeaderLen
  <2> QED
    BY <1>1, <2>1 DEF Control, drained
<1>4. Delivered(0)
  <2> DEFINE c == [x \in 0 .. 0 |-> 0]
  <2>1. c \in [0 .. Len(out) -> 0 .. Len(sent)] /\ c[0] = 0 /\ Len(out) = 0
    BY <1>1
  <2>2. framed(sent, out, c)
    BY <2>1 DEF framed
  <2> QED
    BY <2>1, <2>2 DEF Delivered
<1>5. Follows(0)
  BY <1>1 DEF Follows
<1> QED
  BY <1>1, <1>2, <1>3, <1>4, <1>5 DEF IInv, StreamSound

\* The chunks are byte strings.
LEMMA ChunkTyped ==
    ASSUME NEW chunk \in Chunk
    PROVE  chunk \in Seq(Byte)
  BY DEF Chunk

\* A chunk arrives.
LEMMA Step_feed ==
    ASSUME IInv, NEW chunk \in Chunk, feed(chunk)
    PROVE  IInv'
<1>1. /\ pc = "idle" /\ UNCHANGED <<buf_, poisoned_, pos, out>> /\ chunk \in Seq(Byte)
      /\ Typed /\ Control /\ data = << >> /\ pos = 0
  BY ChunkTyped DEF feed, IInv, Control
<1>2. CASE poisoned_
  <2>1. ok' = FALSE /\ UNCHANGED <<pc, data, sent>>
    BY <1>2 DEF feed
  <2>2. Typed' /\ Control'
    BY <1>1, <1>2, <2>1 DEF Typed, Control
  <2>3. StreamSound'
    BY <1>1, <1>2, <2>1 DEF IInv, StreamSound, Delivered, framed, whole_at, bad_at, header_at, u16
  <2> QED
    BY <2>2, <2>3 DEF IInv
<1>3. CASE ~poisoned_
  <2>1. pc' = "feed" /\ data' = chunk /\ sent' = sent \o chunk /\ ok' = ok
    BY <1>3 DEF feed
  <2>2. PICK s \in Seq(Byte) : s = sent
    BY <1>1 DEF Typed
  <2>3. PICK t : t = s \o chunk
    OBVIOUS
  <2>4. /\ t \in Seq(Byte) /\ Len(t) = Len(s) + Len(chunk)
        /\ \A x \in 1 .. Len(s) + Len(chunk) :
              t[x] = IF x <= Len(s) THEN s[x] ELSE chunk[x - Len(s)]
    BY <1>1, <2>3, ConcatProperties, Zenon
  <2>5. Len(s) \in Nat /\ Len(chunk) \in Nat /\ Len(s) <= Len(t)
    BY <1>1, <2>4
  <2>6. /\ \A x \in 1 .. Len(s) : t[x] = s[x]
        /\ \A x \in 1 .. Len(chunk) : t[Len(s) + x] = chunk[x]
    <3>1. \A x \in 1 .. Len(s) : x \in 1 .. Len(s) + Len(chunk) /\ x <= Len(s)
      BY <2>5
    <3>2. \A x \in 1 .. Len(chunk) :
              /\ Len(s) + x \in 1 .. Len(s) + Len(chunk) /\ ~(Len(s) + x <= Len(s))
              /\ Len(s) + x - Len(s) = x
      BY <2>5
    <3> QED
      BY <2>4, <3>1, <3>2
  <2>7. sent' = t
    BY <2>1, <2>2, <2>3
  <2>8. Typed'
    BY <1>1, <2>1, <2>4, <2>7 DEF Typed
  <2>9. Control'
    BY <1>1, <1>3, <2>1 DEF Control, drained, unread, len, u16, bad_len
  <2>10. PICK e \in 0 .. Len(s) : Delivered(e) /\ Follows(e)
    BY <1>3, <2>2 DEF IInv, StreamSound
  <2>11. Delivered(e)'
    <3>1. PICK o \in Seq(Seq(Byte)) : o = out
      BY <1>1 DEF Typed
    <3>2. PICK cut \in [0 .. Len(o) -> 0 .. Len(s)] : framed(s, o, cut) /\ cut[Len(o)] = e
      BY <2>2, <2>10, <3>1 DEF Delivered
    <3>3. framed(t, o, cut) /\ cut \in [0 .. Len(o) -> 0 .. Len(t)]
      BY <2>4, <2>5, <2>6, <3>2, FramedLonger
    <3> QED
      BY <1>1, <2>7, <3>1, <3>2, <3>3 DEF Delivered, framed, whole_at, bad_at, header_at, u16
  <2>12. Follows(e)'
    <3>1. /\ Len(buf_) \in Nat /\ e \in Nat /\ Len(data) = 0
          /\ e - pos + Len(buf_) + Len(data) = Len(s)
          /\ \A x \in 1 .. Len(buf_) : buf_[x] = s[e - pos + x]
      BY <1>1, <2>2, <2>5, <2>10, Lens DEF Follows
    <3>2. e + Len(buf_) = Len(s)
      BY <1>1, <3>1
    <3>3. \A x \in 1 .. Len(buf_) : buf_[x] = t[e - 0 + x]
      <4>1. \A x \in 1 .. Len(buf_) : e - 0 + x \in 1 .. Len(s)
        BY <2>5, <3>1, <3>2
      <4> QED
        BY <1>1, <2>6, <3>1, <4>1
    <3>4. \A x \in 1 .. Len(chunk) : chunk[x] = t[e - 0 + Len(buf_) + x]
      <4>1. e - 0 + Len(buf_) = Len(s)
        BY <3>1, <3>2
      <4> QED
        BY <2>6, <4>1
    <3>5. e - 0 + Len(buf_) + Len(chunk) = Len(t) /\ e >= 0
      <4>1. Len(t) = Len(s) + Len(chunk)
        BY <2>4
      <4> QED
        BY <2>5, <3>1, <3>2, <4>1
    <3> QED
      BY <1>1, <2>1, <2>7, <3>3, <3>4, <3>5 DEF Follows
  <2>13. e \in (0 .. Len(sent))'
    BY <2>5, <2>7
  <2> QED
    BY <1>1, <1>3, <2>8, <2>9, <2>11, <2>12, <2>13 DEF IInv, StreamSound
<1> QED
  BY <1>2, <1>3

\* A step that delivers nothing keeps what is delivered.
LEMMA DeliveredKept ==
    ASSUME UNCHANGED <<sent, out>>, NEW e, Delivered(e)
    PROVE  Delivered(e)'
  BY DEF Delivered, framed, whole_at, bad_at, header_at, u16

\* Bytes move from the chunk to the buffer.
LEMMA Step_TopUp == IInv /\ TopUp => IInv'
<1> SUFFICES ASSUME IInv, TopUp PROVE IInv'
  OBVIOUS
<1> DEFINE space == kCapacity - Len(buf_)
           tk == IF Len(data) < space THEN Len(data) ELSE space
<1>1. /\ pc = "feed" /\ buf_' = buf_ \o SubSeq(data, 1, tk)
      /\ data' = SubSeq(data, tk + 1, Len(data)) /\ pc' = "drain" /\ pos' = 0
      /\ UNCHANGED <<poisoned_, ok, sent, out>>
  BY DEF TopUp, data_left
<1>2. Typed /\ Control /\ ~poisoned_ /\ pos = 0
  BY <1>1 DEF IInv, Control
<1>3. /\ Len(buf_) \in Nat /\ Len(data) \in Nat /\ Len(sent) \in Nat
      /\ Len(buf_) <= kCapacity /\ kCapacity \in Nat
  BY <1>2, Lens
<1>4. tk \in Nat /\ tk <= Len(data) /\ Len(buf_) + tk <= kCapacity
  BY <1>3
<1> HIDE DEF tk
<1>5. PICK n \in Nat : n = tk
  BY <1>4
<1>6. PICK b \in Seq(Byte), d \in Seq(Byte) : b = buf_ /\ d = data
  BY <1>2 DEF Typed
<1>7. PICK h, r : h = SubSeq(d, 1, n) /\ r = SubSeq(d, n + 1, Len(d))
  OBVIOUS
<1>8. n <= Len(d) /\ Len(d) \in Nat
  BY <1>4, <1>5, <1>6
<1>9. h \in Seq(Byte) /\ Len(h) = n /\ \A x \in 1 .. n : h[x] = d[x]
  BY <1>7, <1>8
<1>10. r \in Seq(Byte) /\ Len(r) = Len(d) - n /\ \A x \in 1 .. (Len(d) - n) : r[x] = d[n + x]
  BY <1>7, <1>8
<1>11. /\ b \o h \in Seq(Byte) /\ Len(b \o h) = Len(b) + Len(h)
       /\ \A x \in 1 .. Len(b) + Len(h) : (b \o h)[x] = IF x <= Len(b) THEN b[x] ELSE h[x - Len(b)]
  BY <1>9, ConcatProperties, Zenon
<1>12. PICK c \in Seq(Byte) : c = b \o h
  BY <1>11
<1>13. buf_' = c /\ data' = r
  BY <1>1, <1>5, <1>6, <1>7, <1>12
<1>14. /\ Len(b) \in Nat /\ Len(c) = Len(b) + n
       /\ \A x \in 1 .. Len(b) : c[x] = b[x]
       /\ \A x \in 1 .. n : c[Len(b) + x] = d[x]
  <2>1. Len(b) \in Nat /\ Len(c) = Len(b) + n
    BY <1>6, <1>9, <1>11, <1>12
  <2>2. \A x \in 1 .. Len(b) + n : c[x] = IF x <= Len(b) THEN b[x] ELSE h[x - Len(b)]
    BY <1>9, <1>11, <1>12
  <2>3. \A x \in 1 .. Len(b) : c[x] = b[x]
    BY <2>1, <2>2
  <2>4. \A x \in 1 .. n : c[Len(b) + x] = h[x]
    BY <2>1, <2>2
  <2> QED
    BY <1>9, <2>1, <2>3, <2>4
<1>15. Typed'
  <2>1. Len(c) <= kCapacity /\ 0 \in 0 .. Len(c)
    BY <1>4, <1>5, <1>6, <1>14
  <2> QED
    BY <1>1, <1>2, <1>10, <1>13, <2>1 DEF Typed
<1>16. Control'
  BY <1>1, <1>2 DEF Control
<1>17. PICK e \in 0 .. Len(sent) : Delivered(e) /\ Follows(e)
  BY <1>2 DEF IInv, StreamSound
<1>18. Follows(e)'
  <2>1. /\ e \in Nat /\ e - 0 + Len(b) + Len(d) = Len(sent)
        /\ \A x \in 1 .. Len(b) : b[x] = sent[e - 0 + x]
        /\ \A x \in 1 .. Len(d) : d[x] = sent[e - 0 + Len(b) + x]
    BY <1>2, <1>3, <1>6, <1>17 DEF Follows
  <2>2. e - 0 + Len(c) + Len(r) = Len(sent) /\ e >= 0
    <3>1. Len(c) = Len(b) + n /\ Len(r) = Len(d) - n /\ Len(b) \in Nat /\ Len(d) \in Nat
      BY <1>8, <1>10, <1>14
    <3>2. e \in Nat /\ e - 0 + Len(b) + Len(d) = Len(sent)
      BY <2>1
    <3> QED
      BY <3>1, <3>2
  <2>3. \A x \in 1 .. Len(c) : c[x] = sent[e - 0 + x]
    <3> SUFFICES ASSUME NEW x \in 1 .. Len(c) PROVE c[x] = sent[e - 0 + x]
      OBVIOUS
    <3>1. CASE x \in 1 .. Len(b)
      BY <1>14, <2>1, <3>1
    <3>2. CASE x \notin 1 .. Len(b)
      <4>1. PICK y \in 1 .. n : x = Len(b) + y
        <5>1. x - Len(b) \in 1 .. n /\ x = Len(b) + (x - Len(b))
          BY <1>14, <3>2
        <5> QED
          BY <5>1
      <4>2. y \in 1 .. Len(d) /\ e - 0 + Len(b) + y = e - 0 + x
        BY <1>8, <1>14, <2>1, <4>1
      <4> QED
        BY <1>14, <2>1, <4>1, <4>2
    <3> QED
      BY <3>1, <3>2
  <2>4. \A x \in 1 .. Len(r) : r[x] = sent[e - 0 + Len(c) + x]
    <3> SUFFICES ASSUME NEW x \in 1 .. Len(r) PROVE r[x] = sent[e - 0 + Len(c) + x]
      OBVIOUS
    <3>1. n + x \in 1 .. Len(d) /\ r[x] = d[n + x]
      BY <1>8, <1>10
    <3>2. e - 0 + Len(b) + (n + x) = e - 0 + Len(c) + x
      BY <1>8, <1>10, <1>14, <2>1
    <3>3. d[n + x] = sent[e - 0 + Len(b) + (n + x)]
      BY <2>1, <3>1
    <3> QED
      BY <3>1, <3>2, <3>3
  <2> QED
    BY <1>1, <1>13, <2>2, <2>3, <2>4 DEF Follows
<1> QED
  BY <1>1, <1>2, <1>15, <1>16, <1>17, <1>18, DeliveredKept DEF IInv, StreamSound

\* A frame that is whole in the buffer is whole in the stream and is handed
\* to the sink.
LEMMA Step_Deliver == IInv /\ Deliver => IInv'
<1> SUFFICES ASSUME IInv, Deliver PROVE IInv'
  OBVIOUS
<1>1. /\ pc = "drain" /\ unread >= kHeaderLen /\ ~bad_len(len) /\ unread >= kHeaderLen + len
      /\ out' = Append(out, SubSeq(buf_, pos + kHeaderLen + 1, pos + kHeaderLen + len))
      /\ pos' = pos + kHeaderLen + len
      /\ UNCHANGED <<buf_, poisoned_, pc, data, ok, sent>>
  BY DEF Deliver
<1>2. Typed /\ Control /\ ~poisoned_
  BY <1>1 DEF IInv, Control
<1>3. /\ Len(buf_) \in Nat /\ Len(data) \in Nat /\ Len(sent) \in Nat /\ Len(out) \in Nat
      /\ pos \in Nat
  BY <1>2, Lens
<1>4. PICK e \in 0 .. Len(sent) : Delivered(e) /\ Follows(e)
  BY <1>2 DEF IInv, StreamSound
<1>5. header_at(sent, e) /\ u16(sent, e + 1) = len /\ len \in Nat
  BY <1>1, <1>2, <1>4, HeaderHere
<1>6. PICK l \in Nat, q \in Nat : l = len /\ q = pos
  BY <1>3, <1>5, Zenon
<1>7. q + 2 + l <= Len(buf_) /\ e \in Nat
  BY <1>1, <1>3, <1>6 DEF unread, kHeaderLen
<1>8. e - q + Len(buf_) + Len(data) = Len(sent) /\ e >= q
  BY <1>4, <1>6 DEF Follows
<1>9. e + 2 + l <= Len(sent)
  BY <1>3, <1>7, <1>8
<1>10. whole_at(sent, e)
  <2>1. ~bad_at(sent, e)
    BY <1>1, <1>5 DEF bad_at, bad_len
  <2>2. e + kHeaderLen + u16(sent, e + 1) <= Len(sent)
    BY <1>5, <1>6, <1>9 DEF kHeaderLen
  <2> QED
    BY <1>5, <2>1, <2>2 DEF whole_at
<1>11. PICK b \in Seq(Byte), s \in Seq(Byte), o \in Seq(Seq(Byte)) : b = buf_ /\ s = sent /\ o = out
  BY <1>2 DEF Typed
<1>12. PICK m \in Seq(Byte) : /\ m = SubSeq(b, q + 2 + 1, q + 2 + l)
                              /\ m = SubSeq(s, e + 2 + 1, e + 2 + l)
  <2>1. \A x \in 1 .. l : b[q + 2 + x] = s[e + 2 + x]
    <3> SUFFICES ASSUME NEW x \in 1 .. l PROVE b[q + 2 + x] = s[e + 2 + x]
      OBVIOUS
    <3>1. q + 2 + x \in 1 .. Len(buf_)
      BY <1>3, <1>7
    <3>2. buf_[q + 2 + x] = sent[e - pos + (q + 2 + x)]
      BY <1>4, <3>1 DEF Follows
    <3>3. e - pos + (q + 2 + x) = e + 2 + x
      BY <1>6, <1>7
    <3> QED
      BY <1>11, <3>2, <3>3
  <2>2. PICK a \in Nat, c \in Nat : a = q + 2 /\ c = e + 2
    <3>1. q + 2 \in Nat /\ e + 2 \in Nat
      BY <1>7
    <3> QED
      BY <3>1, Zenon
  <2>3. a + l <= Len(b) /\ c + l <= Len(s)
    BY <1>7, <1>9, <1>11, <2>2
  <2>4. SubSeq(b, a + 1, a + l) = SubSeq(s, c + 1, c + l) /\ SubSeq(b, a + 1, a + l) \in Seq(Byte)
    <3>1. \A x \in 1 .. l : b[a + x] = s[c + x]
      BY <2>1, <2>2
    <3> QED
      BY <2>3, <3>1, PiecesAgree
  <2> QED
    BY <2>2, <2>4
<1>13. out' = Append(o, m) /\ pos' = q + 2 + l
  <2>1. pos + kHeaderLen + 1 = q + 2 + 1 /\ pos + kHeaderLen + len = q + 2 + l
    BY <1>6 DEF kHeaderLen
  <2> QED
    BY <1>1, <1>11, <1>12, <2>1
<1>14. PICK z \in Nat : z = e + 2 + l
  BY <1>7
<1>15. z \in 0 .. Len(sent)
  BY <1>3, <1>9, <1>14
<1>16. Delivered(z)'
  <2>1. PICK cut \in [0 .. Len(o) -> 0 .. Len(s)] : framed(s, o, cut) /\ cut[Len(o)] = e
    BY <1>4, <1>11 DEF Delivered
  <2>2. PICK n \in Nat : n = Len(o)
    BY <1>3, <1>11
  <2> DEFINE c == [x \in 0 .. (n + 1) |-> IF x = n + 1 THEN z ELSE cut[x]]
             p == Append(o, m)
  <2>3. p \in Seq(Seq(Byte)) /\ Len(p) = n + 1 /\ p[n + 1] = m /\ \A x \in 1 .. n : p[x] = o[x]
    BY <2>2
  <2>4. c \in [0 .. (n + 1) -> 0 .. Len(s)]
    BY <1>11, <1>15, <2>1, <2>2
  <2>5. c[n + 1] = z /\ \A x \in 0 .. n : c[x] = cut[x]
    BY <2>2
  <2> HIDE DEF c, p
  <2>6. framed(s, p, c)
    <3>1. c[0] = 0
      BY <2>1, <2>2, <2>5 DEF framed
    <3>2. ASSUME NEW k \in 1 .. (n + 1)
          PROVE  /\ whole_at(s, c[k - 1])
                 /\ c[k] = c[k - 1] + kHeaderLen + u16(s, c[k - 1] + 1)
                 /\ p[k] = SubSeq(s, c[k - 1] + kHeaderLen + 1, c[k])
      <4>1. CASE k = n + 1
        <5>1. c[k - 1] = e /\ c[k] = z /\ p[k] = m
          BY <2>1, <2>2, <2>3, <2>5, <4>1
        <5>2. e + kHeaderLen + u16(s, e + 1) = z /\ e + kHeaderLen + 1 = e + 2 + 1
          BY <1>5, <1>6, <1>11, <1>14 DEF kHeaderLen
        <5> QED
          BY <1>10, <1>11, <1>12, <1>14, <5>1, <5>2
      <4>2. CASE k # n + 1
        <5>1. k \in 1 .. n /\ k \in 0 .. n /\ k - 1 \in 0 .. n
          <6>1. \A y \in 1 .. (n + 1) : y # n + 1 => y \in 1 .. n /\ y \in 0 .. n /\ y - 1 \in 0 .. n
            OBVIOUS
          <6> QED
            BY <4>2, <6>1
        <5>2. c[k - 1] = cut[k - 1] /\ c[k] = cut[k] /\ p[k] = o[k]
          BY <2>3, <2>5, <5>1
        <5> QED
          BY <2>1, <2>2, <5>1, <5>2 DEF framed
      <4> QED
        BY <4>1, <4>2
    <3> QED
      BY <2>3, <3>1, <3>2 DEF framed
  <2>7. out' = p /\ sent' = s
    BY <1>1, <1>11, <1>13 DEF p
  <2> QED
    BY <2>3, <2>4, <2>5, <2>6, <2>7 DEF Delivered, framed, whole_at, bad_at, header_at, u16
<1>17. Follows(z)'
  <2>1. z - (q + 2 + l) = e - q
    BY <1>7, <1>14
  <2>2. /\ \A x \in 1 .. Len(buf_) : buf_[x] = sent[e - q + x]
        /\ \A x \in 1 .. Len(data) : data[x] = sent[e - q + Len(buf_) + x]
    BY <1>4, <1>6 DEF Follows
  <2>3. z >= q + 2 + l
    BY <1>7, <1>8, <1>14
  <2> QED
    BY <1>1, <1>8, <1>13, <2>1, <2>2, <2>3 DEF Follows
<1>18. Typed'
  <2>1. pos' \in 0 .. Len(buf_)
    BY <1>3, <1>7, <1>13
  <2>2. out' \in Seq(Seq(Byte))
    BY <1>13
  <2> QED
    BY <1>1, <1>2, <2>1, <2>2 DEF Typed
<1>19. Control'
  BY <1>1, <1>2 DEF Control
<1> QED
  BY <1>1, <1>2, <1>15, <1>16, <1>17, <1>18, <1>19 DEF IInv, StreamSound

\* A bad length in the buffer is one in the stream.
LEMMA Step_Poison == IInv /\ Poison => IInv'
<1> SUFFICES ASSUME IInv, Poison PROVE IInv'
  OBVIOUS
<1>1. /\ pc = "drain" /\ unread >= kHeaderLen /\ bad_len(len)
      /\ poisoned_' = TRUE /\ pc' = "idle" /\ ok' = FALSE /\ data' = << >> /\ pos' = 0
      /\ UNCHANGED <<buf_, sent, out>>
  BY DEF Poison
<1>2. Typed /\ Control /\ ~poisoned_
  BY <1>1 DEF IInv, Control
<1>3. PICK e \in 0 .. Len(sent) : Delivered(e) /\ Follows(e)
  BY <1>2 DEF IInv, StreamSound
<1>4. header_at(sent, e) /\ u16(sent, e + 1) = len
  BY <1>1, <1>2, <1>3, HeaderHere
<1>5. bad_at(sent, e)'
  BY <1>1, <1>4 DEF bad_at, bad_len, header_at, u16
<1>6. Typed'
  <2>1. 0 \in 0 .. Len(buf_) /\ << >> \in Seq(Byte)
    BY <1>2, Lens
  <2> QED
    BY <1>1, <1>2, <2>1 DEF Typed
<1>7. Control'
  BY <1>1 DEF Control
<1> QED
  BY <1>1, <1>3, <1>5, <1>6, <1>7, DeliveredKept DEF IInv, StreamSound

\* What is left of the buffer moves to its front.
LEMMA Step_Compact == IInv /\ Compact => IInv'
<1> SUFFICES ASSUME IInv, Compact PROVE IInv'
  OBVIOUS
<1>1. /\ pc = "drain" /\ drained
      /\ buf_' = SubSeq(buf_, pos + 1, Len(buf_)) /\ pos' = 0 /\ pc' = "feed"
      /\ UNCHANGED <<poisoned_, data, ok, sent, out>>
  BY DEF Compact, drained
<1>2. Typed /\ Control /\ ~poisoned_
  BY <1>1 DEF IInv, Control
<1>3. /\ Len(buf_) \in Nat /\ Len(data) \in Nat /\ Len(sent) \in Nat
      /\ pos \in Nat /\ pos <= Len(buf_) /\ Len(buf_) <= kCapacity /\ kCapacity \in Nat
  BY <1>2, Lens
<1>4. PICK b \in Seq(Byte), q \in Nat : b = buf_ /\ q = pos
  BY <1>2, <1>3 DEF Typed
<1>5. PICK c : c = SubSeq(b, q + 1, Len(b))
  OBVIOUS
<1>6. c \in Seq(Byte) /\ Len(c) = Len(b) - q /\ \A x \in 1 .. (Len(b) - q) : c[x] = b[q + x]
  <2>1. q <= Len(b) /\ Len(b) \in Nat
    BY <1>3, <1>4
  <2> QED
    BY <1>5, <2>1
<1>7. buf_' = c
  BY <1>1, <1>4, <1>5
<1>8. Len(c) \in Nat /\ Len(c) <= kCapacity /\ Len(c) = Len(buf_) - q
  BY <1>3, <1>4, <1>6
<1>9. Typed'
  BY <1>1, <1>2, <1>6, <1>7, <1>8 DEF Typed
<1>10. drained'
  <2>1. unread' = Len(c) - 0 /\ unread' = unread
    BY <1>1, <1>3, <1>4, <1>7, <1>8 DEF unread
  <2>2. ASSUME unread >= kHeaderLen PROVE len' = len
    <3>1. 1 \in 1 .. (Len(b) - q) /\ 2 \in 1 .. (Len(b) - q)
      BY <1>3, <1>4, <2>2 DEF unread, kHeaderLen
    <3>2. c[1] = b[q + 1] /\ c[2] = b[q + 2]
      BY <1>6, <3>1
    <3>3. len' = c[0 + 1] + Radix * c[0 + 1 + 1]
      BY <1>1, <1>7 DEF len, u16
    <3>4. len = b[q + 1] + Radix * b[q + 1 + 1]
      BY <1>4 DEF len, u16
    <3>5. q + 1 + 1 = q + 2
      OBVIOUS
    <3> QED
      BY <3>2, <3>3, <3>4, <3>5
  <2>3. unread >= kHeaderLen => ~bad_len(len) /\ unread < kHeaderLen + len
    BY <1>1 DEF drained
  <2> QED
    BY <2>1, <2>2, <2>3 DEF drained, bad_len
<1>11. Control'
  BY <1>1, <1>2, <1>10 DEF Control
<1>12. PICK e \in 0 .. Len(sent) : Delivered(e) /\ Follows(e)
  BY <1>2 DEF IInv, StreamSound
<1>13. Follows(e)'
  <2>1. /\ e - q + Len(b) + Len(data) = Len(sent) /\ e \in Nat
        /\ \A x \in 1 .. Len(b) : b[x] = sent[e - q + x]
        /\ \A x \in 1 .. Len(data) : data[x] = sent[e - q + Len(b) + x]
    BY <1>4, <1>12 DEF Follows
  <2>2. e - 0 + Len(c) = e - q + Len(b) /\ e >= 0
    BY <1>3, <1>4, <1>6, <2>1
  <2>3. \A x \in 1 .. Len(c) : c[x] = sent[e - 0 + x]
    <3> SUFFICES ASSUME NEW x \in 1 .. Len(c) PROVE c[x] = sent[e - 0 + x]
      OBVIOUS
    <3>1. q + x \in 1 .. Len(b) /\ c[x] = b[q + x]
      BY <1>3, <1>4, <1>6
    <3>2. e - q + (q + x) = e - 0 + x
      BY <2>1
    <3>3. b[q + x] = sent[e - q + (q + x)]
      BY <2>1, <3>1
    <3> QED
      BY <3>1, <3>2, <3>3
  <2> QED
    BY <1>1, <1>7, <2>1, <2>2, <2>3 DEF Follows
<1> QED
  BY <1>1, <1>2, <1>9, <1>11, <1>12, <1>13, DeliveredKept DEF IInv, StreamSound

\* The chunk is used up.
LEMMA Step_FeedReturnsTrue == IInv /\ FeedReturnsTrue => IInv'
<1> SUFFICES ASSUME IInv, FeedReturnsTrue PROVE IInv'
  OBVIOUS
<1>1. /\ pc = "feed" /\ data = << >> /\ pc' = "idle" /\ ok' = TRUE
      /\ UNCHANGED <<buf_, poisoned_, data, pos, sent, out>>
  BY DEF FeedReturnsTrue
<1>2. Typed /\ Control /\ ~poisoned_ /\ pos = 0 /\ drained /\ poisoned_ = FALSE
  BY <1>1 DEF IInv, Control, Typed
<1>3. Typed' /\ Control'
  <2>1. drained'
    BY <1>1, <1>2 DEF drained, unread, len, u16, bad_len
  <2> QED
    BY <1>1, <1>2, <2>1 DEF Typed, Control
<1>4. PICK e \in 0 .. Len(sent) : Delivered(e) /\ Follows(e)
  BY <1>2 DEF IInv, StreamSound
<1>5. Follows(e)'
  BY <1>1, <1>4 DEF Follows
<1> QED
  BY <1>1, <1>2, <1>3, <1>4, <1>5, DeliveredKept DEF IInv, StreamSound

\* Every step preserves the invariant.
LEMMA Inductive == IInv /\ [Next]_vars => IInv'
<1> SUFFICES ASSUME IInv, [Next]_vars PROVE IInv'
  OBVIOUS
<1>1. CASE UNCHANGED vars
  <2>1. UNCHANGED <<buf_, poisoned_, pc, data, pos, ok, sent, out>>
    BY <1>1 DEF vars
  <2>2. Typed' /\ Control'
    BY <2>1 DEF IInv, Typed, Control, drained, unread, len, u16, bad_len
  <2>3. StreamSound'
    <3>1. PICK e \in 0 .. Len(sent) : Delivered(e) /\ IF poisoned_ THEN bad_at(sent, e) ELSE Follows(e)
      BY DEF IInv, StreamSound
    <3>2. Delivered(e)'
      BY <2>1, <3>1, DeliveredKept
    <3>3. (IF poisoned_ THEN bad_at(sent, e) ELSE Follows(e))'
      BY <2>1, <3>1 DEF bad_at, header_at, u16, Follows
    <3> QED
      BY <2>1, <3>2, <3>3 DEF StreamSound
  <2> QED
    BY <2>2, <2>3 DEF IInv
<1> QED
  BY <1>1, Step_feed, Step_TopUp, Step_FeedReturnsTrue, Step_Poison, Step_Deliver, Step_Compact
  DEF Next, Step

\* The invariant holds in every reachable state.
THEOREM FramingInvariance == Spec => []IInv
  BY InitIInv, Inductive, PTL DEF Spec

\* Whatever the chunks: when feed returns, the sink has been given exactly the
\* frames of the stream so far, and the connection is poisoned exactly when
\* the next length is a bad one.
THEOREM FramingExact == Spec => []FramesExact
<1>1. IInv => FramesExact
  <2> SUFFICES ASSUME IInv, pc = "idle" PROVE FramesExact
    BY DEF FramesExact
  <2>1. Typed /\ Control /\ data = << >> /\ pos = 0 /\ ok = ~poisoned_ /\ poisoned_ \in BOOLEAN
    BY DEF IInv, Control, Typed
  <2>2. PICK e \in 0 .. Len(sent) :
            Delivered(e) /\ IF poisoned_ THEN bad_at(sent, e) ELSE Follows(e)
    BY DEF IInv, StreamSound
  <2>3. PICK cut \in [0 .. Len(out) -> 0 .. Len(sent)] :
            framed(sent, out, cut) /\ cut[Len(out)] = e
    BY <2>2 DEF Delivered
  <2>4. ~whole_at(sent, e) /\ (poisoned_ <=> bad_at(sent, e))
    <3>1. CASE poisoned_
      BY <2>2, <3>1 DEF whole_at
    <3>2. CASE ~poisoned_
      <4>1. Follows(e) /\ drained
        BY <2>1, <2>2, <3>2 DEF Control
      <4>2. e + Len(buf_) = Len(sent) /\ e \in Nat /\ Len(buf_) \in Nat /\ unread = Len(buf_)
        <5>1. Len(data) = 0 /\ Len(buf_) \in Nat /\ e \in Nat
          BY <2>1, Lens
        <5>2. e - 0 + Len(buf_) + Len(data) = Len(sent)
          BY <2>1, <4>1 DEF Follows
        <5> QED
          BY <2>1, <5>1, <5>2 DEF unread
      <4>3. CASE header_at(sent, e)
        <5>1. unread >= kHeaderLen
          BY <4>2, <4>3 DEF header_at, kHeaderLen
        <5>2. u16(sent, e + 1) = len /\ len \in Nat
          BY <2>1, <4>1, <5>1, HeaderHere
        <5>3. ~bad_len(len) /\ unread < kHeaderLen + len
          BY <4>1, <5>1 DEF drained
        <5>4. ~bad_at(sent, e)
          BY <5>2, <5>3 DEF bad_at, bad_len
        <5>5. ~(e + kHeaderLen + u16(sent, e + 1) <= Len(sent))
          BY <4>2, <5>2, <5>3 DEF kHeaderLen
        <5> QED
          BY <3>2, <5>4, <5>5 DEF whole_at
      <4>4. CASE ~header_at(sent, e)
        BY <3>2, <4>4 DEF whole_at, bad_at
      <4> QED
        BY <4>3, <4>4
    <3> QED
      BY <3>1, <3>2
  <2>5. poisoned_ = bad_at(sent, e)
    BY <2>1, <2>4 DEF bad_at, header_at
  <2> QED
    BY <2>1, <2>3, <2>4, <2>5 DEF FramesExact
<1> QED
  BY <1>1, FramingInvariance, PTL
=============================================================================
