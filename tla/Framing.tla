------------------------------ MODULE Framing ------------------------------
(***************************************************************************)
(* FrameBuffer of net/framing.hpp: frames [len : u16][body] reassembled    *)
(* from a TCP byte stream that arrives in any chunks.  feed() is a         *)
(* sequence of actions, one per round of its loops.  Both ends of a        *)
(* connection use it: the gateway for orders, the client for reports.      *)
(***************************************************************************)
EXTENDS Integers, Sequences

CONSTANTS
    Byte,          \* the values a byte takes
    Radix,         \* 2^8: what the second byte of a length counts
    kMaxFrameLen,
    kCapacity,
    MaxStream      \* bound: the bytes a connection carries

kHeaderLen == 2

ASSUME ByteAssumption == Byte \subseteq 0 .. (Radix - 1) /\ Radix \in Nat
ASSUME LengthAssumption == kMaxFrameLen \in Nat \ {0} /\ MaxStream \in Nat
\* The static_assert of FrameBuffer.
ASSUME CapacityAssumption == kCapacity \in Nat /\ kCapacity >= kHeaderLen + kMaxFrameLen

VARIABLES
    buf_,       \* the first fill_ bytes of buf_; Len(buf_) is fill_
    poisoned_,
    pc,         \* idle, feed (in its loop), drain (in drain's loop)
    data,       \* feed: what is left of the chunk
    pos,        \* drain: what has been delivered of buf_
    ok,         \* what the last feed returned
    sent,       \* history: every byte handed to feed before it returned false
    out         \* history: the bodies given to the sink

vars == <<buf_, poisoned_, pc, data, pos, ok, sent, out>>

Init ==
    /\ buf_ = << >> /\ poisoned_ = FALSE
    /\ pc = "idle" /\ data = << >> /\ pos = 0 /\ ok = TRUE
    /\ sent = << >> /\ out = << >>

\* feed(chunk): a poisoned buffer refuses it at once.
feed(chunk) ==
    /\ pc = "idle"
    /\ IF poisoned_ THEN ok' = FALSE /\ UNCHANGED <<pc, data, sent>>
       ELSE pc' = "feed" /\ data' = chunk /\ sent' = sent \o chunk /\ UNCHANGED ok
    /\ UNCHANGED <<buf_, poisoned_, pos, out>>

\* Mutant: the bytes that do not fit are dropped.
Bug_rest_dropped(take) == << >>
\* What is left of the chunk when `take' bytes of it are in the buffer.
data_left(take) == SubSeq(data, take + 1, Len(data))

TopUp ==
    LET space == kCapacity - Len(buf_)
        take == IF Len(data) < space THEN Len(data) ELSE space
    IN  /\ pc = "feed" /\ data # << >>
        /\ buf_' = buf_ \o SubSeq(data, 1, take)
        /\ data' = data_left(take)
        /\ pc' = "drain" /\ pos' = 0
        /\ UNCHANGED <<poisoned_, ok, sent, out>>

FeedReturnsTrue ==
    /\ pc = "feed" /\ data = << >>
    /\ pc' = "idle" /\ ok' = TRUE
    /\ UNCHANGED <<buf_, poisoned_, data, pos, sent, out>>

unread == Len(buf_) - pos
\* The u16 at b[i], b[i + 1].
u16(b, i) == b[i] + Radix * b[i + 1]
len == u16(buf_, pos + 1)
\* Mutant: an over-long frame is waited for.
Bug_only_zero_is_bad(l) == l = 0
bad_len(l) == l = 0 \/ l > kMaxFrameLen

Poison ==
    /\ pc = "drain" /\ unread >= kHeaderLen /\ bad_len(len)
    /\ poisoned_' = TRUE
    /\ pc' = "idle" /\ ok' = FALSE /\ data' = << >> /\ pos' = 0
    /\ UNCHANGED <<buf_, sent, out>>

Deliver ==
    /\ pc = "drain" /\ unread >= kHeaderLen /\ ~bad_len(len)
    /\ unread >= kHeaderLen + len
    /\ out' = Append(out, SubSeq(buf_, pos + kHeaderLen + 1, pos + kHeaderLen + len))
    /\ pos' = pos + kHeaderLen + len
    /\ UNCHANGED <<buf_, poisoned_, pc, data, ok, sent>>

\* No complete frame is left: the rest moves to the front.
Compact ==
    /\ pc = "drain"
    /\ unread >= kHeaderLen => ~bad_len(len) /\ unread < kHeaderLen + len
    /\ buf_' = SubSeq(buf_, pos + 1, Len(buf_))
    /\ pos' = 0 /\ pc' = "feed"
    /\ UNCHANGED <<poisoned_, data, ok, sent, out>>

Step == TopUp \/ FeedReturnsTrue \/ Poison \/ Deliver \/ Compact

Chunk == UNION {[1 .. n -> Byte] : n \in 1 .. (MaxStream - Len(sent))}

Next == Step \/ \E chunk \in Chunk : feed(chunk)

Spec == Init /\ [][Next]_vars
\* feed runs to its end on the thread that called it.
FairSpec == Spec /\ WF_vars(Step)

-----------------------------------------------------------------------------
\* What the protocol says of a stream s, without buffers or chunks: whether a
\* header, a bad length or a whole frame stands after its first p bytes, and
\* whether o are the bodies of its frames from the start, which end at the
\* positions cut.
header_at(s, p) == p + kHeaderLen <= Len(s)
bad_at(s, p) == header_at(s, p) /\ (u16(s, p + 1) = 0 \/ u16(s, p + 1) > kMaxFrameLen)
whole_at(s, p) ==
    header_at(s, p) /\ ~bad_at(s, p) /\ p + kHeaderLen + u16(s, p + 1) <= Len(s)
framed(s, o, cut) ==
    /\ cut[0] = 0
    /\ \A k \in 1 .. Len(o) :
          /\ whole_at(s, cut[k - 1])
          /\ cut[k] = cut[k - 1] + kHeaderLen + u16(s, cut[k - 1] + 1)
          /\ o[k] = SubSeq(s, cut[k - 1] + kHeaderLen + 1, cut[k])

\* Chunking does not matter: when feed returns, the sink has been given the
\* frames of the whole stream so far, each once and in order, up to the first
\* incomplete frame or bad length, and feed has returned false exactly if a bad
\* length came (and does so ever after).
FramesExact ==
    pc = "idle" =>
        \E cut \in [0 .. Len(out) -> 0 .. Len(sent)] :
            /\ framed(sent, out, cut)
            /\ ~whole_at(sent, cut[Len(out)])
            /\ poisoned_ = bad_at(sent, cut[Len(out)]) /\ ok = ~poisoned_

\* feed always returns: after drain there is room in the buffer again, so no
\* round of the loop takes nothing.
FeedReturns == pc # "idle" ~> pc = "idle"
=============================================================================
