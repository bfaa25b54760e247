-------------------------------- MODULE Wire --------------------------------
(***************************************************************************)
(* The codecs of net/protocol.hpp.  A frame is [len : u16][type : u8] and  *)
(* the payload; what a decoder looks at besides the fields it copies is    *)
(* the number of bytes, the type and the values of the enumerations, so a  *)
(* frame is the record of these:                                           *)
(*   n      bytes, prefix included       len    what the prefix says       *)
(*   type   the type byte                enums  the enumeration bytes      *)
(***************************************************************************)
EXTENDS Integers, Sequences

kMaxFrameLen == 256
kHeaderLen == 2
kBookDepth == 5

MsgType == [NewOrder |-> 1, Cancel |-> 2, Modify |-> 3, Market |-> 4,
            ExecReport |-> 16, Trade |-> 32, Book |-> 33]
MsgName == DOMAIN MsgType

\* Bytes of the payload: ids, prices, sequence numbers and level quantities
\* take 8, quantities 4, enumerations 1.
payload_len ==
    [NewOrder   |-> 8 + 8 + 4 + 1 + 1,
     Cancel     |-> 8,
     Modify     |-> 8 + 8 + 4,
     Market     |-> 8 + 4 + 1,
     ExecReport |-> 8 + 4 + 1,
     Trade      |-> 8 + 8 + 4 + 1,
     Book       |-> 8 + 2 * kBookDepth * (8 + 8)]

\* The largest legal value of each enumeration byte, in order.
kMaxSide == 1
kMaxTif == 2
kMaxStatus == 7
kCanceled == 5  \* ExecStatus
enum_max ==
    [NewOrder |-> <<kMaxSide, kMaxTif>>, Cancel |-> << >>, Modify |-> << >>, Market |-> <<kMaxSide>>,
     ExecReport |-> <<kMaxStatus>>, Trade |-> <<kMaxSide>>, Book |-> << >>]

NoFrame == [n |-> 0, len |-> 0, type |-> 0, enums |-> << >>]

\* The frame of a message, or NoFrame if it does not fit in cap bytes.
encode(cap, name, enums) ==
    LET body == 1 + payload_len[name]
    IN  IF kHeaderLen + body > cap THEN NoFrame
        ELSE [n |-> kHeaderLen + body, len |-> body, type |-> MsgType[name], enums |-> enums]

\* The decoder of `name' takes a body of len bytes: each field is there,
\* nothing follows the last one and the enumerations are in range.  It does
\* not look at the type.
decodes(name, f) ==
    /\ f.len = 1 + payload_len[name]
    /\ \A i \in DOMAIN enum_max[name] : f.enums[i] <= enum_max[name][i]

\* A receiver of several kinds of messages picks the decoder by the type byte.
is_message(name, f) == f.type = MsgType[name] /\ decodes(name, f)
=============================================================================
