-------------------------------- MODULE Feed --------------------------------
(***************************************************************************)
(* Market data: FeedPublisher's sequence numbers and datagrams             *)
(* (net/gateway.hpp), and the subscriber of net/feed_client.cpp.  UDP may  *)
(* lose, repeat, delay and reorder: a datagram sent may be received any    *)
(* number of times, also never, at any later moment.  Anybody may send to  *)
(* the subscriber's port, so datagrams that are no message arrive too.     *)
(*                                                                         *)
(* The best prices of the book are told apart by the Book that shows them  *)
(* first: its number stands for them.  0 is the empty book at the start.   *)
(***************************************************************************)
EXTENDS Wire, FiniteSets

CONSTANTS
    max_msgs,  \* option --max: the messages after which the subscriber ends
    MaxBad     \* bound: foreign datagrams received

ASSUME FeedBoundAssumption == max_msgs \in Nat \ {0} /\ MaxBad \in Nat

VARIABLES
    seq_,      \* FeedPublisher
    net,       \* every datagram sent, in order
    last_seq, gaps, trades, books, bad, n_msgs,   \* feed_client
    last_top,  \* feed_client: last_bid and last_ask
    first_seq  \* history: the number of the first message received

subscriber == <<last_seq, gaps, trades, books, bad, n_msgs, last_top, first_seq>>
feed_vars == <<seq_, net, subscriber>>

FeedInit ==
    /\ seq_ = 0 /\ net = << >>
    /\ last_seq = 0 /\ gaps = 0 /\ trades = 0 /\ books = 0 /\ bad = 0 /\ n_msgs = 0
    /\ last_top = 0 /\ first_seq = 0

next_seq == seq_ + 1

\* Best effort: what could not be encoded is not sent, its number is used up.
send_datagram(f, top) ==
    /\ seq_' = next_seq
    /\ net' = IF f = NoFrame THEN net ELSE Append(net, [frame |-> f, seq |-> next_seq, top |-> top])
    /\ UNCHANGED subscriber

on_trade(side) == send_datagram(encode(64, "Trade", <<side>>), 0)
publish_book == send_datagram(encode(256, "Book", << >>), next_seq)

\* Datagrams that are no message: none, a bare prefix, a prefix of 0 and one
\* that disagrees with the datagram, an unknown type and one of the other
\* direction, a Trade cut short, one with a byte more, one with a bad side.
Foreign ==
    LET t == encode(64, "Trade", <<0>>)
        resized(d) == [n |-> t.n + d, len |-> t.len + d, type |-> t.type, enums |-> t.enums]
    IN  {NoFrame, [NoFrame EXCEPT !.n = 2], [t EXCEPT !.len = 0], [t EXCEPT !.n = @ - 1],
         [t EXCEPT !.type = 99], encode(64, "ExecReport", <<0>>),
         resized(-1), resized(1), [t EXCEPT !.enums = <<kMaxSide + 1>>]}

\* One frame per datagram.
framed(f) ==
    /\ f.n >= kHeaderLen + 1
    /\ f.len # 0 /\ f.len <= kMaxFrameLen /\ f.n = kHeaderLen + f.len

\* Mutant: only messages that are missing count, not old ones that arrive again.
Bug_is_gap_old_ones_pass(seq) == last_seq # 0 /\ seq > last_seq + 1
is_gap(seq) == last_seq # 0 /\ seq # last_seq + 1

receive_message(d) ==
    /\ IF is_message("Trade", d.frame) THEN trades' = trades + 1 /\ UNCHANGED <<books, last_top>>
       ELSE books' = books + 1 /\ last_top' = d.top /\ UNCHANGED trades
    /\ gaps' = IF is_gap(d.seq) THEN gaps + 1 ELSE gaps
    /\ last_seq' = d.seq
    /\ n_msgs' = n_msgs + 1
    /\ first_seq' = IF first_seq = 0 THEN d.seq ELSE first_seq
    /\ UNCHANGED <<seq_, net, bad>>

receive_bad ==
    bad' = bad + 1 /\ UNCHANGED <<seq_, net, last_seq, gaps, trades, books, n_msgs, last_top, first_seq>>

\* recvfrom returns the datagram d: one round of the subscriber's loop.
Receive(d) ==
    IF framed(d.frame) /\ (is_message("Trade", d.frame) \/ is_message("Book", d.frame))
    THEN receive_message(d) ELSE receive_bad

Subscribe ==
    /\ n_msgs < max_msgs
    /\ \/ \E i \in DOMAIN net : Receive(net[i])
       \/ /\ bad < MaxBad
          /\ \E f \in Foreign : Receive([frame |-> f, seq |-> 0, top |-> 0])

-----------------------------------------------------------------------------
\* The messages of kind `name' numbered a to b.
published(name, a, b) ==
    {i \in DOMAIN net : net[i].seq \in a .. b /\ net[i].frame.type = MsgType[name]}

\* A subscriber that has counted no gap has had every message since its first
\* one exactly once and in order, whatever the network did, takes no foreign
\* datagram for one and none of the publisher's for a bad one, and shows the
\* top of the last Book among them: that of the book as it is, once it has
\* caught up with the publisher between two frames.
FeedFaithful(between_frames, top_now) ==
    LET T == published("Trade", first_seq, last_seq)
        B == published("Book", first_seq, last_seq)
    IN  gaps = 0 =>
          /\ bad <= MaxBad
          /\ last_seq # 0 =>
               /\ n_msgs = last_seq - first_seq + 1
               /\ trades = Cardinality(T) /\ books = Cardinality(B)
          /\ B # {} =>
               last_top = net[CHOOSE i \in B : \A j \in B : net[j].seq <= net[i].seq].top
          /\ last_seq = seq_ /\ between_frames /\ last_seq # 0 => last_top = top_now
=============================================================================
