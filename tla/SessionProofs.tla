--------------------------- MODULE SessionProofs ---------------------------
(***************************************************************************)
(* A session of any number of order clients, in any of their modes, with   *)
(* any number of operations, trades, kills, foreign datagrams and broken   *)
(* connections: one operation is in flight per connection, a load run      *)
(* starts with every client live and counts the operations of its window,  *)
(* and the feed's subscriber knows the book.                               *)
(***************************************************************************)
EXTENDS Session, TLAPS, FiniteSetTheorems, SequenceTheorems

PcValue == {"hello", "ready", "send", "wait", "acked", "returned"}
PhaseValue == {"none", "connect", "warmup", "window", "after", "join", "returned"}
ConnValue == {"none", "open", "closed", "lost", "dropped"}

\* The frames of the protocol that are sent in a session.
OrderFrame ==
    {encode(128, "NewOrder", <<kMaxSide, 0>>), encode(128, "Market", <<kMaxSide>>),
     encode(128, "Cancel", << >>), encode(128, "Modify", << >>)}
ReportFrame == {encode(64, "ExecReport", <<0>>), encode(64, "ExecReport", <<kCanceled>>)}
AnswerFrame == {encode(64, "ExecReport", <<0>>)}
TradeFrame == encode(64, "Trade", <<kMaxSide>>)
BookFrame == encode(256, "Book", << >>)

SessionTyped ==
    /\ mode \in {"auto", "interactive", "load"} /\ stp_ \in {"None", "CancelResting"}
    /\ phase \in PhaseValue /\ (mode # "load" => phase = "none")
    /\ pc \in [Client -> PcValue] /\ conn \in [Client -> ConnValue]
    /\ counted \in [Client -> Nat] /\ in_window \in [Client -> Nat]
    /\ to_gateway \in [Client -> Seq(OrderFrame)] /\ to_client \in [Client -> Seq(ReportFrame)]
    /\ conns \subseteq Client /\ outbox \in [Client -> Seq(ReportFrame)] /\ dead \subseteq conns
    /\ at \in Client \cup {nobody}

\* The gateway serves the client whose frame it handles, handles no frame
\* between two frames and keeps nothing for a client it does not serve.
HandlerSound ==
    /\ at # nobody => at \in conns
    /\ at = nobody => frame = "none"
    /\ \A c \in Client \ conns : outbox[c] = << >>

-----------------------------------------------------------------------------
(* The measured window *)

\* How far a thread's count is from the operations acknowledged in the window.
\* In the window, one that was acknowledged before it may be counted, and one
\* acknowledged in it may not be counted yet.
window_ok(ph, at_pc, n, m) ==
    CASE ph \in {"none", "connect", "warmup"} -> n = 0 /\ m = 0
    []   ph = "window" -> n - m \in (IF at_pc = "acked" THEN {-1, 0} ELSE {0, 1})
    []   OTHER -> n - m \in {-1, 0, 1}
WindowSound == \A c \in Client : window_ok(phase, pc[c], counted[c], in_window[c])

-----------------------------------------------------------------------------
(* Connections *)

\* A connection not made yet has carried nothing; one the gateway has not
\* accepted has had no answer, and is the one whose hello is waited for.
ConnectSound ==
    /\ \A c \in Client : conn[c] = "none" =>
          /\ pc[c] = "hello" /\ phase \in {"connect", "returned"}
          /\ to_gateway[c] = << >> /\ to_client[c] = << >> /\ c \notin conns
    /\ \A c \in Client : conn[c] = "open" /\ c \notin conns =>
          phase = "connect" /\ pc[c] = "hello" /\ to_client[c] = << >>
    /\ phase = "connect" =>
          \A c, d \in Client :
              conn[c] # "none" /\ pc[c] = "hello" /\ conn[d] # "none" /\ pc[d] = "hello" => c = d

\* What is on its way on a connection: frames, the one in the gateway's hands,
\* reports not sent yet and reports sent.
on_the_way(c) ==
    Len(to_gateway[c]) + (IF at = c THEN 1 ELSE 0) + Len(outbox[c]) + Len(to_client[c])

\* Without kills every report is the answer of a frame, and a client has one
\* frame, or its answer, on its way when it waits or has given up waiting.
\* The answer may be lost with the connection.
flight_ok(c) ==
    conn[c] # "none" =>
        /\ on_the_way(c) \in {0, 1}
        /\ on_the_way(c) = 1 => pc[c] \in {"hello", "wait", "returned"}
        /\ on_the_way(c) = 0 /\ pc[c] \in {"hello", "wait"} => conn[c] # "open"

\* So an outbox never fills, and the gateway drops nobody.
FlightSound ==
    stp_ = "None" =>
        /\ dead = {} /\ \A c \in Client : conn[c] # "dropped"
        /\ to_client \in [Client -> Seq(AnswerFrame)] /\ outbox \in [Client -> Seq(AnswerFrame)]
        /\ \A c \in Client : flight_ok(c)

-----------------------------------------------------------------------------
(* The feed *)

Datagram == [frame : {TradeFrame, BookFrame}, seq : Nat, top : Nat]

\* Every message is sent, under its number; a Book shows the top it stands for.
NetSound ==
    /\ net \in Seq(Datagram) /\ seq_ = Len(net)
    /\ \A k \in DOMAIN net : net[k].seq = k /\ (net[k].frame = BookFrame => net[k].top = k)

\* Between two frames the last message is a Book of the book as it is.
TopSound ==
    /\ mode # "auto" => seq_ = 0
    /\ at = nobody /\ seq_ # 0 => net[seq_].frame = BookFrame /\ top = seq_

\* The messages of a kind numbered a to b are those at the places a to b.
sent(f, a, b) == {k \in a .. b : net[k].frame = f}

\* What the subscriber has counted while it saw no gap.
CountSound ==
    /\ trades = Cardinality(sent(TradeFrame, first_seq, last_seq))
    /\ books = Cardinality(sent(BookFrame, first_seq, last_seq))
    /\ n_msgs = last_seq - first_seq + 1
    /\ sent(BookFrame, first_seq, last_seq) # {} =>
          \E k \in sent(BookFrame, first_seq, last_seq) :
              last_top = net[k].top /\ \A j \in sent(BookFrame, first_seq, last_seq) : j <= k

SubscriberSound ==
    /\ gaps \in Nat /\ bad \in Nat /\ bad <= MaxBad /\ trades \in Nat /\ books \in Nat /\ n_msgs \in Nat
    /\ last_seq \in 0 .. seq_ /\ first_seq \in 0 .. seq_
    /\ last_seq = 0 => first_seq = 0 /\ trades = 0 /\ books = 0 /\ n_msgs = 0
    /\ gaps = 0 /\ last_seq # 0 => first_seq \in 1 .. last_seq /\ CountSound

IInv ==
    /\ SessionTyped /\ HandlerSound /\ WindowSound /\ ConnectSound /\ FlightSound
    /\ NetSound /\ TopSound /\ SubscriberSound

-----------------------------------------------------------------------------
(* The frames *)

LEMMA EncodedFrames ==
    /\ encode(128, "NewOrder", <<kMaxSide, 0>>) = [n |-> 25, len |-> 23, type |-> 1, enums |-> <<1, 0>>]
    /\ encode(128, "Market", <<kMaxSide>>) = [n |-> 16, len |-> 14, type |-> 4, enums |-> <<1>>]
    /\ encode(128, "Cancel", << >>) = [n |-> 11, len |-> 9, type |-> 2, enums |-> << >>]
    /\ encode(64, "Cancel", << >>) = [n |-> 11, len |-> 9, type |-> 2, enums |-> << >>]
    /\ encode(128, "Modify", << >>) = [n |-> 23, len |-> 21, type |-> 3, enums |-> << >>]
    /\ \A e \in Nat : encode(64, "ExecReport", <<e>>) = [n |-> 16, len |-> 14, type |-> 16, enums |-> <<e>>]
    /\ \A e \in Nat : encode(64, "Trade", <<e>>) = [n |-> 24, len |-> 22, type |-> 32, enums |-> <<e>>]
    /\ encode(256, "Book", << >>) = [n |-> 171, len |-> 169, type |-> 33, enums |-> << >>]
BY DEF encode, payload_len, MsgType, kHeaderLen, kBookDepth, kMaxSide

LEMMA DecodedFrames ==
    ASSUME NEW f
    PROVE  /\ is_message("NewOrder", f) <=> f.type = 1 /\ f.len = 23 /\ f.enums[1] <= 1 /\ f.enums[2] <= 2
           /\ is_message("Market", f) <=> f.type = 4 /\ f.len = 14 /\ f.enums[1] <= 1
           /\ is_message("Cancel", f) <=> f.type = 2 /\ f.len = 9
           /\ is_message("Modify", f) <=> f.type = 3 /\ f.len = 21
           /\ decodes("ExecReport", f) <=> f.len = 14 /\ f.enums[1] <= 7
           /\ is_message("Trade", f) <=> f.type = 32 /\ f.len = 22 /\ f.enums[1] <= 1
           /\ is_message("Book", f) <=> f.type = 33 /\ f.len = 169
<1>1. /\ DOMAIN enum_max["NewOrder"] = {1, 2} /\ DOMAIN enum_max["Market"] = {1}
      /\ DOMAIN enum_max["Cancel"] = {} /\ DOMAIN enum_max["Modify"] = {}
      /\ DOMAIN enum_max["ExecReport"] = {1} /\ DOMAIN enum_max["Trade"] = {1}
      /\ DOMAIN enum_max["Book"] = {}
  BY DEF enum_max
<1>2. /\ enum_max["NewOrder"][1] = 1 /\ enum_max["NewOrder"][2] = 2 /\ enum_max["Market"][1] = 1
      /\ enum_max["ExecReport"][1] = 7 /\ enum_max["Trade"][1] = 1
  BY DEF enum_max, kMaxSide, kMaxTif, kMaxStatus
<1>3. /\ 1 + payload_len["NewOrder"] = 23 /\ 1 + payload_len["Market"] = 14
      /\ 1 + payload_len["Cancel"] = 9 /\ 1 + payload_len["Modify"] = 21
      /\ 1 + payload_len["ExecReport"] = 14 /\ 1 + payload_len["Trade"] = 22
      /\ 1 + payload_len["Book"] = 169
  BY DEF payload_len, kBookDepth
<1>4. /\ MsgType["NewOrder"] = 1 /\ MsgType["Market"] = 4 /\ MsgType["Cancel"] = 2
      /\ MsgType["Modify"] = 3 /\ MsgType["ExecReport"] = 16 /\ MsgType["Trade"] = 32
      /\ MsgType["Book"] = 33
  BY DEF MsgType
<1> QED
  BY <1>1, <1>2, <1>3, <1>4 DEF decodes, is_message

\* The gateway decodes every frame a client sends.
LEMMA OrderFramesDecode ==
    ASSUME NEW f \in OrderFrame
    PROVE  \E name \in {"NewOrder", "Market", "Cancel", "Modify"} : is_message(name, f)
<1>1. CASE f = encode(128, "NewOrder", <<kMaxSide, 0>>)
  BY <1>1, EncodedFrames, DecodedFrames
<1>2. CASE f = encode(128, "Market", <<kMaxSide>>)
  BY <1>2, EncodedFrames, DecodedFrames
<1>3. CASE f = encode(128, "Cancel", << >>)
  BY <1>3, EncodedFrames, DecodedFrames
<1>4. CASE f = encode(128, "Modify", << >>)
  BY <1>4, EncodedFrames, DecodedFrames
<1> QED
  BY <1>1, <1>2, <1>3, <1>4 DEF OrderFrame

\* A client decodes every report, and tells an answer from a kill.
LEMMA ReportFramesDecode ==
    /\ \A f \in ReportFrame : decodes("ExecReport", f)
    /\ own_answer(encode(64, "ExecReport", <<0>>))
<1>1. ASSUME NEW f \in ReportFrame PROVE decodes("ExecReport", f)
  <2>1. PICK e \in {0, 5} : f = [n |-> 16, len |-> 14, type |-> 16, enums |-> <<e>>]
    BY EncodedFrames DEF ReportFrame, kCanceled
  <2> QED
    BY <2>1, DecodedFrames
<1>2. encode(64, "ExecReport", <<0>>).enums = <<0>>
  BY DEF encode, payload_len, kHeaderLen
<1>3. <<0>> # <<kCanceled>>
  BY DEF kCanceled
<1> QED
  BY <1>1, <1>2, <1>3 DEF own_answer

\* The feed's messages: a subscriber takes each for what it is.
LEMMA FeedFramesDecode ==
    /\ TradeFrame # NoFrame /\ BookFrame # NoFrame /\ TradeFrame # BookFrame
    /\ TradeFrame.type = MsgType["Trade"] /\ BookFrame.type = MsgType["Book"]
    /\ MsgType["Trade"] # MsgType["Book"]
    /\ framed(TradeFrame) /\ is_message("Trade", TradeFrame)
    /\ framed(BookFrame) /\ is_message("Book", BookFrame) /\ ~is_message("Trade", BookFrame)
<1>1. /\ TradeFrame = [n |-> 24, len |-> 22, type |-> 32, enums |-> <<1>>]
      /\ BookFrame = [n |-> 171, len |-> 169, type |-> 33, enums |-> << >>]
  BY EncodedFrames DEF TradeFrame, BookFrame, kMaxSide
<1>2. MsgType["Trade"] = 32 /\ MsgType["Book"] = 33
  BY DEF MsgType
<1>3. TradeFrame # NoFrame /\ BookFrame # NoFrame /\ TradeFrame # BookFrame
  BY <1>1 DEF NoFrame
<1>4. framed(TradeFrame) /\ framed(BookFrame)
  BY <1>1 DEF framed, kHeaderLen, kMaxFrameLen
<1>5. is_message("Trade", TradeFrame) /\ is_message("Book", BookFrame) /\ ~is_message("Trade", BookFrame)
  BY <1>1, DecodedFrames
<1> QED
  BY <1>1, <1>2, <1>3, <1>4, <1>5

\* ... and takes nothing else for one of them.
LEMMA ForeignRefused ==
    ASSUME NEW f \in Foreign
    PROVE  ~(framed(f) /\ (is_message("Trade", f) \/ is_message("Book", f)))
<1> DEFINE t == encode(64, "Trade", <<0>>)
<1>1. t = [n |-> 24, len |-> 22, type |-> 32, enums |-> <<0>>]
  BY EncodedFrames
<1>2. CASE f \in {NoFrame, [NoFrame EXCEPT !.n = 2]}
  BY <1>2 DEF NoFrame, framed, kHeaderLen
<1>3. CASE f = [t EXCEPT !.len = 0]
  BY <1>1, <1>3 DEF framed
<1>4. CASE f = [t EXCEPT !.n = @ - 1]
  BY <1>1, <1>4 DEF framed, kHeaderLen
<1>5. CASE f = [t EXCEPT !.type = 99]
  BY <1>1, <1>5, DecodedFrames
<1>6. CASE f = encode(64, "ExecReport", <<0>>)
  <2>1. f.type = 16
    BY <1>6 DEF encode, payload_len, kHeaderLen, MsgType
  <2> QED
    BY <2>1, DecodedFrames
<1>7. CASE \E d \in {-1, 1} : f = [n |-> t.n + d, len |-> t.len + d, type |-> t.type, enums |-> t.enums]
  BY <1>1, <1>7, DecodedFrames
<1>8. CASE f = [t EXCEPT !.enums = <<kMaxSide + 1>>]
  BY <1>1, <1>8, DecodedFrames DEF kMaxSide
<1> QED
  BY <1>2, <1>3, <1>4, <1>5, <1>6, <1>7, <1>8 DEF Foreign

\* A report is queued, or costs the connection.
LEMMA QueueTyped ==
    ASSUME SessionTyped, at \in conns, NEW e \in {0, kCanceled}, send_exec(e)
    PROVE  /\ outbox' \in [Client -> Seq(ReportFrame)] /\ dead' \subseteq conns
           /\ \A c \in Client \ {at} : outbox'[c] = outbox[c]
<1>1. encode(64, "ExecReport", <<e>>) \in ReportFrame /\ at \in Client
  BY DEF ReportFrame, SessionTyped
<1>2. CASE Len(outbox[at]) + 1 > kMaxOutbox
  BY <1>1, <1>2 DEF send_exec, SessionTyped
<1>3. CASE ~(Len(outbox[at]) + 1 > kMaxOutbox)
  <2>1. outbox' = [outbox EXCEPT ![at] = Append(@, encode(64, "ExecReport", <<e>>))] /\ UNCHANGED dead
    BY <1>3 DEF send_exec
  <2> QED
    BY <1>1, <2>1 DEF SessionTyped
<1> QED
  BY <1>2, <1>3

-----------------------------------------------------------------------------
(* Which actions move what *)

\* The actions that leave the clients and run_load alone.
LEMMA GatewayMoves ==
    ASSUME GatewayStep \/ (\E c \in Client : Break(c)) \/ (mode = "auto" /\ Subscribe /\ UNCHANGED <<client, tcp, gateway>>)
    PROVE  UNCHANGED <<mode, pc, i, rc, phase, load_rc, counted, in_window, stp_>>
BY DEF GatewayStep, Accept, Handle, Reap, flush_outbox, Trade, Kill, Return, Break, client, gateway, load

\* The actions of the clients and of run_load leave the gateway and the feed alone.
LEMMA ClientMoves ==
    ASSUME (\E c \in Client : ClientStep(c)) \/ run_load
    PROVE  UNCHANGED <<feed_vars, gateway, mode>>
BY DEF ClientStep, send_all, read_reports, record_rtt, run_fails, run_ends, run_load, connect_and_hello,
       hello_fails, start_threads, next_phase, join, client

-----------------------------------------------------------------------------
(* Types *)

LEMMA ClientTyped ==
    ASSUME SessionTyped, NEW c \in Client, ClientStep(c)
    PROVE  SessionTyped'
<1> USE DEF SessionTyped
<1>1. UNCHANGED <<mode, stp_, phase, conns, outbox, dead, at>>
  BY DEF ClientStep, send_all, read_reports, record_rtt, run_fails, run_ends, load, gateway
<1>2. CASE send_all(c)
  <2>1. PICK f \in OrderFrame : to_gateway' = [to_gateway EXCEPT ![c] = Append(@, f)]
    BY <1>2 DEF send_all, next_op, OrderFrame
  <2>2. to_gateway' \in [Client -> Seq(OrderFrame)]
    BY <2>1
  <2>3. pc' \in [Client -> PcValue]
    BY <1>2 DEF send_all, PcValue
  <2> QED
    BY <1>1, <1>2, <2>2, <2>3 DEF send_all, load
<1>3. ASSUME NEW k \in 1 .. Len(to_client[c]), read_reports(c, k) PROVE SessionTyped'
  <2>1. SubSeq(to_client[c], k + 1, Len(to_client[c])) \in Seq(ReportFrame)
    BY <1>3
  <2>2. to_client' \in [Client -> Seq(ReportFrame)]
    BY <1>3, <2>1 DEF read_reports
  <2>3. pc' \in [Client -> PcValue]
    BY <1>3 DEF read_reports, PcValue
  <2>4. in_window' \in [Client -> Nat]
    <3>1. \/ in_window' = in_window
          \/ in_window' = [in_window EXCEPT ![c] = IF phase = "window" THEN @ + 1 ELSE @]
      BY <1>3 DEF read_reports
    <3>2. CASE in_window' = in_window
      BY <3>2
    <3>3. CASE in_window' = [in_window EXCEPT ![c] = IF phase = "window" THEN @ + 1 ELSE @]
      <4>1. in_window[c] \in Nat /\ (IF phase = "window" THEN in_window[c] + 1 ELSE in_window[c]) \in Nat
        OBVIOUS
      <4> QED
        BY <3>3, <4>1
    <3> QED
      BY <3>1, <3>2, <3>3
  <2> QED
    BY <1>1, <1>3, <2>2, <2>3, <2>4 DEF read_reports
<1>4. CASE record_rtt(c)
  <2>1. pc' \in [Client -> PcValue] /\ counted' \in [Client -> Nat]
    BY <1>4 DEF record_rtt, PcValue
  <2> QED
    BY <1>1, <1>4, <2>1 DEF record_rtt, tcp
<1>5. CASE run_fails(c)
  <2>1. pc' \in [Client -> PcValue]
    BY <1>5 DEF run_fails, PcValue
  <2> QED
    BY <1>1, <1>5, <2>1 DEF run_fails, tcp, load
<1>6. CASE run_ends(c)
  <2>1. pc' \in [Client -> PcValue] /\ conn' \in [Client -> ConnValue]
    BY <1>6 DEF run_ends, PcValue, ConnValue
  <2> QED
    BY <1>1, <1>6, <2>1 DEF run_ends, load
<1> QED
  BY <1>2, <1>3, <1>4, <1>5, <1>6 DEF ClientStep

LEMMA LoadTyped ==
    ASSUME SessionTyped, run_load
    PROVE  SessionTyped'
<1> USE DEF SessionTyped
<1>1. UNCHANGED <<mode, stp_, conns, outbox, dead, at, counted, in_window, to_client>>
  BY DEF run_load, connect_and_hello, hello_fails, start_threads, next_phase, join, gateway, tcp, client, load
<1>2. ASSUME NEW c \in Client, connect_and_hello(c) PROVE SessionTyped'
  <2>1. encode(64, "Cancel", << >>) \in OrderFrame
    BY EncodedFrames DEF OrderFrame
  <2>2. to_gateway' \in [Client -> Seq(OrderFrame)]
    BY <1>2, <2>1 DEF connect_and_hello
  <2>3. conn' \in [Client -> ConnValue]
    BY <1>2 DEF connect_and_hello, ConnValue
  <2> QED
    BY <1>1, <1>2, <2>2, <2>3 DEF connect_and_hello, client, load
<1>3. CASE hello_fails \/ join
  <2>1. /\ phase \in {"connect", "join"} /\ phase' = "returned" /\ UNCHANGED <<pc, to_gateway>>
        /\ conn' = [c \in Client |-> IF conn[c] = "open" THEN "closed" ELSE conn[c]]
    BY <1>3 DEF hello_fails, join, all_closed
  <2>2. conn' \in [Client -> ConnValue]
    BY <2>1 DEF ConnValue
  <2> QED
    BY <1>1, <2>1, <2>2 DEF PhaseValue
<1>4. CASE start_threads
  <2>1. pc' \in [Client -> PcValue]
    BY <1>4 DEF start_threads, PcValue
  <2> QED
    BY <1>1, <1>4, <2>1 DEF start_threads, tcp, PhaseValue
<1>5. CASE next_phase
  BY <1>1, <1>5 DEF next_phase, tcp, PhaseValue
<1> QED
  BY <1>2, <1>3, <1>4, <1>5 DEF run_load

LEMMA GatewayTyped ==
    ASSUME SessionTyped, HandlerSound, GatewayStep
    PROVE  SessionTyped'
<1> USE DEF SessionTyped
<1>1. UNCHANGED <<mode, pc, phase, counted, in_window, stp_>>
  BY GatewayMoves
<1>2. ASSUME NEW c \in Client, Accept(c) PROVE SessionTyped'
  BY <1>1, <1>2 DEF Accept, tcp
<1>3. ASSUME NEW c \in Client, Handle(c) PROVE SessionTyped'
  <2>1. to_gateway[c] \in Seq(OrderFrame) /\ to_gateway[c] # << >>
    BY <1>3 DEF Handle
  <2>2. Tail(to_gateway[c]) \in Seq(OrderFrame)
    BY <2>1
  <2>3. to_gateway' \in [Client -> Seq(OrderFrame)]
    BY <1>3, <2>2 DEF Handle
  <2>4. dead' \subseteq conns /\ at' \in Client \cup {nobody}
    BY <1>3 DEF Handle
  <2> QED
    BY <1>1, <1>3, <2>3, <2>4 DEF Handle
<1>4. CASE Trade
  BY <1>1, <1>4 DEF Trade, tcp
<1>5. CASE Kill \/ Return
  <2>1. at \in conns
    BY <1>5 DEF Kill, Return, HandlerSound, matching
  <2>2. PICK e \in {0, kCanceled} : send_exec(e)
    BY <1>5 DEF Kill, Return
  <2>3. outbox' \in [Client -> Seq(ReportFrame)] /\ dead' \subseteq conns
    BY <2>1, <2>2, QueueTyped
  <2>4. UNCHANGED <<tcp, conns>> /\ at' \in Client \cup {nobody}
    BY <1>5 DEF Kill, Return
  <2> QED
    BY <1>1, <2>3, <2>4 DEF tcp
<1>6. ASSUME NEW c \in Client, NEW k \in 1 .. Len(outbox[c]), flush_outbox(c, k) PROVE SessionTyped'
  <2>1. outbox[c] \in Seq(ReportFrame) /\ to_client[c] \in Seq(ReportFrame)
    OBVIOUS
  <2>2. SubSeq(outbox[c], 1, k) \in Seq(ReportFrame) /\ SubSeq(outbox[c], k + 1, Len(outbox[c])) \in Seq(ReportFrame)
    BY <2>1
  <2>3. to_client' \in [Client -> Seq(ReportFrame)] /\ outbox' \in [Client -> Seq(ReportFrame)]
    BY <1>6, <2>1, <2>2 DEF flush_outbox, sent_on
  <2> QED
    BY <1>1, <1>6, <2>3 DEF flush_outbox
<1>7. ASSUME NEW c \in Client, Reap(c) PROVE SessionTyped'
  <2>1. outbox[c] \in Seq(ReportFrame) /\ to_client[c] \in Seq(ReportFrame) /\ Len(outbox[c]) \in Nat
    OBVIOUS
  <2>2. PICK k \in 0 .. Len(outbox[c]) : sent_on(c, k)
    BY <1>7, <2>1 DEF Reap
  <2>3. SubSeq(outbox[c], 1, k) \in Seq(ReportFrame)
    BY <2>1
  <2>4. to_client' \in [Client -> Seq(ReportFrame)]
    BY <2>1, <2>2, <2>3 DEF sent_on
  <2>5. outbox' \in [Client -> Seq(ReportFrame)] /\ conn' \in [Client -> ConnValue]
    BY <1>7 DEF Reap, ConnValue
  <2> QED
    BY <1>1, <1>7, <2>4, <2>5 DEF Reap
<1> QED
  BY <1>2, <1>3, <1>4, <1>5, <1>6, <1>7 DEF GatewayStep

LEMMA TypedStep == ASSUME SessionTyped, HandlerSound, Next PROVE SessionTyped'
<1>1. ASSUME NEW c \in Client, Break(c) PROVE SessionTyped'
  BY <1>1 DEF Break, SessionTyped, ConnValue, client, gateway, load
<1>2. CASE mode = "auto" /\ Subscribe /\ UNCHANGED <<client, tcp, gateway>>
  BY <1>2 DEF client, tcp, gateway, load, SessionTyped
<1> QED
  BY <1>1, <1>2, ClientTyped, LoadTyped, GatewayTyped DEF Next

LEMMA HandlerStep == ASSUME SessionTyped, HandlerSound, Next PROVE HandlerSound'
<1> USE DEF HandlerSound
<1>1. CASE (\E c \in Client : ClientStep(c)) \/ run_load
  BY <1>1, ClientMoves DEF gateway
<1>2. ASSUME NEW c \in Client, Accept(c) \/ Reap(c) PROVE HandlerSound'
  BY <1>2 DEF Accept, Reap, SessionTyped
<1>3. ASSUME NEW c \in Client, Handle(c) PROVE HandlerSound'
  BY <1>3, ClientAssumption DEF Handle
<1>4. CASE Trade
  BY <1>4 DEF Trade, matching
<1>5. CASE Kill \/ Return
  <2>1. at \in conns
    BY <1>5 DEF Kill, Return, matching
  <2>2. PICK e \in {0, kCanceled} : send_exec(e)
    BY <1>5 DEF Kill, Return
  <2>3. \A c \in Client \ {at} : outbox'[c] = outbox[c]
    BY <2>1, <2>2, QueueTyped
  <2> QED
    BY <1>5, <2>1, <2>3 DEF Kill, Return
<1>8. ASSUME NEW c \in Client, NEW k \in 1 .. Len(outbox[c]), flush_outbox(c, k) PROVE HandlerSound'
  BY <1>8 DEF flush_outbox, SessionTyped
<1>6. ASSUME NEW c \in Client, Break(c) PROVE HandlerSound'
  BY <1>6 DEF Break, gateway
<1>7. CASE mode = "auto" /\ Subscribe /\ UNCHANGED <<client, tcp, gateway>>
  BY <1>7 DEF gateway
<1> QED
  BY <1>1, <1>2, <1>3, <1>4, <1>5, <1>6, <1>7, <1>8 DEF Next, GatewayStep

-----------------------------------------------------------------------------
(* The measured window *)

LEMMA WindowStep == ASSUME SessionTyped, WindowSound, Next PROVE WindowSound'
<1>1. CASE UNCHANGED <<pc, phase, counted, in_window>>
  BY <1>1 DEF WindowSound
<1>2. ASSUME NEW c \in Client, ClientStep(c) PROVE WindowSound'
  <2>1. /\ counted[c] \in Nat /\ in_window[c] \in Nat /\ (phase = "window" => mode = "load")
        /\ window_ok(phase, pc[c], counted[c], in_window[c])
    BY DEF SessionTyped, WindowSound
  <2>2. /\ UNCHANGED phase
        /\ \A d \in Client \ {c} : pc'[d] = pc[d] /\ counted'[d] = counted[d] /\ in_window'[d] = in_window[d]
    BY <1>2 DEF ClientStep, send_all, read_reports, record_rtt, run_fails, run_ends, load, SessionTyped
  <2>3. window_ok(phase, pc'[c], counted'[c], in_window'[c])
    <3>1. CASE send_all(c) \/ run_fails(c) \/ run_ends(c)
      <4>1. /\ pc[c] # "acked" /\ pc'[c] # "acked" /\ counted' = counted /\ in_window' = in_window
        BY <3>1 DEF send_all, run_fails, run_ends, gives_up, goes_on, load, SessionTyped
      <4> QED
        BY <2>1, <4>1 DEF window_ok
    <3>2. ASSUME NEW k \in 1 .. Len(to_client[c]), read_reports(c, k)
          PROVE  window_ok(phase, pc'[c], counted'[c], in_window'[c])
      <4>1. CASE pc' = pc /\ in_window' = in_window
        BY <2>1, <3>2, <4>1 DEF read_reports
      <4>2. CASE pc[c] = "hello" /\ pc' = [pc EXCEPT ![c] = "ready"] /\ in_window' = in_window
        <5>1. pc'[c] # "acked" /\ counted' = counted
          BY <3>2, <4>2 DEF read_reports, SessionTyped
        <5> QED
          BY <2>1, <4>2, <5>1 DEF window_ok
      <4>3. CASE /\ pc' = [pc EXCEPT ![c] = IF mode = "load" THEN "acked" ELSE "send"]
                 /\ in_window' = [in_window EXCEPT ![c] = IF phase = "window" THEN @ + 1 ELSE @]
        <5>1. /\ pc'[c] = (IF mode = "load" THEN "acked" ELSE "send") /\ counted' = counted /\ pc[c] # "acked"
              /\ in_window'[c] = IF phase = "window" THEN in_window[c] + 1 ELSE in_window[c]
          BY <3>2, <4>3 DEF read_reports, SessionTyped
        <5>2. CASE phase = "window"
          BY <2>1, <5>1, <5>2 DEF window_ok
        <5>3. CASE phase # "window"
          BY <2>1, <5>1, <5>3 DEF window_ok
        <5> QED
          BY <5>2, <5>3
      <4> QED
        BY <3>2, <4>1, <4>2, <4>3 DEF read_reports
    <3>3. CASE record_rtt(c)
      <4>1. /\ pc[c] = "acked" /\ pc'[c] = "send" /\ in_window' = in_window
            /\ counted'[c] = IF phase = "window" THEN counted[c] + 1 ELSE counted[c]
        BY <3>3 DEF record_rtt, measuring, SessionTyped
      <4>2. CASE phase = "window"
        BY <2>1, <4>1, <4>2 DEF window_ok
      <4>3. CASE phase # "window"
        BY <2>1, <4>1, <4>3 DEF window_ok
      <4> QED
        BY <4>2, <4>3
    <3> QED
      BY <1>2, <3>1, <3>2, <3>3 DEF ClientStep
  <2> QED
    BY <2>2, <2>3 DEF WindowSound
<1>3. CASE run_load
  <2>1. UNCHANGED <<counted, in_window>>
    BY <1>3 DEF run_load, connect_and_hello, hello_fails, start_threads, next_phase, join, client, load
  <2>2. CASE \E c \in Client : connect_and_hello(c)
    BY <1>1, <2>2 DEF connect_and_hello, client, load
  <2>3. CASE hello_fails \/ start_threads
    <3>1. phase = "connect" /\ phase' \in {"returned", "warmup"}
      BY <2>3 DEF hello_fails, start_threads
    <3> QED
      BY <2>1, <3>1 DEF WindowSound, window_ok
  <2>4. CASE join
    <3>1. phase = "join" /\ phase' = "returned"
      BY <2>4 DEF join
    <3> QED
      BY <2>1, <3>1 DEF WindowSound, window_ok
  <2>5. CASE next_phase
    <3>1. CASE phase = "warmup" /\ phase' = "window"
      BY <2>1, <2>5, <3>1 DEF next_phase, WindowSound, window_ok
    <3>2. CASE phase = "window" /\ phase' = "after"
      BY <2>1, <2>5, <3>2 DEF next_phase, WindowSound, window_ok
    <3>3. CASE phase = "after" /\ phase' = "join"
      BY <2>1, <2>5, <3>3 DEF next_phase, WindowSound, window_ok
    <3> QED
      BY <2>5, <3>1, <3>2, <3>3 DEF next_phase
  <2> QED
    BY <1>3, <2>2, <2>3, <2>4, <2>5 DEF run_load
<1> QED
  BY <1>1, <1>2, <1>3, GatewayMoves DEF Next

-----------------------------------------------------------------------------
(* Connections *)

\* A connection on which nothing has come back is no step of its client.
LEMMA QuietClient ==
    ASSUME NEW c \in Client, pc[c] = "hello", to_client[c] = << >>
    PROVE  ~ClientStep(c)
<1>1. \A k \in 1 .. Len(to_client[c]) : FALSE
  OBVIOUS
<1> QED
  BY <1>1 DEF ClientStep, send_all, record_rtt, run_fails, run_ends, gives_up, goes_on

\* What a client's step does to what ConnectSound and FlightSound speak of.
LEMMA ClientMovesOnly ==
    ASSUME SessionTyped, NEW c \in Client, ClientStep(c)
    PROVE  /\ UNCHANGED <<phase, conns, outbox, dead, at, stp_>>
           /\ \A d \in Client \ {c} : /\ pc'[d] = pc[d] /\ conn'[d] = conn[d]
                                      /\ to_gateway'[d] = to_gateway[d] /\ to_client'[d] = to_client[d]
           /\ conn'[c] \in {conn[c], "closed"}
           /\ pc'[c] = "hello" => pc[c] = "hello"
<1>1. CASE send_all(c)
  BY <1>1 DEF send_all, SessionTyped, load, gateway
<1>2. ASSUME NEW k \in 1 .. Len(to_client[c]), read_reports(c, k)
      PROVE  /\ UNCHANGED <<phase, conns, outbox, dead, at, stp_, conn, to_gateway>>
             /\ \A d \in Client \ {c} : pc'[d] = pc[d] /\ to_client'[d] = to_client[d]
             /\ pc'[c] = "hello" => pc[c] = "hello"
  BY <1>2 DEF read_reports, SessionTyped, gateway
<1>3. CASE record_rtt(c)
  BY <1>3 DEF record_rtt, SessionTyped, tcp, gateway
<1>4. CASE run_fails(c)
  BY <1>4 DEF run_fails, SessionTyped, tcp, gateway, load
<1>5. CASE run_ends(c)
  BY <1>5 DEF run_ends, SessionTyped, gateway, load
<1> QED
  BY <1>1, <1>2, <1>3, <1>4, <1>5 DEF ClientStep

LEMMA ConnectStep == ASSUME SessionTyped, HandlerSound, ConnectSound, Next PROVE ConnectSound'
<1> USE DEF ConnectSound
<1>1. CASE UNCHANGED <<phase, pc, tcp, conns>>
  BY <1>1 DEF tcp
<1>2. ASSUME NEW c \in Client, ClientStep(c) PROVE ConnectSound'
  <2>1. conn[c] # "none" /\ ~(conn[c] = "open" /\ c \notin conns)
    BY <1>2, QuietClient
  <2> QED
    BY <1>2, <2>1, ClientMovesOnly
<1>3. ASSUME NEW c \in Client, connect_and_hello(c) PROVE ConnectSound'
  <2>1. /\ UNCHANGED <<phase, pc, conns, to_client>> /\ phase = "connect" /\ conn[c] = "none"
        /\ conn' = [conn EXCEPT ![c] = "open"]
        /\ \A d \in Client \ {c} : to_gateway'[d] = to_gateway[d]
        /\ \A d \in Client : conn[d] = "none" \/ pc[d] = "ready"
    BY <1>3 DEF connect_and_hello, may_connect, client, gateway, load, SessionTyped
  <2>2. conn'[c] = "open" /\ \A d \in Client \ {c} : conn'[d] = conn[d]
    BY <2>1 DEF SessionTyped
  <2> QED
    BY <2>1, <2>2
<1>4. CASE hello_fails \/ join
  <2>1. /\ UNCHANGED <<pc, conns, to_client, to_gateway>> /\ phase' = "returned"
        /\ \A d \in Client : conn'[d] # "open" /\ (conn'[d] = "none" => conn[d] = "none")
    BY <1>4 DEF hello_fails, join, all_closed, gateway
  <2> QED
    BY <2>1
<1>5. CASE start_threads
  BY <1>5 DEF start_threads, tcp, gateway
<1>6. CASE next_phase
  BY <1>6 DEF next_phase, tcp, gateway
<1>7. ASSUME NEW c \in Client, Accept(c) PROVE ConnectSound'
  BY <1>7 DEF Accept, client, load, tcp
<1>8. ASSUME NEW c \in Client, Handle(c) PROVE ConnectSound'
  <2>1. /\ UNCHANGED <<phase, pc, conn, conns, to_client>> /\ c \in conns
        /\ \A d \in Client \ {c} : to_gateway'[d] = to_gateway[d]
    BY <1>8 DEF Handle, client, load, SessionTyped
  <2> QED
    BY <2>1
<1>9. ASSUME NEW c \in Client, Reap(c) \/ \E k \in 1 .. Len(outbox[c]) : flush_outbox(c, k)
      PROVE  ConnectSound'
  <2>1. /\ UNCHANGED <<phase, pc, to_gateway>> /\ c \in conns
        /\ \A d \in Client \ {c} : /\ to_client'[d] = to_client[d] /\ conn'[d] = conn[d]
                                   /\ d \in conns' <=> d \in conns
        /\ conn'[c] = "none" => conn[c] = "none"
        /\ conn'[c] = "open" => c \in conns'
    BY <1>9 DEF Reap, flush_outbox, sent_on, client, load, SessionTyped
  <2> QED
    BY <2>1
<1>10. CASE Trade \/ Kill \/ Return
  BY <1>1, <1>10 DEF Trade, Kill, Return, client, load
<1>12. ASSUME NEW c \in Client, Break(c) PROVE ConnectSound'
  <2>1. /\ UNCHANGED <<phase, pc, conns, to_client, to_gateway>>
        /\ conn[c] = "open" /\ conn'[c] = "lost" /\ \A d \in Client \ {c} : conn'[d] = conn[d]
    BY <1>12 DEF Break, client, load, gateway, SessionTyped
  <2> QED
    BY <2>1
<1>13. CASE mode = "auto" /\ Subscribe /\ UNCHANGED <<client, tcp, gateway>>
  BY <1>1, <1>13 DEF client, load, gateway
<1> QED
  BY <1>2, <1>3, <1>4, <1>5, <1>6, <1>7, <1>8, <1>9, <1>10, <1>12, <1>13
     DEF Next, run_load, GatewayStep

-----------------------------------------------------------------------------
(* One operation in flight *)

LEMMA Lengths ==
    ASSUME SessionTyped, NEW c \in Client
    PROVE  /\ Len(to_gateway[c]) \in Nat /\ Len(outbox[c]) \in Nat /\ Len(to_client[c]) \in Nat
           /\ on_the_way(c) \in Nat
BY DEF SessionTyped, on_the_way

\* What is on the way of d is as it was.
LEMMA FlightKept ==
    ASSUME NEW d \in Client, flight_ok(d), pc'[d] = pc[d], conn'[d] # "none" => conn[d] # "none",
           conn'[d] = "open" => conn[d] = "open", on_the_way(d)' = on_the_way(d)
    PROVE  flight_ok(d)'
BY DEF flight_ok

LEMMA FlightClient ==
    ASSUME SessionTyped, ConnectSound, FlightSound, stp_ = "None", NEW c \in Client, ClientStep(c)
    PROVE  FlightSound'
<1>1. /\ dead = {} /\ (\A d \in Client : conn[d] # "dropped" /\ flight_ok(d)) /\ conn[c] # "none"
      /\ to_client \in [Client -> Seq(AnswerFrame)] /\ outbox \in [Client -> Seq(AnswerFrame)]
  BY QuietClient DEF FlightSound, ConnectSound
<1>2. to_gateway[c] \in Seq(OrderFrame) /\ to_client[c] \in Seq(AnswerFrame) /\ to_client[c] \in Seq(ReportFrame)
  BY <1>1 DEF SessionTyped
<1>3. /\ UNCHANGED <<conns, outbox, dead, at, stp_>>
      /\ \A d \in Client \ {c} : /\ pc'[d] = pc[d] /\ conn'[d] = conn[d]
                                 /\ to_gateway'[d] = to_gateway[d] /\ to_client'[d] = to_client[d]
      /\ conn'[c] \in {conn[c], "closed"}
  BY ClientMovesOnly
<1>4. ASSUME NEW d \in Client \ {c} PROVE flight_ok(d)'
  <2>1. on_the_way(d)' = on_the_way(d)
    BY <1>3 DEF on_the_way
  <2> QED
    BY <1>1, <1>3, <2>1, FlightKept
<1>5. /\ Len(to_gateway[c]) \in Nat /\ Len(outbox[c]) \in Nat /\ Len(to_client[c]) \in Nat
      /\ flight_ok(c) /\ on_the_way(c) \in {0, 1}
      /\ on_the_way(c) = Len(to_gateway[c]) + (IF at = c THEN 1 ELSE 0) + Len(outbox[c]) + Len(to_client[c])
      /\ on_the_way(c)' = Len(to_gateway'[c]) + (IF at = c THEN 1 ELSE 0) + Len(outbox[c]) + Len(to_client'[c])
  BY <1>1, <1>3, Lengths DEF on_the_way, flight_ok
<1>6. flight_ok(c)' /\ to_client' \in [Client -> Seq(AnswerFrame)]
  <2>1. CASE send_all(c)
    <3>1. PICK f \in OrderFrame : to_gateway' = [to_gateway EXCEPT ![c] = Append(@, f)]
      BY <2>1 DEF send_all, next_op, OrderFrame
    <3>2. pc[c] = "send" /\ pc'[c] = "wait" /\ to_gateway'[c] = Append(to_gateway[c], f) /\ to_client' = to_client
      BY <2>1, <3>1 DEF send_all, goes_on, SessionTyped
    <3>3. Len(to_gateway'[c]) = Len(to_gateway[c]) + 1
      BY <1>2, <3>2
    <3>4. on_the_way(c) = 0
      BY <1>1, <1>5, <3>2 DEF flight_ok
    <3>5. on_the_way(c)' = 1
      <4> DEFINE g == Len(to_gateway[c])   h == IF at = c THEN 1 ELSE 0
                 o == Len(outbox[c])       r == Len(to_client[c])
      <4>1. /\ g \in Nat /\ h \in Nat /\ o \in Nat /\ r \in Nat
            /\ g + h + o + r = 0 /\ on_the_way(c)' = (g + 1) + h + o + r
        BY <1>5, <3>2, <3>3, <3>4
      <4> HIDE DEF g, h, o, r
      <4> QED
        BY <4>1
    <3> QED
      BY <1>1, <3>2, <3>5 DEF flight_ok
  <2>2. ASSUME NEW k \in 1 .. Len(to_client[c]), read_reports(c, k)
        PROVE  flight_ok(c)' /\ to_client' \in [Client -> Seq(AnswerFrame)]
    <3>1. pc[c] \in {"hello", "wait"} /\ UNCHANGED <<conn, to_gateway>>
      BY <2>2 DEF read_reports
    <3>2. Len(to_client[c]) = 1 /\ on_the_way(c) = 1 /\ k = 1
      <4> DEFINE g == Len(to_gateway[c])   h == IF at = c THEN 1 ELSE 0
                 o == Len(outbox[c])       r == Len(to_client[c])
      <4>1. g \in Nat /\ h \in Nat /\ o \in Nat /\ r \in Nat /\ r >= 1
        BY <1>5
      <4>2. on_the_way(c) = g + h + o + r /\ on_the_way(c) \in {0, 1}
        BY <1>5
      <4>3. r = 1 /\ g + h + o + r = 1
        <5> HIDE DEF g, h, o, r
        <5> QED
          BY <4>1, <4>2
      <4>4. Len(to_client[c]) = 1 /\ k = 1
        BY <4>3
      <4>5. on_the_way(c) = 1
        <5> HIDE DEF g, h, o, r
        <5> QED
          BY <4>2, <4>3
      <4> QED
        BY <4>4, <4>5
    <3>3. to_client'[c] = << >> /\ to_client' \in [Client -> Seq(AnswerFrame)]
      BY <1>1, <1>2, <2>2, <3>2 DEF read_reports
    <3>4. decodes("ExecReport", to_client[c][1])
      BY <1>2, <3>2, ReportFramesDecode
    <3>5. pc'[c] \in {"ready", "acked", "send"}
      BY <2>2, <3>2, <3>4 DEF read_reports, SessionTyped
    <3>6. on_the_way(c)' = 0
      <4> DEFINE g == Len(to_gateway[c])   h == IF at = c THEN 1 ELSE 0
                 o == Len(outbox[c])       r == Len(to_client[c])
      <4>1. /\ g \in Nat /\ h \in Nat /\ o \in Nat /\ r = 1
            /\ on_the_way(c) = g + h + o + r /\ on_the_way(c)' = g + h + o + Len(to_client'[c])
        BY <1>5, <3>1, <3>2
      <4>2. Len(to_client'[c]) = 0
        BY <3>3
      <4>3. on_the_way(c)' = g + h + o + 0
        BY <4>1, <4>2
      <4>4. g + h + o + 1 = 1
        BY <3>2, <4>1
      <4> HIDE DEF g, h, o, r
      <4>5. g + h + o + 0 = 0
        BY <4>1, <4>4
      <4> QED
        BY <4>3, <4>5
    <3> QED
      BY <3>3, <3>5, <3>6 DEF flight_ok
  <2>3. CASE record_rtt(c)
    <3>1. pc[c] = "acked" /\ pc'[c] = "send" /\ UNCHANGED <<conn, to_gateway, to_client>>
      BY <2>3 DEF record_rtt, tcp, SessionTyped
    <3>2. on_the_way(c)' = on_the_way(c)
      BY <1>5, <3>1
    <3> QED
      BY <1>1, <3>1, <3>2 DEF flight_ok
  <2>4. CASE run_fails(c) \/ run_ends(c)
    <3>1. pc'[c] = "returned" /\ UNCHANGED <<to_gateway, to_client>>
      BY <2>4 DEF run_fails, run_ends, tcp, SessionTyped
    <3>2. on_the_way(c)' = on_the_way(c)
      BY <1>5, <3>1
    <3> QED
      BY <1>1, <1>5, <3>1, <3>2 DEF flight_ok
  <2> QED
    BY <2>1, <2>2, <2>3, <2>4 DEF ClientStep
<1>7. \A d \in Client : conn'[d] # "dropped"
  BY <1>1, <1>3
<1> QED
  BY <1>1, <1>3, <1>4, <1>6, <1>7 DEF FlightSound

LEMMA FlightLoad ==
    ASSUME SessionTyped, HandlerSound, ConnectSound, FlightSound, stp_ = "None", run_load
    PROVE  FlightSound'
<1>1. /\ dead = {} /\ (\A d \in Client : conn[d] # "dropped" /\ flight_ok(d))
      /\ to_client \in [Client -> Seq(AnswerFrame)] /\ outbox \in [Client -> Seq(AnswerFrame)]
  BY DEF FlightSound
<1>2. UNCHANGED <<conns, outbox, dead, at, stp_, to_client>>
  BY DEF run_load, connect_and_hello, hello_fails, start_threads, next_phase, join, gateway, tcp
<1>3. ASSUME UNCHANGED to_gateway, NEW d \in Client PROVE on_the_way(d)' = on_the_way(d)
  BY <1>2, <1>3 DEF on_the_way
<1>4. ASSUME NEW c \in Client, connect_and_hello(c)
      PROVE  \A d \in Client : conn'[d] # "dropped" /\ flight_ok(d)'
  <2>1. /\ UNCHANGED pc /\ conn[c] = "none" /\ conn' = [conn EXCEPT ![c] = "open"]
        /\ to_gateway' = [to_gateway EXCEPT ![c] = Append(@, encode(64, "Cancel", << >>))]
    BY <1>4 DEF connect_and_hello, client
  <2>2. pc[c] = "hello" /\ to_gateway[c] = << >> /\ to_client[c] = << >> /\ outbox[c] = << >> /\ at # c
    BY <2>1, ClientAssumption DEF ConnectSound, HandlerSound
  <2>3. Len(to_gateway'[c]) = 1 /\ Len(to_client[c]) = 0 /\ Len(outbox[c]) = 0
    BY <2>1, <2>2 DEF SessionTyped
  <2>4. on_the_way(c)' = 1
    BY <1>2, <2>2, <2>3 DEF on_the_way
  <2>5. conn'[c] # "dropped" /\ flight_ok(c)'
    BY <2>1, <2>2, <2>4 DEF flight_ok, SessionTyped
  <2>6. ASSUME NEW d \in Client \ {c} PROVE conn'[d] # "dropped" /\ flight_ok(d)'
    <3>1. conn'[d] = conn[d] /\ to_gateway'[d] = to_gateway[d]
      BY <2>1 DEF SessionTyped
    <3>2. on_the_way(d)' = on_the_way(d)
      BY <1>2, <3>1 DEF on_the_way
    <3> QED
      BY <1>1, <2>1, <3>1, <3>2, FlightKept
  <2> QED
    BY <2>5, <2>6
<1>5. CASE hello_fails \/ join
  <2>1. /\ UNCHANGED <<pc, to_gateway>>
        /\ \A d \in Client : conn'[d] = IF conn[d] = "open" THEN "closed" ELSE conn[d]
    BY <1>5 DEF hello_fails, join, all_closed
  <2>2. \A d \in Client : conn'[d] # "dropped" /\ flight_ok(d)'
    BY <1>1, <1>3, <2>1, FlightKept
  <2> QED
    BY <1>1, <1>2, <2>2 DEF FlightSound
<1>6. CASE start_threads
  <2>1. UNCHANGED <<conn, to_gateway>> /\ \A d \in Client : pc[d] = "ready" /\ pc'[d] = "send"
    BY <1>6 DEF start_threads, tcp
  <2>2. \A d \in Client : flight_ok(d)'
    BY <1>1, <1>3, <2>1 DEF flight_ok
  <2> QED
    BY <1>1, <1>2, <2>1, <2>2 DEF FlightSound
<1>7. CASE next_phase
  <2>1. UNCHANGED <<pc, conn, to_gateway>>
    BY <1>7 DEF next_phase, tcp
  <2>2. \A d \in Client : flight_ok(d)'
    BY <1>1, <1>3, <2>1, FlightKept
  <2> QED
    BY <1>1, <1>2, <2>1, <2>2 DEF FlightSound
<1> QED
  BY <1>1, <1>2, <1>4, <1>5, <1>6, <1>7 DEF run_load, FlightSound

LEMMA FlightGateway ==
    ASSUME SessionTyped, HandlerSound, ConnectSound, FlightSound, stp_ = "None", GatewayStep
    PROVE  FlightSound'
<1>1. /\ dead = {} /\ (\A d \in Client : conn[d] # "dropped" /\ flight_ok(d))
      /\ to_client \in [Client -> Seq(AnswerFrame)] /\ outbox \in [Client -> Seq(AnswerFrame)]
  BY DEF FlightSound
<1>2. UNCHANGED <<pc, stp_>>
  BY GatewayMoves
<1>3. CASE UNCHANGED <<tcp, outbox, dead, at>>
  <2>1. UNCHANGED <<conn, to_gateway, to_client, outbox, dead, at>>
    BY <1>3 DEF tcp
  <2>2. \A d \in Client : on_the_way(d)' = on_the_way(d)
    BY <2>1 DEF on_the_way
  <2>3. \A d \in Client : flight_ok(d)'
    BY <1>1, <1>2, <2>1, <2>2, FlightKept
  <2> QED
    BY <1>1, <2>1, <2>3 DEF FlightSound
<1>4. ASSUME NEW c \in Client, Handle(c) PROVE FlightSound'
  <2>1. to_gateway[c] \in Seq(OrderFrame) /\ to_gateway[c] # << >>
    BY <1>4 DEF Handle, SessionTyped
  <2>2. Head(to_gateway[c]) \in OrderFrame
    BY <2>1
  <2>3. {name \in {"NewOrder", "Market", "Cancel", "Modify"} : is_message(name, Head(to_gateway[c]))} # {}
    BY <2>2, OrderFramesDecode
  <2>4. /\ UNCHANGED <<conn, to_client, outbox, dead>> /\ at = nobody /\ at' = c
        /\ to_gateway' = [to_gateway EXCEPT ![c] = Tail(@)]
    BY <1>4, <2>3 DEF Handle
  <2>5. to_gateway'[c] = Tail(to_gateway[c]) /\ \A d \in Client \ {c} : to_gateway'[d] = to_gateway[d]
    BY <2>4 DEF SessionTyped
  <2>6. Len(to_gateway'[c]) = Len(to_gateway[c]) - 1 /\ Len(to_gateway[c]) \in Nat
    BY <2>1, <2>5
  <2>7. at' = c /\ \A d \in Client : at # d
    BY <2>4, ClientAssumption
  <2>8. ASSUME NEW d \in Client PROVE on_the_way(d)' = on_the_way(d)
    <3>1. CASE d = c
      <4> DEFINE g == Len(to_gateway[c])   o == Len(outbox[c])   r == Len(to_client[c])
      <4>1. g \in Nat /\ o \in Nat /\ r \in Nat
        BY Lengths
      <4>2. on_the_way(c) = g + 0 + o + r
        BY <2>7 DEF on_the_way
      <4>3. on_the_way(c)' = (g - 1) + 1 + o + r
        BY <2>4, <2>6, <2>7 DEF on_the_way
      <4> HIDE DEF g, o, r
      <4> QED
        BY <3>1, <4>1, <4>2, <4>3
    <3>2. CASE d # c
      BY <2>4, <2>5, <2>7, <3>2 DEF on_the_way
    <3> QED
      BY <3>1, <3>2
  <2>9. \A d \in Client : flight_ok(d)'
    BY <1>1, <1>2, <2>4, <2>8, FlightKept
  <2> QED
    BY <1>1, <2>4, <2>9 DEF FlightSound
<1>5. CASE Return
  <2>1. at \in Client /\ at \in conns /\ send_exec(0) /\ at' = nobody /\ UNCHANGED <<conn, to_gateway, to_client>>
    BY <1>5 DEF Return, SessionTyped, HandlerSound, tcp
  <2>2. PICK c \in Client : c = at
    BY <2>1
  <2>3. /\ Len(to_gateway[c]) \in Nat /\ Len(outbox[c]) \in Nat /\ Len(to_client[c]) \in Nat
        /\ on_the_way(c) = Len(to_gateway[c]) + 1 + Len(outbox[c]) + Len(to_client[c])
    BY <2>2, Lengths DEF on_the_way
  <2>4. on_the_way(c) \in {0, 1}
    <3>1. conn[c] # "none"
      BY <2>1, <2>2 DEF ConnectSound
    <3> QED
      BY <1>1, <3>1 DEF flight_ok
  <2>5. Len(outbox[c]) = 0
    <3> DEFINE g == Len(to_gateway[c])   o == Len(outbox[c])   r == Len(to_client[c])
    <3>1. g \in Nat /\ o \in Nat /\ r \in Nat /\ g + 1 + o + r \in {0, 1}
      BY <2>3, <2>4
    <3>2. o = 0
      <4> HIDE DEF g, o, r
      <4> QED
        BY <3>1
    <3> QED
      BY <3>2
  <2>6. ~(Len(outbox[at]) + 1 > kMaxOutbox)
    BY <2>2, <2>5, OutboxAssumption
  <2>7. UNCHANGED dead /\ outbox' = [outbox EXCEPT ![c] = Append(@, encode(64, "ExecReport", <<0>>))]
    BY <2>1, <2>2, <2>6 DEF send_exec
  <2>8. /\ outbox' \in [Client -> Seq(AnswerFrame)] /\ Len(outbox'[c]) = Len(outbox[c]) + 1
        /\ \A d \in Client \ {c} : outbox'[d] = outbox[d]
    <3>1. encode(64, "ExecReport", <<0>>) \in AnswerFrame /\ outbox[c] \in Seq(AnswerFrame)
      BY <1>1 DEF AnswerFrame
    <3>2. PICK r \in AnswerFrame : r = encode(64, "ExecReport", <<0>>)
      BY <3>1
    <3> QED
      BY <1>1, <2>7, <3>1, <3>2
  <2>9. \A d \in Client : at' # d
    BY <2>1, ClientAssumption
  <2>10. ASSUME NEW d \in Client PROVE on_the_way(d)' = on_the_way(d)
    <3>1. CASE d = c
      <4> DEFINE g == Len(to_gateway[c])   o == Len(outbox[c])   r == Len(to_client[c])
      <4>1. g \in Nat /\ o \in Nat /\ r \in Nat /\ on_the_way(c) = g + 1 + o + r
        BY <2>3
      <4>2. on_the_way(c)' = g + 0 + (o + 1) + r
        BY <2>1, <2>8, <2>9 DEF on_the_way
      <4> HIDE DEF g, o, r
      <4> QED
        BY <3>1, <4>1, <4>2
    <3>2. CASE d # c
      BY <2>1, <2>2, <2>8, <2>9, <3>2 DEF on_the_way
    <3> QED
      BY <3>1, <3>2
  <2>11. \A d \in Client : flight_ok(d)'
    BY <1>1, <1>2, <2>1, <2>10, FlightKept
  <2> QED
    BY <1>1, <2>1, <2>7, <2>8, <2>11 DEF FlightSound
<1>6. ASSUME NEW c \in Client, NEW k \in 1 .. Len(outbox[c]), flush_outbox(c, k) PROVE FlightSound'
  <2>1. /\ UNCHANGED <<conn, to_gateway, dead, at>>
        /\ to_client' = [to_client EXCEPT ![c] = @ \o SubSeq(outbox[c], 1, k)]
        /\ outbox' = [outbox EXCEPT ![c] = SubSeq(@, k + 1, Len(@))]
    BY <1>6 DEF flush_outbox, sent_on
  <2>2. outbox[c] \in Seq(AnswerFrame) /\ to_client[c] \in Seq(AnswerFrame)
    BY <1>1
  <2>3. /\ SubSeq(outbox[c], 1, k) \in Seq(AnswerFrame) /\ Len(SubSeq(outbox[c], 1, k)) = k
        /\ SubSeq(outbox[c], k + 1, Len(outbox[c])) \in Seq(AnswerFrame)
        /\ Len(SubSeq(outbox[c], k + 1, Len(outbox[c]))) = Len(outbox[c]) - k
    BY <2>2
  <2>4. /\ to_client' \in [Client -> Seq(AnswerFrame)] /\ outbox' \in [Client -> Seq(AnswerFrame)]
        /\ Len(to_client'[c]) = Len(to_client[c]) + k /\ Len(outbox'[c]) = Len(outbox[c]) - k
        /\ \A d \in Client \ {c} : to_client'[d] = to_client[d] /\ outbox'[d] = outbox[d]
    BY <1>1, <2>1, <2>2, <2>3
  <2>5. ASSUME NEW d \in Client PROVE on_the_way(d)' = on_the_way(d)
    <3>1. CASE d = c
      <4> DEFINE g == Len(to_gateway[c])   h == IF at = c THEN 1 ELSE 0
                 o == Len(outbox[c])       r == Len(to_client[c])
      <4>1. /\ g \in Nat /\ h \in Nat /\ o \in Nat /\ r \in Nat /\ k \in Nat
            /\ on_the_way(c) = g + h + o + r
        BY Lengths DEF on_the_way
      <4>2. on_the_way(c)' = g + h + (o - k) + (r + k)
        BY <2>1, <2>4 DEF on_the_way
      <4> HIDE DEF g, h, o, r
      <4> QED
        BY <3>1, <4>1, <4>2
    <3>2. CASE d # c
      BY <2>1, <2>4, <3>2 DEF on_the_way
    <3> QED
      BY <3>1, <3>2
  <2>6. \A d \in Client : flight_ok(d)'
    BY <1>1, <1>2, <2>1, <2>5, FlightKept
  <2> QED
    BY <1>1, <2>1, <2>4, <2>6 DEF FlightSound
<1>7. ASSUME NEW c \in Client, Reap(c) PROVE FlightSound'
  <2>1. /\ conn[c] # "open" /\ UNCHANGED <<to_gateway, at>> /\ dead' = {} /\ sent_on(c, 0)
        /\ conn' = [conn EXCEPT ![c] = IF @ = "open" THEN "dropped" ELSE @]
        /\ outbox' = [outbox EXCEPT ![c] = << >>]
    BY <1>1, <1>7 DEF Reap
  <2>2. conn' = conn
    BY <2>1 DEF SessionTyped
  <2>3. to_client[c] \o SubSeq(outbox[c], 1, 0) = to_client[c]
    BY <1>1
  <2>4. to_client' = to_client
    BY <1>1, <2>1, <2>3 DEF sent_on
  <2>5. /\ outbox' \in [Client -> Seq(AnswerFrame)] /\ Len(outbox'[c]) = 0
        /\ \A d \in Client \ {c} : outbox'[d] = outbox[d]
    BY <1>1, <2>1
  <2>6. ASSUME NEW d \in Client \ {c} PROVE flight_ok(d)'
    <3>1. on_the_way(d)' = on_the_way(d)
      BY <2>1, <2>4, <2>5 DEF on_the_way
    <3> QED
      BY <1>1, <1>2, <2>2, <3>1, FlightKept
  <2>7. flight_ok(c)'
    <3>1. on_the_way(c)' \in Nat /\ on_the_way(c)' <= on_the_way(c) /\ on_the_way(c) \in Nat
      <4> DEFINE g == Len(to_gateway[c])   h == IF at = c THEN 1 ELSE 0
                 o == Len(outbox[c])       r == Len(to_client[c])
      <4>1. /\ g \in Nat /\ h \in Nat /\ o \in Nat /\ r \in Nat
            /\ on_the_way(c) = g + h + o + r
        BY Lengths DEF on_the_way
      <4>2. on_the_way(c)' = g + h + 0 + r
        BY <2>1, <2>4, <2>5 DEF on_the_way
      <4> HIDE DEF g, h, o, r
      <4> QED
        BY <4>1, <4>2
    <3>2. ASSUME conn[c] # "none" PROVE on_the_way(c)' \in {0, 1} /\ (on_the_way(c)' = 1 => on_the_way(c) = 1)
      BY <1>1, <3>1, <3>2 DEF flight_ok
    <3> QED
      BY <1>1, <1>2, <2>1, <2>2, <3>2 DEF flight_ok
  <2> QED
    BY <1>1, <2>1, <2>2, <2>4, <2>5, <2>6, <2>7 DEF FlightSound
<1>8. ~Kill
  BY DEF Kill
<1> QED
  BY <1>3, <1>4, <1>5, <1>6, <1>7, <1>8 DEF GatewayStep, Accept, Trade

LEMMA FlightStep == ASSUME SessionTyped, HandlerSound, ConnectSound, FlightSound, Next PROVE FlightSound'
<1>1. UNCHANGED stp_
  BY ClientMoves, GatewayMoves DEF Next, gateway
<1>2. CASE stp_ # "None"
  BY <1>1, <1>2 DEF FlightSound
<1>3. CASE stp_ = "None"
  <2>1. ASSUME UNCHANGED <<pc, to_gateway, to_client, outbox, dead, at>>,
               \A d \in Client : conn'[d] \in {conn[d], "lost"} /\ (conn'[d] = "lost" => conn[d] # "none")
        PROVE  FlightSound'
    <3>1. \A d \in Client : on_the_way(d)' = on_the_way(d)
      BY <2>1 DEF on_the_way
    <3>2. \A d \in Client : flight_ok(d) /\ conn[d] # "dropped"
      BY <1>3 DEF FlightSound
    <3>3. \A d \in Client : flight_ok(d)' /\ conn'[d] # "dropped"
      BY <2>1, <3>1, <3>2, FlightKept
    <3> QED
      BY <1>1, <1>3, <2>1, <3>3 DEF FlightSound
  <2>2. ASSUME NEW c \in Client, Break(c) PROVE FlightSound'
    <3>1. /\ UNCHANGED <<pc, to_gateway, to_client, outbox, dead, at>> /\ conn[c] = "open"
          /\ conn' = [conn EXCEPT ![c] = "lost"]
      BY <2>2 DEF Break, client, gateway
    <3>2. \A d \in Client : conn'[d] \in {conn[d], "lost"} /\ (conn'[d] = "lost" => conn[d] # "none")
      BY <3>1 DEF SessionTyped
    <3> QED
      BY <2>1, <3>1, <3>2
  <2>3. CASE mode = "auto" /\ Subscribe /\ UNCHANGED <<client, tcp, gateway>>
    <3>1. UNCHANGED <<pc, conn, to_gateway, to_client, outbox, dead, at>>
      BY <2>3 DEF client, tcp, gateway
    <3>2. \A d \in Client : flight_ok(d)'
      <4>1. \A d \in Client : on_the_way(d)' = on_the_way(d)
        BY <3>1 DEF on_the_way
      <4> QED
        BY <1>3, <3>1, <4>1, FlightKept DEF FlightSound
    <3> QED
      BY <1>1, <1>3, <3>1, <3>2 DEF FlightSound
  <2> QED
    BY <1>3, <2>2, <2>3, FlightClient, FlightLoad, FlightGateway DEF Next
<1> QED
  BY <1>2, <1>3

-----------------------------------------------------------------------------
(* The feed *)

LEMMA PublishStep ==
    ASSUME NetSound, on_trade(kMaxSide) \/ publish_book
    PROVE  /\ seq_' = seq_ + 1 /\ NetSound' /\ UNCHANGED subscriber
           /\ \A k \in 1 .. seq_ : net'[k] = net[k]
           /\ publish_book => net'[seq_ + 1].frame = BookFrame
<1>1. seq_ \in Nat /\ net \in Seq(Datagram) /\ seq_ = Len(net)
  BY DEF NetSound
<1>2. PICK d \in Datagram : /\ net' = Append(net, d) /\ d.seq = seq_ + 1 /\ seq_' = seq_ + 1 /\ UNCHANGED subscriber
                            /\ d.frame = BookFrame => d.top = seq_ + 1
                            /\ publish_book => d.frame = BookFrame
  <2>1. CASE on_trade(kMaxSide)
    <3>1. /\ net' = Append(net, [frame |-> TradeFrame, seq |-> seq_ + 1, top |-> 0])
          /\ seq_' = seq_ + 1 /\ UNCHANGED subscriber
      BY <2>1, FeedFramesDecode DEF on_trade, send_datagram, next_seq, TradeFrame
    <3>2. [frame |-> TradeFrame, seq |-> seq_ + 1, top |-> 0] \in Datagram
      BY <1>1 DEF Datagram
    <3>3. ~publish_book
      <4>1. SUFFICES ASSUME publish_book PROVE FALSE
        OBVIOUS
      <4>2. net' = Append(net, [frame |-> BookFrame, seq |-> seq_ + 1, top |-> seq_ + 1])
        BY <4>1, FeedFramesDecode DEF publish_book, send_datagram, next_seq, BookFrame
      <4>3. net'[seq_ + 1].frame = BookFrame /\ net'[seq_ + 1].frame = TradeFrame
        BY <1>1, <3>1, <4>2
      <4> QED
        BY <4>3, FeedFramesDecode
    <3> QED
      BY <3>1, <3>2, <3>3, FeedFramesDecode
  <2>2. CASE publish_book
    <3>1. /\ net' = Append(net, [frame |-> BookFrame, seq |-> seq_ + 1, top |-> seq_ + 1])
          /\ seq_' = seq_ + 1 /\ UNCHANGED subscriber
      BY <2>2, FeedFramesDecode DEF publish_book, send_datagram, next_seq, BookFrame
    <3>2. [frame |-> BookFrame, seq |-> seq_ + 1, top |-> seq_ + 1] \in Datagram
      BY <1>1 DEF Datagram
    <3> QED
      BY <3>1, <3>2
  <2> QED
    BY <2>1, <2>2
<1>3. /\ net' \in Seq(Datagram) /\ Len(net') = seq_ + 1 /\ net'[seq_ + 1] = d
      /\ DOMAIN net' = 1 .. (seq_ + 1) /\ \A k \in 1 .. seq_ : net'[k] = net[k]
  BY <1>1, <1>2
<1>4. NetSound'
  <2>1. \A k \in 1 .. (seq_ + 1) : k \in 1 .. seq_ \/ k = seq_ + 1
    BY <1>1
  <2>2. \A k \in 1 .. seq_ : net[k].seq = k /\ (net[k].frame = BookFrame => net[k].top = k)
    BY <1>1 DEF NetSound
  <2> QED
    BY <1>2, <1>3, <2>1, <2>2 DEF NetSound
<1> QED
  BY <1>2, <1>3, <1>4

\* A message published does not change what was sent before it.
LEMMA SubscriberKept ==
    ASSUME NetSound, SubscriberSound, seq_' = seq_ + 1 \/ seq_' = seq_, UNCHANGED subscriber,
           \A k \in 1 .. seq_ : net'[k] = net[k]
    PROVE  SubscriberSound'
<1>1. /\ seq_ \in Nat /\ seq_' \in Nat /\ last_seq \in 0 .. seq_ /\ first_seq \in 0 .. seq_
      /\ UNCHANGED <<last_seq, gaps, trades, books, bad, n_msgs, last_top, first_seq>>
  BY DEF NetSound, SubscriberSound, subscriber
<1>2. ASSUME gaps = 0, last_seq # 0 PROVE CountSound'
  <2>1. first_seq \in 1 .. last_seq /\ CountSound
    BY <1>2 DEF SubscriberSound
  <2>2. \A k \in first_seq .. last_seq : net'[k] = net[k]
    BY <1>1, <2>1
  <2>3. \A f : sent(f, first_seq, last_seq)' = sent(f, first_seq, last_seq)
    BY <1>1, <2>2 DEF sent
  <2>4. \A k \in sent(BookFrame, first_seq, last_seq) : net'[k] = net[k]
    BY <2>2 DEF sent
  <2> QED
    BY <1>1, <2>1, <2>3, <2>4 DEF CountSound
<1>3. last_seq \in 0 .. seq_' /\ first_seq \in 0 .. seq_'
  BY <1>1
<1> QED
  BY <1>1, <1>2, <1>3 DEF SubscriberSound

\* The messages of a kind up to one place more.
LEMMA SentOneMore ==
    ASSUME NEW f, NEW a \in Nat, NEW b \in Nat, a <= b
    PROVE  /\ IsFiniteSet(sent(f, a, b)) /\ b + 1 \notin sent(f, a, b)
           /\ \A j \in sent(f, a, b) : j \in Int /\ j <= b
           /\ net[b + 1].frame = f => sent(f, a, b + 1) = sent(f, a, b) \cup {b + 1}
           /\ net[b + 1].frame # f => sent(f, a, b + 1) = sent(f, a, b)
<1>1. IsFiniteSet(a .. b)
  BY FS_Interval
<1>2. sent(f, a, b) \subseteq a .. b
  BY DEF sent
<1>3. IsFiniteSet(sent(f, a, b))
  BY <1>1, <1>2, FS_Subset
<1>4. a .. (b + 1) = (a .. b) \cup {b + 1}
  OBVIOUS
<1> QED
  BY <1>2, <1>3, <1>4 DEF sent

\* A subscriber that has seen no gap receives the message after its last one.
LEMMA NextMessage ==
    ASSUME NetSound, SubscriberSound, gaps = 0, last_seq # 0,
           last_seq + 1 \in 1 .. seq_, receive_message(net[last_seq + 1])
    PROVE  CountSound'
<1> DEFINE k == last_seq + 1
           T == sent(TradeFrame, first_seq, last_seq)
           B == sent(BookFrame, first_seq, last_seq)
<1>1. /\ CountSound /\ first_seq \in 1 .. last_seq /\ last_seq \in Nat /\ first_seq \in Nat
      /\ trades \in Nat /\ books \in Nat /\ n_msgs \in Nat /\ seq_ \in Nat
  BY DEF SubscriberSound, NetSound
<1>2. net[k] \in Datagram /\ net[k].seq = k
  BY DEF NetSound
<1>3. /\ last_seq' = k /\ first_seq' = first_seq /\ n_msgs' = n_msgs + 1 /\ net' = net
  BY <1>1, <1>2 DEF receive_message
<1>4. /\ IsFiniteSet(T) /\ k \notin T /\ IsFiniteSet(B) /\ k \notin B /\ \A j \in B : j \in Int /\ j <= last_seq
  <2>1. first_seq <= last_seq
    BY <1>1
  <2>2. IsFiniteSet(T) /\ k \notin T
    BY <1>1, <2>1, SentOneMore
  <2>3. IsFiniteSet(B) /\ k \notin B /\ \A j \in B : j \in Int /\ j <= last_seq
    BY <1>1, <2>1, SentOneMore
  <2> QED
    BY <2>2, <2>3
<1>5. n_msgs' = last_seq' - first_seq' + 1
  BY <1>1, <1>3 DEF CountSound
<1>6. CASE net[k].frame = TradeFrame
  <2>1. trades' = trades + 1 /\ UNCHANGED <<books, last_top>>
    BY <1>6, FeedFramesDecode DEF receive_message
  <2>2. sent(TradeFrame, first_seq, k) = T \cup {k} /\ sent(BookFrame, first_seq, k) = B
    <3>1. TradeFrame # BookFrame /\ first_seq <= last_seq
      BY <1>1, FeedFramesDecode
    <3>2. sent(TradeFrame, first_seq, k) = T \cup {k}
      BY <1>1, <1>6, <3>1, SentOneMore
    <3>3. sent(BookFrame, first_seq, k) = B
      BY <1>1, <1>6, <3>1, SentOneMore
    <3> QED
      BY <3>2, <3>3
  <2>3. Cardinality(T \cup {k}) = Cardinality(T) + 1
    BY <1>4, FS_AddElement
  <2>4. sent(TradeFrame, first_seq, last_seq)' = T \cup {k} /\ sent(BookFrame, first_seq, last_seq)' = B
    BY <1>3, <2>2 DEF sent
  <2>5. trades' = Cardinality(T \cup {k}) /\ books' = Cardinality(B)
    BY <1>1, <2>1, <2>3 DEF CountSound
  <2>6. B # {} => \E j \in B : last_top' = net'[j].top /\ \A l \in B : l <= j
    BY <1>1, <1>3, <2>1 DEF CountSound
  <2> HIDE DEF T, B, k
  <2> QED
    BY <1>5, <2>4, <2>5, <2>6 DEF CountSound
<1>7. CASE net[k].frame = BookFrame
  <2>1. books' = books + 1 /\ last_top' = net[k].top /\ UNCHANGED trades
    BY <1>7, FeedFramesDecode DEF receive_message
  <2>2. sent(BookFrame, first_seq, k) = B \cup {k} /\ sent(TradeFrame, first_seq, k) = T
    <3>1. TradeFrame # BookFrame /\ first_seq <= last_seq
      BY <1>1, FeedFramesDecode
    <3>2. sent(BookFrame, first_seq, k) = B \cup {k}
      BY <1>1, <1>7, <3>1, SentOneMore
    <3>3. sent(TradeFrame, first_seq, k) = T
      BY <1>1, <1>7, <3>1, SentOneMore
    <3> QED
      BY <3>2, <3>3
  <2>3. Cardinality(B \cup {k}) = Cardinality(B) + 1
    BY <1>4, FS_AddElement
  <2>4. sent(BookFrame, first_seq, last_seq)' = B \cup {k} /\ sent(TradeFrame, first_seq, last_seq)' = T
    BY <1>3, <2>2 DEF sent
  <2>5. books' = Cardinality(B \cup {k}) /\ trades' = Cardinality(T)
    BY <1>1, <2>1, <2>3 DEF CountSound
  <2>6. \E j \in B \cup {k} : last_top' = net'[j].top /\ \A l \in B \cup {k} : l <= j
    <3>1. k \in B \cup {k} /\ last_top' = net'[k].top
      BY <1>3, <2>1
    <3>2. \A l \in B \cup {k} : l <= k
      BY <1>1, <1>4
    <3> QED
      BY <3>1, <3>2
  <2> HIDE DEF T, B, k
  <2> QED
    BY <1>5, <2>4, <2>5, <2>6 DEF CountSound
<1> QED
  BY <1>2, <1>6, <1>7 DEF Datagram

\* The first message a subscriber receives is the one it counts from.
LEMMA FirstMessage ==
    ASSUME NetSound, SubscriberSound, last_seq = 0, NEW k \in 1 .. seq_, receive_message(net[k])
    PROVE  CountSound'
<1>1. first_seq = 0 /\ trades = 0 /\ books = 0 /\ n_msgs = 0 /\ seq_ \in Nat /\ k \in Nat
  BY DEF SubscriberSound, NetSound
<1>2. net[k] \in Datagram /\ net[k].seq = k
  BY DEF NetSound
<1>3. /\ last_seq' = k /\ first_seq' = k /\ n_msgs' = 1 /\ net' = net
  BY <1>1, <1>2 DEF receive_message
<1>4. \A f : sent(f, first_seq, last_seq)' = IF net[k].frame = f THEN {k} ELSE {}
  <2>1. k .. k = {k}
    BY <1>1
  <2> QED
    BY <1>3, <2>1 DEF sent
<1>5. Cardinality({}) = 0 /\ Cardinality({k}) = 1
  BY FS_EmptySet, FS_Singleton
<1>6. n_msgs' = last_seq' - first_seq' + 1
  BY <1>1, <1>3
<1>7. CASE net[k].frame = TradeFrame
  <2>1. trades' = 1 /\ books' = 0
    BY <1>1, <1>7, FeedFramesDecode DEF receive_message
  <2>2. sent(TradeFrame, first_seq, last_seq)' = {k} /\ sent(BookFrame, first_seq, last_seq)' = {}
    BY <1>4, <1>7, FeedFramesDecode
  <2> QED
    BY <1>5, <1>6, <2>1, <2>2 DEF CountSound
<1>8. CASE net[k].frame = BookFrame
  <2>1. trades' = 0 /\ books' = 1 /\ last_top' = net'[k].top
    BY <1>1, <1>3, <1>8, FeedFramesDecode DEF receive_message
  <2>2. sent(TradeFrame, first_seq, last_seq)' = {} /\ sent(BookFrame, first_seq, last_seq)' = {k}
    BY <1>4, <1>8, FeedFramesDecode
  <2> QED
    BY <1>1, <1>5, <1>6, <2>1, <2>2 DEF CountSound
<1> QED
  BY <1>2, <1>7, <1>8 DEF Datagram

LEMMA SubscribeStep == ASSUME NetSound, SubscriberSound, Subscribe PROVE SubscriberSound' /\ UNCHANGED <<seq_, net>>
<1>1. /\ gaps \in Nat /\ bad \in Nat /\ bad <= MaxBad /\ trades \in Nat /\ books \in Nat /\ n_msgs \in Nat
      /\ last_seq \in 0 .. seq_ /\ first_seq \in 0 .. seq_ /\ seq_ \in Nat /\ DOMAIN net = 1 .. seq_
  BY DEF SubscriberSound, NetSound
<1>2. ASSUME NEW f \in Foreign, bad < MaxBad, Receive([frame |-> f, seq |-> 0, top |-> 0])
      PROVE  SubscriberSound' /\ UNCHANGED <<seq_, net>>
  <2>1. receive_bad
    BY <1>2, ForeignRefused DEF Receive
  <2>2. /\ bad' = bad + 1
        /\ UNCHANGED <<seq_, net, last_seq, gaps, trades, books, n_msgs, last_top, first_seq>>
    BY <2>1 DEF receive_bad
  <2>3. bad' \in Nat /\ bad' <= MaxBad
    BY <1>1, <1>2, <2>2, FeedBoundAssumption
  <2>4. CountSound' <=> CountSound
    BY <2>2 DEF CountSound, sent
  <2> QED
    BY <2>2, <2>3, <2>4 DEF SubscriberSound
<1>3. ASSUME NEW k \in 1 .. seq_, Receive(net[k])
      PROVE  SubscriberSound' /\ UNCHANGED <<seq_, net>>
  <2>1. net[k] \in Datagram /\ net[k].seq = k
    BY <1>1 DEF NetSound
  <2>2. receive_message(net[k])
    BY <1>3, <2>1, FeedFramesDecode DEF Receive, Datagram
  <2>3. /\ last_seq' = k /\ n_msgs' = n_msgs + 1 /\ UNCHANGED <<seq_, net, bad>>
        /\ first_seq' = IF first_seq = 0 THEN k ELSE first_seq
        /\ gaps' = IF is_gap(k) THEN gaps + 1 ELSE gaps
        /\ trades' \in {trades, trades + 1} /\ books' \in {books, books + 1}
    BY <2>1, <2>2 DEF receive_message
  <2>4. /\ gaps' \in Nat /\ trades' \in Nat /\ books' \in Nat /\ n_msgs' \in Nat
        /\ last_seq' \in 0 .. seq_ /\ first_seq' \in 0 .. seq_ /\ last_seq' # 0
    BY <1>1, <2>3
  <2>5. ASSUME gaps' = 0 PROVE first_seq' \in 1 .. last_seq' /\ CountSound'
    <3>1. gaps = 0 /\ ~is_gap(k)
      BY <1>1, <2>3, <2>5
    <3>2. CASE last_seq = 0
      <4>1. first_seq' = k
        BY <2>3, <3>2 DEF SubscriberSound
      <4> QED
        BY <1>1, <2>2, <2>3, <3>2, <4>1, FirstMessage
    <3>3. CASE last_seq # 0
      <4>1. k = last_seq + 1
        BY <3>1, <3>3 DEF is_gap
      <4>2. first_seq \in 1 .. last_seq
        BY <3>1, <3>3 DEF SubscriberSound
      <4> QED
        BY <1>1, <2>2, <2>3, <3>1, <3>3, <4>1, <4>2, NextMessage
    <3> QED
      BY <3>2, <3>3
  <2> QED
    BY <1>1, <2>3, <2>4, <2>5 DEF SubscriberSound
<1> QED
  BY <1>1, <1>2, <1>3 DEF Subscribe

LEMMA FeedStep ==
    ASSUME SessionTyped, HandlerSound, NetSound, TopSound, SubscriberSound, Next
    PROVE  NetSound' /\ TopSound' /\ SubscriberSound'
<1>1. ASSUME UNCHANGED <<feed_vars, mode>>, seq_ = 0 \/ (at' = nobody => at = nobody /\ top' = top)
      PROVE  NetSound' /\ TopSound' /\ SubscriberSound'
  <2>1. UNCHANGED <<seq_, net, last_seq, gaps, trades, books, bad, n_msgs, last_top, first_seq, mode>>
    BY <1>1 DEF feed_vars, subscriber
  <2>2. CountSound' <=> CountSound
    BY <2>1 DEF CountSound, sent
  <2> QED
    BY <1>1, <2>1, <2>2 DEF NetSound, TopSound, SubscriberSound
<1>2. CASE mode = "auto" /\ Subscribe /\ UNCHANGED <<client, tcp, gateway>>
  <2>1. SubscriberSound' /\ UNCHANGED <<seq_, net, mode, at, top>>
    BY <1>2, SubscribeStep DEF client, gateway
  <2> QED
    BY <2>1 DEF NetSound, TopSound
<1>3. CASE Trade /\ mode = "auto"
  <2>1. on_trade(kMaxSide) /\ UNCHANGED <<mode, at>> /\ at # nobody
    BY <1>3 DEF Trade, send_feed, client, matching, HandlerSound
  <2>2. NetSound' /\ SubscriberSound'
    BY <2>1, PublishStep, SubscriberKept
  <2> QED
    BY <1>3, <2>1, <2>2 DEF TopSound
<1>4. ASSUME send_book, mode = "auto", UNCHANGED mode
      PROVE  NetSound' /\ TopSound' /\ SubscriberSound'
  <2>1. publish_book /\ top' = seq_ + 1
    BY <1>4 DEF send_book, send_feed, next_seq
  <2>2. NetSound' /\ SubscriberSound'
    BY <2>1, PublishStep, SubscriberKept
  <2>3. net'[seq_'].frame = BookFrame /\ top' = seq_'
    BY <2>1, PublishStep
  <2> QED
    BY <1>4, <2>2, <2>3 DEF TopSound
<1>5. CASE (\E c \in Client : ClientStep(c)) \/ run_load
  BY <1>1, <1>5, ClientMoves DEF gateway
<1>6. ASSUME NEW c \in Client, Accept(c) \/ Handle(c) \/ Break(c) \/ \E k \in 1 .. Len(outbox[c]) : flush_outbox(c, k)
      PROVE  NetSound' /\ TopSound' /\ SubscriberSound'
  <2>1. UNCHANGED <<feed_vars, mode, top>> /\ (at' = nobody => at = nobody)
    BY <1>6, ClientAssumption DEF Accept, Handle, Break, flush_outbox, client, gateway
  <2> QED
    BY <1>1, <2>1
<1>7. CASE Kill \/ (Trade /\ mode # "auto")
  <2>1. UNCHANGED <<feed_vars, mode, top, at>>
    BY <1>7 DEF Kill, Trade, send_feed, client
  <2> QED
    BY <1>1, <2>1
<1>8. ASSUME Return \/ \E c \in Client : Reap(c)
      PROVE  NetSound' /\ TopSound' /\ SubscriberSound'
  <2>1. UNCHANGED mode /\ (send_book \/ UNCHANGED <<feed_vars, top, at>>)
    BY <1>8 DEF Return, Reap, client
  <2>2. CASE mode # "auto" /\ send_book
    <3>1. UNCHANGED feed_vars /\ seq_ = 0
      BY <2>2 DEF send_book, send_feed, TopSound
    <3> QED
      BY <1>1, <2>1, <3>1
  <2>3. CASE UNCHANGED <<feed_vars, top, at>>
    BY <1>1, <2>1, <2>3
  <2> QED
    BY <1>4, <2>1, <2>2, <2>3
<1> QED
  BY <1>2, <1>3, <1>5, <1>6, <1>7, <1>8 DEF Next, GatewayStep

-----------------------------------------------------------------------------
(* The inductive invariant *)

LEMMA InitIInv == Init => IInv
<1> SUFFICES ASSUME Init PROVE IInv
  OBVIOUS
<1>1. SessionTyped
  BY DEF Init, SessionTyped, PcValue, ConnValue, PhaseValue
<1>2. HandlerSound
  BY DEF Init, HandlerSound
<1>3. WindowSound
  BY DEF Init, WindowSound, window_ok
<1>4. ConnectSound
  BY DEF Init, ConnectSound
<1>5. FlightSound
  <2>1. \A c \in Client : flight_ok(c)
    BY ClientAssumption DEF Init, flight_ok, on_the_way
  <2> QED
    BY <2>1 DEF Init, FlightSound
<1>6. NetSound /\ TopSound
  BY DEF Init, FeedInit, NetSound, TopSound
<1>7. SubscriberSound
  BY FeedBoundAssumption DEF Init, FeedInit, SubscriberSound
<1> QED
  BY <1>1, <1>2, <1>3, <1>4, <1>5, <1>6, <1>7 DEF IInv

LEMMA StutterIInv == IInv /\ UNCHANGED vars => IInv'
<1> SUFFICES ASSUME IInv, UNCHANGED vars PROVE IInv'
  OBVIOUS
<1>1. /\ UNCHANGED <<seq_, net, last_seq, gaps, trades, books, bad, n_msgs, last_top, first_seq>>
      /\ UNCHANGED <<mode, pc, i, rc, phase, load_rc, counted, in_window, conn, to_gateway, to_client>>
      /\ UNCHANGED <<stp_, conns, outbox, dead, resting, top, at, frame, traded>>
  BY DEF vars, feed_vars, subscriber, client, load, tcp, gateway
<1>2. SessionTyped' /\ HandlerSound' /\ WindowSound' /\ ConnectSound'
  BY <1>1 DEF IInv, SessionTyped, HandlerSound, WindowSound, ConnectSound
<1>3. FlightSound'
  <2>1. \A c \in Client : flight_ok(c) <=> flight_ok(c)'
    BY <1>1 DEF flight_ok, on_the_way
  <2> QED
    BY <1>1, <2>1 DEF IInv, FlightSound
<1>4. NetSound' /\ TopSound'
  BY <1>1 DEF IInv, NetSound, TopSound
<1>5. SubscriberSound'
  <2>1. CountSound <=> CountSound'
    BY <1>1 DEF CountSound, sent
  <2> QED
    BY <1>1, <2>1 DEF IInv, SubscriberSound
<1> QED
  BY <1>2, <1>3, <1>4, <1>5 DEF IInv

\* The inductive invariant of a session: its parts hold together in every
\* reachable state, whatever is lost, killed, repeated or reordered.
THEOREM SessionInvariance == Spec => []IInv
<1>1. IInv /\ Next => IInv'
  BY TypedStep, HandlerStep, WindowStep, ConnectStep, FlightStep, FeedStep DEF IInv
<1>2. IInv /\ [Next]_vars => IInv'
  BY <1>1, StutterIInv
<1> QED
  BY <1>2, InitIInv, PTL DEF Spec

-----------------------------------------------------------------------------
(* What the code promises *)

\* "Ops acknowledged inside the measured window count": however the threads
\* of run_load interleave with its main thread, none is off by more than one.
THEOREM SessionWindowExact == Spec => []WindowExact
<1>1. IInv => WindowExact
  <2> SUFFICES ASSUME IInv, phase \in {"after", "join", "returned"}, NEW c \in Client
               PROVE  counted[c] - in_window[c] \in -1 .. 1
    BY DEF WindowExact
  <2>1. counted[c] - in_window[c] \in {-1, 0, 1}
    BY DEF IInv, WindowSound, window_ok
  <2> QED
    BY <2>1
<1> QED
  BY <1>1, SessionInvariance, PTL

\* "The load starts with every client live and the listen backlog never
\* fills", with any number of clients.
THEOREM SessionLoadStartsLive == Spec => []LoadStartsLive
<1>1. ASSUME IInv PROVE LoadStartsLive
  <2> DEFINE backlog == {c \in Client : conn[c] = "open" /\ c \notin conns}
  <2>1. Cardinality({}) = 0 /\ \A c : Cardinality({c}) = 1
    BY FS_EmptySet, FS_Singleton
  <2>2. \A c \in backlog : phase = "connect" /\ pc[c] = "hello" /\ conn[c] # "none"
    BY <1>1 DEF IInv, ConnectSound
  <2>3. \A c, d \in backlog : c = d
    BY <1>1, <2>2 DEF IInv, ConnectSound
  <2>4. CASE backlog = {}
    BY <2>1, <2>4 DEF LoadStartsLive
  <2>5. ASSUME NEW c \in backlog PROVE LoadStartsLive
    <3>1. backlog = {c} /\ phase = "connect"
      BY <2>2, <2>3
    <3> QED
      BY <2>1, <3>1 DEF LoadStartsLive
  <2> QED
    BY <2>4, <2>5
<1> QED
  BY <1>1, SessionInvariance, PTL

\* "One op in flight per connection, the next sent when its exec report
\* arrives": each round trip a client times is that of its own operation.
THEOREM SessionOneOpInFlight == Spec => []OneOpInFlight
<1>1. ASSUME IInv PROVE OneOpInFlight
  <2> DEFINE waits(c) == IF pc[c] \in {"hello", "wait"} THEN 1 ELSE 0
  <2> SUFFICES ASSUME stp_ # "CancelResting", NEW c \in Client, conn[c] # "none", pc[c] # "returned"
               PROVE  /\ in_flight(c) <= waits(c) /\ conn[c] # "dropped"
                      /\ conn[c] = "open" => in_flight(c) = waits(c)
    BY DEF OneOpInFlight
  <2>1. /\ flight_ok(c) /\ conn[c] # "dropped"
        /\ to_client[c] \in Seq(AnswerFrame) /\ outbox[c] \in Seq(AnswerFrame)
    BY <1>1 DEF IInv, SessionTyped, FlightSound
  <2>2. ASSUME NEW q \in Seq(AnswerFrame) PROVE answers(q) = Len(q)
    <3>1. \A k \in DOMAIN q : own_answer(q[k])
      <4>1. \A k \in DOMAIN q : q[k] \in AnswerFrame
        OBVIOUS
      <4> QED
        BY <4>1, ReportFramesDecode DEF AnswerFrame
    <3>2. PICK n \in Nat : n = Len(q) /\ DOMAIN q = 1 .. n
      OBVIOUS
    <3>3. Cardinality(1 .. n) = n
      BY FS_Interval
    <3>4. {k \in DOMAIN q : own_answer(q[k])} = 1 .. n
      BY <3>1, <3>2
    <3> QED
      BY <3>2, <3>3, <3>4 DEF answers
  <2>3. in_flight(c) = on_the_way(c)
    BY <2>1, <2>2 DEF in_flight, on_the_way
  <2> QED
    BY <2>1, <2>3 DEF flight_ok
<1> QED
  BY <1>1, SessionInvariance, PTL

\* A subscriber that has counted no gap knows the feed and, between two
\* frames, the top of the book, however long the feed and whatever UDP loses,
\* repeats, reorders or brings from elsewhere.
THEOREM SessionSubscriberRight == Spec => []SubscriberRight
<1>1. ASSUME IInv PROVE SubscriberRight
  <2> SUFFICES ASSUME gaps = 0
               PROVE  LET T == published("Trade", first_seq, last_seq)
                          B == published("Book", first_seq, last_seq)
                      IN  /\ bad <= MaxBad
                          /\ last_seq # 0 =>
                               /\ n_msgs = last_seq - first_seq + 1
                               /\ trades = Cardinality(T) /\ books = Cardinality(B)
                          /\ B # {} =>
                               last_top = net[CHOOSE k \in B : \A j \in B : net[j].seq <= net[k].seq].top
                          /\ last_seq = seq_ /\ at = nobody /\ last_seq # 0 => last_top = top
    BY DEF SubscriberRight, FeedFaithful
  <2> DEFINE T == published("Trade", first_seq, last_seq)
             B == published("Book", first_seq, last_seq)
             top_of == CHOOSE k \in B : \A j \in B : net[j].seq <= net[k].seq
  <2>1. /\ NetSound /\ TopSound /\ bad <= MaxBad /\ seq_ \in Nat /\ DOMAIN net = 1 .. seq_
        /\ last_seq \in 0 .. seq_ /\ first_seq \in 0 .. seq_ /\ (last_seq = 0 => first_seq = 0)
    BY <1>1 DEF IInv, SubscriberSound, NetSound
  <2>2. \A k \in 1 .. seq_ : /\ net[k].seq = k /\ net[k].frame \in {TradeFrame, BookFrame}
                             /\ (net[k].frame.type = MsgType["Trade"]) <=> (net[k].frame = TradeFrame)
                             /\ (net[k].frame.type = MsgType["Book"]) <=> (net[k].frame = BookFrame)
    <3>1. \A k \in 1 .. seq_ : net[k] \in Datagram /\ net[k].seq = k
      BY <2>1 DEF NetSound
    <3>2. \A k \in 1 .. seq_ : net[k].frame \in {TradeFrame, BookFrame}
      BY <3>1 DEF Datagram
    <3> QED
      BY <3>1, <3>2, FeedFramesDecode
  <2>3. CASE last_seq = 0
    <3>1. B = {}
      BY <2>1, <2>2, <2>3 DEF published
    <3> QED
      BY <2>1, <2>3, <3>1
  <2>4. CASE last_seq # 0
    <3>1. first_seq \in 1 .. last_seq /\ CountSound
      BY <1>1, <2>4 DEF IInv, SubscriberSound
    <3>2. \A k : k \in 1 .. seq_ /\ k \in first_seq .. last_seq <=> k \in first_seq .. last_seq
      BY <2>1, <3>1
    <3>3. T = sent(TradeFrame, first_seq, last_seq) /\ B = sent(BookFrame, first_seq, last_seq)
      BY <2>1, <2>2, <3>2 DEF published, sent
    <3>4. n_msgs = last_seq - first_seq + 1 /\ trades = Cardinality(T) /\ books = Cardinality(B)
      BY <3>1, <3>3 DEF CountSound
    <3>5. ASSUME B # {} PROVE top_of \in B /\ last_top = net[top_of].top /\ \A j \in B : j <= top_of
      <4>1. PICK m \in B : last_top = net[m].top /\ \A j \in B : j <= m
        BY <3>1, <3>3, <3>5 DEF CountSound
      <4>2. \A j \in B : net[j].seq = j /\ j \in Nat
        BY <2>2, <3>2, <3>3 DEF sent
      <4>3. \A j \in B : net[j].seq <= net[m].seq
        BY <4>1, <4>2
      <4>4. top_of \in B /\ \A j \in B : net[j].seq <= net[top_of].seq
        BY <4>1, <4>3
      <4> HIDE DEF top_of, B
      <4>5. top_of = m
        BY <4>1, <4>2, <4>4
      <4> QED
        BY <4>1, <4>5
    <3>6. ASSUME last_seq = seq_, at = nobody PROVE last_top = top
      <4>1. net[seq_].frame = BookFrame /\ top = seq_ /\ net[seq_].top = seq_
        BY <2>1, <2>4, <3>6 DEF TopSound, NetSound
      <4>2. seq_ \in B
        BY <2>1, <3>1, <3>3, <3>6, <4>1 DEF sent
      <4>3. \A j \in B : j \in Nat /\ j <= seq_
        BY <2>1, <3>2, <3>3 DEF sent
      <4>4. top_of = seq_
        <5>1. top_of \in B /\ \A j \in B : j <= top_of
          BY <3>5, <4>2
        <5> HIDE DEF top_of, B
        <5> QED
          BY <2>1, <4>2, <4>3, <5>1
      <4> QED
        BY <3>5, <4>1, <4>2, <4>4
    <3> QED
      BY <2>1, <3>4, <3>5, <3>6
  <2> QED
    BY <2>3, <2>4
<1> QED
  BY <1>1, SessionInvariance, PTL
=============================================================================
