------------------------------ MODULE Session ------------------------------
(***************************************************************************)
(* The processes of a session together: order clients (order_client.cpp)    *)
(* in one of their modes, the gateway they are connected to, and, in the   *)
(* auto mode, a subscriber of its feed.  In the load mode the clients are  *)
(* the threads of one process, whose main thread connects them, opens and  *)
(* closes the measured window and joins them.                              *)
(*                                                                         *)
(* The gateway is what Gateway shows of it: it handles one frame at a      *)
(* time, queues the reports of the orders it kills, then the report of the *)
(* frame, and publishes a Book.  Which orders are met, and which rest, is  *)
(* left open.  A report that finds the outbox full costs the connection.   *)
(* TCP carries whole frames in order; recv returns any prefix of what has  *)
(* arrived (Framing looks at the bytes).                                   *)
(***************************************************************************)
EXTENDS Feed, FiniteSetsExt

CONSTANTS
    Client,     \* the order clients
    nobody,
    n_orders,   \* option --auto of each
    MaxOps, MaxOpsInAll,   \* bounds: operations of each, and of all, in the other modes
    kMaxOutbox, \* the outbox's capacity, in reports
    MaxTrades,  \* bound: trades in all
    MaxLost     \* bound: connections that break

ASSUME ClientAssumption == nobody \notin Client
ASSUME OutboxAssumption == kMaxOutbox \in Nat \ {0}
ASSUME SessionBoundAssumption ==
    /\ n_orders \in [Client -> Nat] /\ MaxOps \in [Client -> Nat] /\ MaxOpsInAll \in Nat
    /\ MaxTrades \in Nat /\ MaxLost \in Nat

VARIABLES
    mode,       \* auto, interactive, load
    pc,         \* of each client: hello, ready, send, wait, acked, returned
    i,          \* of each client: operations acknowledged
    rc,         \* of each client: whether it failed
    phase,      \* run_load: connect, warmup, window, after, join, returned
    load_rc,    \* run_load: what it returns
    counted,    \* run_load: round trips recorded by each thread
    in_window,  \* history: operations each had acknowledged in the window
    conn,       \* none, open, closed (by the client), lost, dropped (by the gateway)
    to_gateway, to_client,   \* frames on their way, per connection
    stp_,       \* gateway: option --stp
    conns,      \* gateway: the clients it serves
    outbox,     \* gateway: reports it has not sent yet, per connection
    dead,       \* gateway: the connections it is going to drop
    resting,    \* gateway: orders of each client on the book
    top,        \* gateway: the best prices of the book
    at,         \* gateway: the client whose frame it handles
    frame,      \* gateway: the kind of that frame
    traded      \* trades so far

load == <<phase, load_rc, counted, in_window>>
client == <<mode, pc, i, rc, load>>
tcp == <<conn, to_gateway, to_client>>
gateway == <<stp_, conns, outbox, dead, resting, top, at, frame, traded>>
vars == <<feed_vars, client, tcp, gateway>>

Init ==
    /\ FeedInit
    /\ \/ /\ mode \in {"auto", "interactive"} /\ phase = "none"
          /\ conn = [c \in Client |-> "open"] /\ conns = Client /\ pc = [c \in Client |-> "send"]
       \/ /\ mode = "load" /\ phase = "connect"
          /\ conn = [c \in Client |-> "none"] /\ conns = {} /\ pc = [c \in Client |-> "hello"]
    /\ i = [c \in Client |-> 0] /\ rc = [c \in Client |-> 0]
    /\ load_rc = 0 /\ counted = [c \in Client |-> 0] /\ in_window = [c \in Client |-> 0]
    /\ to_gateway = [c \in Client |-> << >>] /\ to_client = [c \in Client |-> << >>]
    /\ stp_ \in {"None", "CancelResting"}
    /\ outbox = [c \in Client |-> << >>] /\ dead = {}
    /\ resting = [c \in Client |-> 0] /\ top = 0
    /\ at = nobody /\ frame = "none" /\ traded = 0

-----------------------------------------------------------------------------
(* order_client *)

\* The operations of the mix, or of the commands; the decoder's bound on a
\* side stands for both.
next_op ==
    {encode(128, "NewOrder", <<kMaxSide, 0>>), encode(128, "Market", <<kMaxSide>>),
     encode(128, "Cancel", << >>), encode(128, "Modify", << >>)}

\* send or recv fails, or the stream has ended.
broken(c) == conn[c] \in {"lost", "dropped"}

\* Mutant: measuring is not taken back when the window ends.
Bug_measuring_stays == phase \in {"window", "after"}
\* The flags of run_load, which its main thread sets.
measuring == phase = "window"
stop == phase \in {"join", "returned"}

ops_sent == MapThenSumSet(LAMBDA c : i[c] + IF pc[c] = "wait" THEN 1 ELSE 0, Client)

\* The head of the client's loop lets it send one more.
goes_on(c) ==
    /\ pc[c] = "send" /\ ~stop
    /\ IF mode = "auto" THEN i[c] < n_orders[c] ELSE i[c] < MaxOps[c] /\ ops_sent < MaxOpsInAll

send_all(c) ==
    /\ goes_on(c) /\ ~broken(c)
    /\ \E f \in next_op : to_gateway' = [to_gateway EXCEPT ![c] = Append(@, f)]
    /\ pc' = [pc EXCEPT ![c] = "wait"]
    /\ UNCHANGED <<feed_vars, gateway, conn, to_client, mode, i, rc, load>>

\* recv returns the first k reports that have arrived; read_reports returns
\* at the first recv that brings a report it can decode.
read_reports(c, k) ==
    /\ \/ pc[c] = "wait"
       \/ pc[c] = "hello" /\ phase = "connect"
    /\ k <= Len(to_client[c])
    /\ to_client' = [to_client EXCEPT ![c] = SubSeq(@, k + 1, Len(@))]
    /\ IF ~\E j \in 1 .. k : decodes("ExecReport", to_client[c][j])
       THEN UNCHANGED <<pc, i, in_window>>
       ELSE IF pc[c] = "hello" THEN pc' = [pc EXCEPT ![c] = "ready"] /\ UNCHANGED <<i, in_window>>
       ELSE /\ pc' = [pc EXCEPT ![c] = IF mode = "load" THEN "acked" ELSE "send"]
            /\ i' = [i EXCEPT ![c] = @ + 1]
            /\ in_window' = [in_window EXCEPT ![c] = IF phase = "window" THEN @ + 1 ELSE @]
    /\ UNCHANGED <<feed_vars, gateway, conn, to_gateway, mode, rc, phase, load_rc, counted>>

\* A thread of run_load records the round trip, if it finds measuring set.
record_rtt(c) ==
    /\ pc[c] = "acked"
    /\ pc' = [pc EXCEPT ![c] = "send"]
    /\ counted' = [counted EXCEPT ![c] = IF measuring THEN @ + 1 ELSE @]
    /\ UNCHANGED <<feed_vars, gateway, tcp, mode, i, rc, phase, load_rc, in_window>>

\* Mutant: a recv that fails or returns 0 is repeated, as if interrupted.
Bug_recv_retries(c) == broken(c) /\ goes_on(c)
gives_up(c) == broken(c) /\ (pc[c] = "wait" \/ goes_on(c))

\* The loop returns 1, in run_load after setting failed.
run_fails(c) ==
    /\ gives_up(c)
    /\ pc' = [pc EXCEPT ![c] = "returned"] /\ rc' = [rc EXCEPT ![c] = 1]
    /\ UNCHANGED <<feed_vars, gateway, tcp, mode, i, load>>

\* The loop ends: the last operation is acknowledged, the user quits, or stop
\* is set.  Outside the load mode main then closes the connection.
run_ends(c) ==
    /\ pc[c] = "send"
    /\ CASE mode = "auto" -> i[c] = n_orders[c] [] mode = "interactive" -> TRUE [] OTHER -> stop
    /\ pc' = [pc EXCEPT ![c] = "returned"]
    /\ conn' = [conn EXCEPT ![c] = IF broken(c) \/ mode = "load" THEN @ ELSE "closed"]
    /\ UNCHANGED <<feed_vars, gateway, to_gateway, to_client, mode, i, rc, load>>

ClientStep(c) ==
    \/ send_all(c)
    \/ \E k \in 1 .. Len(to_client[c]) : read_reports(c, k)
    \/ record_rtt(c)
    \/ run_fails(c)
    \/ run_ends(c)

-----------------------------------------------------------------------------
(* run_load: the main thread *)

\* Mutant: the answer to the hello is not waited for.
Bug_may_connect_early == TRUE
\* Every connection made so far has had its answer.
may_connect == \A d \in Client : conn[d] = "none" \/ pc[d] = "ready"

\* The next connection, and on it a cancel of id 0.
connect_and_hello(c) ==
    /\ phase = "connect" /\ conn[c] = "none" /\ may_connect
    /\ conn' = [conn EXCEPT ![c] = "open"]
    /\ to_gateway' = [to_gateway EXCEPT ![c] = Append(@, encode(64, "Cancel", << >>))]
    /\ UNCHANGED <<feed_vars, client, gateway, to_client>>

\* The process ends, or run_load closes the connections: either way they go.
all_closed == conn' = [c \in Client |-> IF conn[c] = "open" THEN "closed" ELSE conn[c]]

hello_fails ==
    /\ phase = "connect"
    /\ \E c \in Client : pc[c] = "hello" /\ broken(c)
    /\ phase' = "returned" /\ load_rc' = 1
    /\ all_closed
    /\ UNCHANGED <<feed_vars, gateway, to_gateway, to_client, mode, pc, i, rc, counted, in_window>>

start_threads ==
    /\ phase = "connect" /\ \A c \in Client : pc[c] = "ready"
    /\ phase' = "warmup" /\ pc' = [c \in Client |-> "send"]
    /\ UNCHANGED <<feed_vars, gateway, tcp, mode, i, rc, load_rc, counted, in_window>>

\* After each sleep: measuring is set, is taken back, and stop is set.
next_phase ==
    /\ phase \in {"warmup", "window", "after"}
    /\ phase' = CASE phase = "warmup" -> "window" [] phase = "window" -> "after" [] OTHER -> "join"
    /\ UNCHANGED <<feed_vars, gateway, tcp, mode, pc, i, rc, load_rc, counted, in_window>>

join ==
    /\ phase = "join" /\ \A c \in Client : pc[c] = "returned"
    /\ phase' = "returned"
    /\ load_rc' = IF (\E c \in Client : rc[c] = 1) \/ (\A c \in Client : counted[c] = 0) THEN 1 ELSE 0
    /\ all_closed
    /\ UNCHANGED <<feed_vars, gateway, to_gateway, to_client, mode, pc, i, rc, counted, in_window>>

run_load ==
    (\E c \in Client : connect_and_hello(c)) \/ hello_fails \/ start_threads \/ next_phase \/ join

-----------------------------------------------------------------------------
(* The gateway, between two frames (at = nobody) or in a handler *)

\* accept() takes the connection from the backlog.
Accept(c) ==
    /\ at = nobody /\ c \notin conns /\ conn[c] = "open"
    /\ conns' = conns \cup {c}
    /\ UNCHANGED <<feed_vars, client, tcp, stp_, outbox, dead, resting, top, at, frame, traded>>

\* The feed has a subscriber in the auto mode only; without one its messages
\* are left out.
send_feed(message) == IF mode = "auto" THEN message ELSE UNCHANGED feed_vars
send_book == send_feed(publish_book) /\ top' = IF mode = "auto" THEN next_seq ELSE top

\* handle_frame starts on the next frame of c; one it cannot decode costs
\* the connection.
Handle(c) ==
    LET f == Head(to_gateway[c])
        K == {name \in {"NewOrder", "Market", "Cancel", "Modify"} : is_message(name, f)}
    IN  /\ at = nobody /\ c \in conns \ dead /\ to_gateway[c] # << >>
        /\ to_gateway' = [to_gateway EXCEPT ![c] = Tail(@)]
        /\ IF K = {} THEN dead' = dead \cup {c} /\ UNCHANGED <<at, frame>>
           ELSE at' = c /\ frame' \in K /\ UNCHANGED dead
        /\ UNCHANGED <<feed_vars, client, conn, to_client, stp_, conns, outbox, resting, top, traded>>

matching == frame \in {"NewOrder", "Market", "Modify"}

\* The engine trades with a resting order, which may be used up: its owner's
\* own too without self-trade prevention.
Trade ==
    /\ matching /\ traded < MaxTrades
    /\ \E c \in Client : \E left \in {resting[c] - 1, resting[c]} :
          /\ resting[c] > 0 /\ (stp_ = "None" \/ c # at)
          /\ resting' = [resting EXCEPT ![c] = left]
    /\ send_feed(on_trade(kMaxSide))
    /\ traded' = traded + 1
    /\ UNCHANGED <<client, tcp, stp_, conns, outbox, dead, top, at, frame>>

\* Mutant: a report is queued by the handler and by its caller.
Bug_send_exec_twice(status) ==
    LET r == encode(64, "ExecReport", <<status>>)
    IN  outbox' = [outbox EXCEPT ![at] = @ \o <<r, r>>] /\ UNCHANGED dead
\* A report to the client whose frame is handled: dropped with it if the
\* outbox is full (queue_send).
send_exec(status) ==
    IF Len(outbox[at]) + 1 > kMaxOutbox THEN dead' = dead \cup {at} /\ UNCHANGED outbox
    ELSE /\ outbox' = [outbox EXCEPT ![at] = Append(@, encode(64, "ExecReport", <<status>>))]
         /\ UNCHANGED dead

\* The engine kills a resting order of the taker's own, which is told so.
Kill ==
    /\ matching /\ stp_ = "CancelResting" /\ resting[at] > 0
    /\ resting' = [resting EXCEPT ![at] = @ - 1]
    /\ send_exec(kCanceled)
    /\ UNCHANGED <<feed_vars, client, tcp, stp_, conns, top, at, frame, traded>>

\* What the frame itself does to the number of the client's orders.
change == IF frame = "NewOrder" THEN {0, 1} ELSE IF frame = "Market" THEN {0} ELSE {-1, 0}

\* The handler ends with the frame's own report; the status of any answer
\* stands for all of them.
Return ==
    /\ at # nobody
    /\ \E n \in change : resting[at] + n >= 0 /\ resting' = [resting EXCEPT ![at] = @ + n]
    /\ send_exec(0)
    /\ send_book
    /\ at' = nobody /\ frame' = "none"
    /\ UNCHANGED <<client, tcp, stp_, conns, traded>>

\* The first k reports of the outbox go out.
sent_on(c, k) == to_client' = [to_client EXCEPT ![c] = @ \o SubSeq(outbox[c], 1, k)]

\* As many as the socket takes.
flush_outbox(c, k) ==
    /\ at = nobody /\ c \in conns \ dead /\ conn[c] = "open"
    /\ sent_on(c, k)
    /\ outbox' = [outbox EXCEPT ![c] = SubSeq(@, k + 1, Len(@))]
    /\ UNCHANGED <<feed_vars, client, conn, to_gateway, stp_, conns, dead, resting, top, at, frame, traded>>

\* The gateway drops a connection, or finds it gone: what the socket takes of
\* the last reports is sent, the rest is lost with the connection; then
\* cancel_on_disconnect, with a Book if any order was cancelled.
Reap(c) ==
    /\ at = nobody /\ c \in conns /\ (c \in dead \/ conn[c] # "open")
    /\ \E k \in 0 .. (IF conn[c] = "open" THEN Len(outbox[c]) ELSE 0) : sent_on(c, k)
    /\ conn' = [conn EXCEPT ![c] = IF @ = "open" THEN "dropped" ELSE @]
    /\ conns' = conns \ {c} /\ dead' = dead \ {c}
    /\ outbox' = [outbox EXCEPT ![c] = << >>]
    /\ resting' = [resting EXCEPT ![c] = 0]
    /\ IF resting[c] > 0 THEN send_book ELSE UNCHANGED <<feed_vars, top>>
    /\ UNCHANGED <<client, to_gateway, stp_, at, frame, traded>>

\* A connection breaks.
Break(c) ==
    /\ conn[c] = "open"
    /\ Cardinality({d \in Client : conn[d] = "lost"}) < MaxLost
    /\ conn' = [conn EXCEPT ![c] = "lost"]
    /\ UNCHANGED <<feed_vars, client, gateway, to_gateway, to_client>>

GatewayStep ==
    \/ \E c \in Client : \/ Accept(c) \/ Handle(c) \/ Reap(c)
                         \/ \E k \in 1 .. Len(outbox[c]) : flush_outbox(c, k)
    \/ Trade \/ Kill \/ Return

Next ==
    \/ \E c \in Client : ClientStep(c)
    \/ run_load
    \/ GatewayStep
    \/ \E c \in Client : Break(c)
    \/ mode = "auto" /\ Subscribe /\ UNCHANGED <<client, tcp, gateway>>

Spec == Init /\ [][Next]_vars

\* Each client, run_load's main thread and the gateway's only thread keep
\* running, and the user quits at last; the network need not lose or deliver
\* anything.
FairSpec ==
    Spec /\ WF_vars(GatewayStep) /\ WF_vars(run_load) /\ \A c \in Client : WF_vars(ClientStep(c))

-----------------------------------------------------------------------------
\* What the subscriber knows is right (see FeedFaithful), however the
\* handlers' trades, kills and disconnects interleave with its receptions.
SubscriberRight == FeedFaithful(at = nobody, top)

\* A frame's own answer, not the report of a kill on its way.
own_answer(f) == f.enums # <<kCanceled>>
answers(q) == Cardinality({k \in DOMAIN q : own_answer(q[k])})
in_flight(c) ==
    Len(to_gateway[c]) + (IF at = c THEN 1 ELSE 0) + answers(outbox[c]) + answers(to_client[c])

\* "One op in flight per connection, the next sent when its exec report
\* arrives": as long as the gateway kills no resting orders, a client that
\* waits has exactly one frame unanswered and one that does not has none (an
\* answer may be lost with its connection), so each round trip it times is that
\* of its own operation, and no client is dropped as a slow consumer.
OneOpInFlight ==
    stp_ # "CancelResting" =>
        \A c \in Client : conn[c] # "none" /\ pc[c] # "returned" =>
            LET waits == IF pc[c] \in {"hello", "wait"} THEN 1 ELSE 0
            IN  /\ in_flight(c) <= waits /\ conn[c] # "dropped"
                /\ conn[c] = "open" => in_flight(c) = waits

\* "The load starts with every client live and the listen backlog never
\* fills": at most one connection waits to be accepted, and none any more
\* when the threads run.
LoadStartsLive ==
    LET backlog == {c \in Client : conn[c] = "open" /\ c \notin conns}
    IN  Cardinality(backlog) <= IF phase = "connect" THEN 1 ELSE 0

\* "Ops acknowledged inside the measured window count": a thread looks at
\* measuring after the report has arrived, so at the edges of the window it
\* may be wrong about one operation, and never about more.
WindowExact ==
    phase \in {"after", "join", "returned"} =>
        \A c \in Client : counted[c] - in_window[c] \in -1 .. 1

\* The gateway dropped c, which only reports of kills can bring about: a sweep
\* of the client's own orders that fills its outbox.
flooded(c) == conn[c] = "dropped" /\ stp_ = "CancelResting"

\* Every order client ends, however recv cuts the reports, whatever kills are
\* reported between them, whenever its connection breaks under it and
\* whichever reports are lost with a connection the gateway drops; and it
\* fails only if its connection broke or was flooded with kills: each frame it
\* can send is one the gateway decodes and answers.  A load run ends too, and
\* fails only if one of its connections did or it measured nothing.
ClientsEnd ==
    <>(IF mode = "load"
       THEN /\ phase = "returned"
            /\ load_rc = 1 => \/ \E c \in Client : conn[c] = "lost" \/ flooded(c)
                              \/ \A c \in Client : counted[c] = 0
       ELSE \A c \in Client : pc[c] = "returned" /\ (rc[c] = 1 => conn[c] = "lost" \/ flooded(c)))
=============================================================================
