-------------------------------- MODULE Session --------------------------------
(***************************************************************************)
(* The session protocol between Client (src/client.cpp) and the handler of *)
(* one frame, Server::Impl::handle_frame (src/server.cpp), over the        *)
(* restarts of the coordinator.                                            *)
(*                                                                         *)
(* A connection is a pair of streams of frames and the SessionState the    *)
(* server keeps for it.  Connections are numbered, and a client generates  *)
(* its incarnation with the connection, so the number stands for both.     *)
(* Session ids start again at 1 with every boot of the coordinator.        *)
(*                                                                         *)
(* Besides the clients there are peers that write frames seen elsewhere,   *)
(* onto any connection: a request may arrive twice, or in a session that   *)
(* it was not made for.                                                    *)
(*                                                                         *)
(* Abstractions.  What an accepted request does is Coordinator's and       *)
(* Evidence's subject: here it is recorded as executed.  Frames arrive     *)
(* whole (see Frames).  Malformed frames, which end the connection, are    *)
(* left out.  So is Client::ping's copy of the epoch in its answer: a ping *)
(* is answered with a body only when it was accepted, and then its         *)
(* envelope already had the epoch that the body repeats.                   *)
(*                                                                         *)
(* A definition whose name continues that of the next one after an         *)
(* underscore is a seeded fault of it, used to show that a property can    *)
(* fail.                                                                   *)
(***************************************************************************)
EXTENDS Integers, Sequences, FiniteSets

CONSTANTS
    Clients,    \* Client objects
    MaxConns,   \* bound: connections ever made
    MaxEpoch,   \* bound: boots of the coordinator
    MaxCalls,   \* bound: requests per handshake
    MaxStray    \* bound: frames repeated or misdirected

ASSUME SessionAssumption ==
    /\ {MaxConns, MaxEpoch, MaxCalls, MaxStray} \subseteq Nat
    /\ IsFiniteSet(Clients)

Conns == 1..MaxConns

\* SessionEnvelope, with the connection whose HelloAck the session and the epoch
\* were taken from.
Envelope == [session: 0..MaxConns, epoch: 0..MaxEpoch, incarnation: Conns,
             seq: 1..MaxCalls, told: 0..MaxConns]

\* What a peer writes: Hello, or a request with its envelope.
Hello(k) == [type |-> "Hello", incarnation |-> k]
Request(e) == [type |-> "Request", envelope |-> e]
Frame == [type: {"Hello"}, incarnation: Conns] \cup [type: {"Request"}, envelope: Envelope]

\* What the server writes: HelloAck, or the response to a frame.
HelloAck(i, e) == [type |-> "HelloAck", session |-> i, epoch |-> e]
Response(f) == [type |-> "Response", to |-> f]

VARIABLES
    epoch,     \* the coordinator's epoch
    up,        \* is the coordinator running
    accepting, \* is its accept loop running
    nextId,    \* next_session_id
    conn,      \* the connections made, in order
    client,    \* the state of each Client object
    seen,      \* frames written so far
    strays,    \* frames repeated or misdirected so far
    executed   \* accepted requests in order: the envelope and the connection

vars == <<epoch, up, accepting, nextId, conn, client, seen, strays, executed>>

\* server: "backlog" (not yet accepted), "serving", "closed".
\* writable: FALSE once the server has shut the socket down or the peer has closed it.
NewConn(f) ==
    [server |-> "backlog", writable |-> TRUE, peer |-> TRUE, mixed |-> FALSE,
     in |-> <<f>>, out |-> <<>>,
     id |-> 0, client |-> 0, last_seq |-> 0, handshaken |-> FALSE]

NoAnswer == [type |-> "none"]
Unconnected ==
    [built |-> FALSE, conn |-> 0, session |-> 0, epoch |-> 0, told |-> 0, seq |-> 0,
     incarnation |-> 0, waits |-> "no", behind |-> FALSE, answer |-> NoAnswer]

\* The server's end of the socket is closed: what it has not read is lost.
Closed(s) == [s EXCEPT !.server = "closed", !.writable = FALSE, !.in = <<>>]

--------------------------------------------------------------------------------
(* The server *)

\* The accept loop: a session with the next id, or, at the limit, a closed socket.
\* The daemon's other sessions, which the model leaves out, may fill it at any time.
Accept(k) ==
    /\ up /\ accepting /\ conn[k].server = "backlog"
    /\ \A j \in 1..(k - 1) : conn[j].server # "backlog"
    /\ \/ /\ conn' = [conn EXCEPT ![k].server = "serving", ![k].id = nextId]
          /\ nextId' = nextId + 1
       \/ /\ conn' = [conn EXCEPT ![k] = Closed(@)]
          /\ UNCHANGED nextId
    /\ UNCHANGED <<epoch, up, accepting, client, seen, strays, executed>>

\* kMaxConsecutiveAcceptFailures: select() or accept() has failed too often in a
\* row, and the loop ends.  The listener stays open: the kernel goes on completing
\* connections, which nobody accepts.
AcceptEnds ==
    /\ up /\ accepting /\ accepting' = FALSE
    /\ UNCHANGED <<epoch, up, nextId, conn, client, seen, strays, executed>>

\* validate_envelope.
validate_envelope_AnyEpoch(s, e) ==
    /\ e.session = s.id /\ e.incarnation = s.client
    /\ s.last_seq < e.seq
validate_envelope_SequenceMayRepeat(s, e) ==
    /\ e.session = s.id /\ e.incarnation = s.client /\ e.epoch = epoch
    /\ s.last_seq <= e.seq
validate_envelope(s, e) ==
    /\ e.session = s.id /\ e.incarnation = s.client /\ e.epoch = epoch
    /\ s.last_seq < e.seq

\* send_response and send_control: on a socket that is shut down the send fails,
\* and the failure shuts the socket down once more.
Answers(s, r) == IF s.writable THEN [s EXCEPT !.out = Append(@, r)] ELSE s
ShutDown(s) == [s EXCEPT !.writable = FALSE]

\* handle_frame: the session it leaves.  A frame of the chunk that carried a
\* refused one is still handled, with nowhere to answer.
Refused_Silently(s, f) == s
Refused(s, f) == Answers(s, Response(f))

\* The end of handle_frame, for a request that passed.
Accepted_AnswersTwice(s, f) ==
    Answers(Answers([s EXCEPT !.last_seq = f.envelope.seq], Response(f)), Response(f))
Accepted(s, f) == Answers([s EXCEPT !.last_seq = f.envelope.seq], Response(f))

Handled(s, f) ==
    IF f.type = "Hello"
    THEN IF s.handshaken THEN ShutDown(Refused(s, f))
         ELSE Answers([s EXCEPT !.client = f.incarnation, !.last_seq = 0, !.handshaken = TRUE],
                      HelloAck(s.id, epoch))
    ELSE IF ~s.handshaken THEN ShutDown(Refused(s, f))
         ELSE IF ~validate_envelope(s, f.envelope) THEN Refused(s, f)
         ELSE Accepted(s, f)

Executes(s, f) ==
    f.type = "Request" /\ s.handshaken /\ validate_envelope(s, f.envelope)

Handle(k) ==
    /\ conn[k].server = "serving" /\ conn[k].in # <<>>
    /\ LET s == [conn[k] EXCEPT !.in = Tail(@)]
           f == Head(conn[k].in)
       IN  /\ conn' = [conn EXCEPT ![k] = Handled(s, f)]
           /\ executed' = IF Executes(s, f)
                          THEN Append(executed, [envelope |-> f.envelope, on |-> k])
                          ELSE executed
    /\ UNCHANGED <<epoch, up, accepting, nextId, client, seen, strays>>

\* serve leaves its loop: the socket was shut down, or the peer closed it and
\* nothing is left to read.
Leave(k) ==
    /\ conn[k].server = "serving"
    /\ ~conn[k].writable \/ (~conn[k].peer /\ conn[k].in = <<>>)
    /\ conn' = [conn EXCEPT ![k] = Closed(@)]
    /\ UNCHANGED <<epoch, up, accepting, nextId, client, seen, strays, executed>>

\* The coordinator dies, or stops, and comes back with the next epoch.
Crash ==
    /\ up /\ up' = FALSE /\ accepting' = FALSE
    /\ conn' = [k \in DOMAIN conn |-> Closed(conn[k])]
    /\ UNCHANGED <<epoch, nextId, client, seen, strays, executed>>

Restart ==
    /\ ~up /\ epoch < MaxEpoch
    /\ up' = TRUE /\ accepting' = TRUE /\ epoch' = epoch + 1 /\ nextId' = 1
    /\ UNCHANGED <<conn, client, seen, strays, executed>>

--------------------------------------------------------------------------------
(* The client *)

Idle(c) == client[c].waits = "no"

\* close_socket.
Hung(all, k) == [j \in DOMAIN all |->
    IF j = k THEN [all[j] EXCEPT !.peer = FALSE, !.writable = FALSE, !.out = <<>>] ELSE all[j]]

\* connect, and refresh_handshake of a client that has connected before: the old
\* socket is closed, and a Hello goes out on a new one.
Connect(c) ==
    LET k == Len(conn) + 1 IN
    /\ Idle(c) /\ up /\ k <= MaxConns
    /\ conn' = Append(Hung(conn, client[c].conn), NewConn(Hello(k)))
    /\ client' = [client EXCEPT ![c].conn = k, ![c].incarnation = k,
                                ![c].waits = "HelloAck", ![c].behind = FALSE, ![c].answer = NoAnswer]
    /\ seen' = seen \cup {Hello(k)}
    /\ UNCHANGED <<epoch, up, accepting, nextId, strays, executed>>

\* refresh_handshake while the coordinator is down: the client is left with no
\* socket and with what it was told before.
RefreshFails(c) ==
    /\ Idle(c) /\ ~up /\ client[c].conn # 0
    /\ conn' = Hung(conn, client[c].conn)
    /\ client' = [client EXCEPT ![c].conn = 0, ![c].answer = NoAnswer]
    /\ UNCHANGED <<epoch, up, accepting, nextId, seen, strays, executed>>

\* The envelope of the last request, and of the next.
Current(c) ==
    [session |-> client[c].session, epoch |-> client[c].epoch, seq |-> client[c].seq,
     incarnation |-> client[c].incarnation, told |-> client[c].told]
Stamped(c) == [Current(c) EXCEPT !.seq = @ + 1]

\* call, as far as the send.  On a socket the coordinator has closed the send
\* fails and nothing changes.
Call(c) ==
    LET k == client[c].conn
        f == Request(Stamped(c))
    IN  /\ Idle(c) /\ client[c].built /\ k # 0 /\ client[c].seq < MaxCalls
        /\ conn[k].server # "closed"
        /\ conn' = [conn EXCEPT ![k].in = Append(@, f)]
        /\ client' = [client EXCEPT ![c].seq = @ + 1, ![c].waits = "Response", ![c].answer = NoAnswer]
        /\ seen' = seen \cup {f}
        /\ UNCHANGED <<epoch, up, accepting, nextId, strays, executed>>

\* handshake and call report a failure, with the connections as they then are:
\* connect destroys the client it was building; a client that was built keeps its
\* socket and what it was told, and is behind if an answer is still to come.
Fails(c, after) ==
    IF client[c].built
    THEN /\ client' = [client EXCEPT ![c].waits = "no", ![c].behind = TRUE]
         /\ conn' = after
    ELSE /\ client' = [client EXCEPT ![c] = Unconnected]
         /\ conn' = Hung(after, client[c].conn)

\* The receive loop of handshake and call: the first frame of a chunk decides, and
\* what else the chunk held is dropped with the decoder.
Receive(c) ==
    LET k == client[c].conn
        r == Head(conn[k].out)
    IN  /\ ~Idle(c) /\ conn[k].out # <<>>
        /\ \E n \in 1..Len(conn[k].out) :
            LET read == [conn EXCEPT ![k].out = SubSeq(@, n + 1, Len(@))] IN
            \/ /\ client[c].waits = "HelloAck" /\ r.type = "HelloAck"
               /\ client' = [client EXCEPT ![c].waits = "no", ![c].built = TRUE,
                    ![c].session = r.session, ![c].epoch = r.epoch, ![c].told = k, ![c].seq = 0]
               /\ conn' = read
            \/ /\ client[c].waits = "Response" /\ r.type = "Response"
               /\ client' = [client EXCEPT ![c].waits = "no", ![c].answer = r.to]
               /\ conn' = read
            \/ r.type # client[c].waits /\ Fails(c, read)
        /\ UNCHANGED <<epoch, up, accepting, nextId, seen, strays, executed>>

\* recv returns 0: the coordinator has closed the connection.
ReceiveClosed(c) ==
    /\ ~Idle(c)
    /\ LET s == conn[client[c].conn] IN s.server = "closed" /\ s.out = <<>>
    /\ Fails(c, conn)
    /\ UNCHANGED <<epoch, up, accepting, nextId, seen, strays, executed>>

\* recv fails: interrupted by a signal, or the connection was reset.
ReceiveFails(c) ==
    /\ ~Idle(c) /\ Fails(c, conn)
    /\ UNCHANGED <<epoch, up, accepting, nextId, seen, strays, executed>>

\* close, and the destructor.
CloseClient(c) ==
    /\ Idle(c) /\ client[c].built
    /\ client' = [client EXCEPT ![c] = Unconnected]
    /\ conn' = Hung(conn, client[c].conn)
    /\ UNCHANGED <<epoch, up, accepting, nextId, seen, strays, executed>>

--------------------------------------------------------------------------------
(* Frames seen before, on a connection they were not written to, or again *)

Stray(k, f) ==
    /\ strays < MaxStray /\ conn[k].peer /\ conn[k].server # "closed"
    /\ conn' = [conn EXCEPT ![k].in = Append(@, f), ![k].mixed = TRUE]
    /\ strays' = strays + 1
    /\ UNCHANGED <<epoch, up, accepting, nextId, client, seen, executed>>

\* Another process connects and repeats a Hello.
Stranger(f) ==
    /\ strays < MaxStray /\ up /\ Len(conn) < MaxConns /\ f.type = "Hello"
    /\ conn' = Append(conn, [NewConn(f) EXCEPT !.mixed = TRUE])
    /\ strays' = strays + 1
    /\ UNCHANGED <<epoch, up, accepting, nextId, client, seen, executed>>

--------------------------------------------------------------------------------
Init ==
    /\ epoch = 1 /\ up = TRUE /\ accepting = TRUE /\ nextId = 1
    /\ conn = <<>> /\ client = [c \in Clients |-> Unconnected]
    /\ seen = {} /\ strays = 0 /\ executed = <<>>

Serve(k) == k \in DOMAIN conn /\ (Accept(k) \/ Handle(k) \/ Leave(k))

Next ==
    \/ \E k \in DOMAIN conn : Accept(k) \/ Handle(k) \/ Leave(k)
    \/ AcceptEnds \/ Crash \/ Restart
    \/ \E c \in Clients : \/ Connect(c) \/ RefreshFails(c) \/ Call(c)
                          \/ Receive(c) \/ ReceiveClosed(c) \/ ReceiveFails(c)
                          \/ CloseClient(c)
    \/ \E f \in seen : Stranger(f) \/ \E k \in DOMAIN conn : Stray(k, f)

\* The threads of the daemon run, and so does the client's; the kernel delivers
\* what was sent, and the end of a connection.  A crash is never assumed, nor a
\* restart, a request or a failed recv, and once the accept loop has ended nothing
\* takes a connection out of the backlog.
Fairness ==
    /\ \A k \in Conns : WF_vars(Serve(k))
    /\ \A c \in Clients : WF_vars(Receive(c) \/ ReceiveClosed(c))

Spec == Init /\ [][Next]_vars /\ Fairness

--------------------------------------------------------------------------------
(* Properties *)

\* README, Transport: "One session can never act under another session's identity,
\* boot or epoch."  A request runs only on the connection its client made for it,
\* and only if what the client was told came over that very connection: not in the
\* session of another boot that has the same id, and not with the handshake of the
\* connection before, after a refresh_handshake that failed half way.
RunsWhereMade ==
    \A i \in DOMAIN executed :
        LET e == executed[i].envelope IN
        e.incarnation = executed[i].on /\ e.told = executed[i].on

\* client.hpp: "A replayed or regressed sequence is refused by the server, so a
\* duplicated request can never create a second authority."  No request runs twice,
\* in one session or in two, in one boot or in two.
RunsOnce ==
    \A i, j \in DOMAIN executed :
        executed[i].envelope = executed[j].envelope => i = j

\* Responses carry nothing that names their request: call() hands its caller the
\* next one.  It answers the caller's own request, provided that nobody else writes
\* to the connection and that no earlier call on it was given up.
AnswerIsOwn ==
    \A c \in Clients :
        LET s == client[c] IN
        s.answer # NoAnswer /\ ~s.behind /\ ~conn[s.conn].mixed => s.answer = Request(Current(c))

\* A call, and a handshake, return: every request is answered, refused or not, or
\* its connection is closed.  The one exception is a handshake whose connection the
\* kernel has completed and whose daemon runs on without its accept loop: recv has
\* no timeout, and waits until that daemon ends.
CallReturns ==
    \A c \in Clients :
        ~Idle(c) ~> \/ Idle(c)
                    \/ up /\ ~accepting /\ conn[client[c].conn].server = "backlog"

=============================================================================
