------------------------------ MODULE SessionProofs ----------------------------
(***************************************************************************)
(* Theorems about the session protocol (Session), for any number of        *)
(* clients, connections, boots, requests and repeated or misdirected       *)
(* frames.                                                                 *)
(*                                                                         *)
(* Why a request runs only where it was made: a session id names one       *)
(* connection within an epoch (Grants), an envelope names the connection   *)
(* its session and epoch were told over, and on a connection that a client *)
(* made the first frame is that client's own Hello (Own), so that the      *)
(* session there has no other client's incarnation.                        *)
(***************************************************************************)
EXTENDS Session, SequenceTheorems, TLAPS

--------------------------------------------------------------------------------
(* The inductive invariant *)

AnyEnvelope == [session: Nat, epoch: Nat, incarnation: Nat, seq: Nat, told: Nat]
AnyFrame == [type: {"Hello"}, incarnation: Nat] \cup [type: {"Request"}, envelope: AnyEnvelope]
AnyAnswer == [type: {"HelloAck"}, session: Nat, epoch: Nat] \cup [type: {"Response"}, to: AnyFrame]

ConnState ==
    [server: {"backlog", "serving", "closed"}, writable: BOOLEAN, peer: BOOLEAN, mixed: BOOLEAN,
     in: Seq(AnyFrame), out: Seq(AnyAnswer),
     id: Nat, client: Nat, last_seq: Nat, handshaken: BOOLEAN]
ClientState ==
    [built: BOOLEAN, conn: Nat, session: Nat, epoch: Nat, told: Nat, seq: Nat, incarnation: Nat,
     waits: {"no", "HelloAck", "Response"}, behind: BOOLEAN, answer: AnyFrame \cup {NoAnswer}]

SessionTypeOK ==
    /\ epoch \in Nat \ {0} /\ up \in BOOLEAN /\ nextId \in Nat /\ strays \in Nat
    /\ conn \in Seq(ConnState) /\ client \in [Clients -> ClientState]
    /\ seen \subseteq AnyFrame
    /\ executed \in Seq([envelope: AnyEnvelope, on: Nat])

\* While the coordinator is down nothing is served, and of the sessions it serves
\* no two have the same id.
Serving(k) == conn[k].server = "serving"
Ids ==
    /\ ~up => \A k \in DOMAIN conn : ~Serving(k)
    /\ \A k \in DOMAIN conn : Serving(k) => conn[k].id < nextId
    /\ \A j, k \in DOMAIN conn : Serving(j) /\ Serving(k) /\ conn[j].id = conn[k].id => j = k

\* Session i of epoch e is that of connection k: no other connection is served under
\* that name, now or later.
Grants(i, e, k) ==
    /\ e <= epoch
    /\ e = epoch => i < nextId /\ \A j \in DOMAIN conn : Serving(j) /\ conn[j].id = i => j = k

\* A client made connection k: its session is opened with the client's own Hello.
Own(k) ==
    /\ k \in DOMAIN conn
    /\ conn[k].handshaken => conn[k].client = k
    /\ conn[k].server # "closed" /\ ~conn[k].handshaken =>
          conn[k].in # <<>> /\ conn[k].in[1] = Hello(k)

\* What a frame, an answer and a client may claim about sessions.
Claims(f) ==
    f.type = "Request" => LET e == f.envelope IN Own(e.told) /\ Grants(e.session, e.epoch, e.told)
Claimed ==
    /\ \A f \in seen : Claims(f)
    /\ \A k \in DOMAIN conn : \A i \in DOMAIN conn[k].in : Claims(conn[k].in[i])
    /\ \A k \in DOMAIN conn : \A i \in DOMAIN conn[k].out :
          LET r == conn[k].out[i] IN r.type = "HelloAck" => Grants(r.session, r.epoch, k)
    /\ \A c \in Clients :
          /\ client[c].conn # 0 => Own(client[c].conn)
          /\ client[c].built => Own(client[c].told)
          /\ Grants(client[c].session, client[c].epoch, client[c].told)
          /\ ~Idle(c) => client[c].conn # 0

\* A session remembers the last sequence it has run.
Remembered ==
    \A i \in DOMAIN executed :
        LET k == executed[i].on IN
        /\ k \in DOMAIN conn /\ conn[k].handshaken
        /\ executed[i].envelope.seq <= conn[k].last_seq

SessionInv == SessionTypeOK /\ Ids /\ Claimed /\ Remembered /\ RunsWhereMade /\ RunsOnce

--------------------------------------------------------------------------------
(* Steps of one connection *)

\* The session says and hears no more than it did, and stays whose it was.
Quiet(s, t) ==
    /\ t.id = s.id /\ t.client = s.client /\ t.last_seq = s.last_seq /\ t.handshaken = s.handshaken
    /\ t.server \in {s.server, "closed"}
    /\ t.in = s.in \/ (t.in = <<>> /\ t.server = "closed")
    /\ \A i \in DOMAIN t.out : \E h \in DOMAIN s.out : t.out[i] = s.out[h]

\* The server's end is closed.
LEMMA ClosedQuiet ==
  ASSUME NEW s \in ConnState
  PROVE  Closed(s) \in ConnState /\ Quiet(s, Closed(s)) /\ Closed(s).server = "closed"
  <1>1. <<>> \in Seq(AnyFrame)
    OBVIOUS
  <1> QED BY <1>1 DEF Closed, ConnState, Quiet

\* Nothing happens.
LEMMA SameQuiet == ASSUME NEW s PROVE Quiet(s, s)
  BY DEF Quiet

\* close_socket of one end.
LEMMA HungQuiet ==
  ASSUME NEW all \in Seq(ConnState), NEW k
  PROVE  /\ Hung(all, k) \in Seq(ConnState) /\ Len(Hung(all, k)) = Len(all)
         /\ \A j \in DOMAIN all : Quiet(all[j], Hung(all, k)[j])
         /\ \A j \in DOMAIN all : j # k => Hung(all, k)[j] = all[j]
  <1> DEFINE h(j) == IF j = k THEN [all[j] EXCEPT !.peer = FALSE, !.writable = FALSE, !.out = <<>>]
                     ELSE all[j]
  <1>1. <<>> \in Seq(AnyAnswer)
    OBVIOUS
  <1>2. DOMAIN all = 1..Len(all) /\ Len(all) \in Nat
    BY LenProperties
  <1>3. \A j \in 1..Len(all) : all[j] \in ConnState
    BY <1>2, ElementOfSeq
  <1>4. \A j \in 1..Len(all) : h(j) \in ConnState /\ Quiet(all[j], h(j))
    <2>1. ASSUME NEW s \in ConnState
          PROVE  LET t == [s EXCEPT !.peer = FALSE, !.writable = FALSE, !.out = <<>>]
                 IN  t \in ConnState /\ Quiet(s, t)
      <3> DEFINE t == [s EXCEPT !.peer = FALSE, !.writable = FALSE, !.out = <<>>]
      <3>1. t \in ConnState
        BY <1>1 DEF ConnState
      <3>2. /\ t.id = s.id /\ t.client = s.client /\ t.last_seq = s.last_seq /\ t.in = s.in
            /\ t.handshaken = s.handshaken /\ t.server = s.server /\ DOMAIN t.out = {}
        BY DEF ConnState
      <3> QED BY <3>1, <3>2 DEF Quiet
    <2> QED BY <1>3, <2>1, SameQuiet
  <1>5. Hung(all, k) = [j \in 1..Len(all) |-> h(j)]
    BY <1>2 DEF Hung
  <1> HIDE DEF h
  <1>6. Hung(all, k) \in Seq(ConnState) /\ Len(Hung(all, k)) = Len(all)
    <2>1. Hung(all, k) \in [1..Len(all) -> ConnState]
      BY <1>4, <1>5
    <2> QED BY <1>2, <2>1, <1>5, LenProperties
  <1> QED BY <1>2, <1>4, <1>5, <1>6 DEF h

\* An answer read off the socket.
LEMMA ReadQuiet ==
  ASSUME NEW s \in ConnState, NEW n \in 1..Len(s.out)
  PROVE  LET t == [s EXCEPT !.out = SubSeq(@, n + 1, Len(@))] IN t \in ConnState /\ Quiet(s, t)
  <1> DEFINE rest == SubSeq(s.out, n + 1, Len(s.out))
  <1>1. s.out \in Seq(AnyAnswer) /\ Len(s.out) \in Nat
    BY LenProperties DEF ConnState
  <1>2. rest \in Seq(AnyAnswer) /\ Len(rest) = Len(s.out) - n
        /\ \A i \in 1..Len(rest) : rest[i] = s.out[i + n]
    BY <1>1, SubSeqProperties
  <1>3. \A i \in DOMAIN rest : \E h \in DOMAIN s.out : rest[i] = s.out[h]
    <2> TAKE i \in DOMAIN rest
    <2>1. i \in 1..Len(rest) /\ i + n \in DOMAIN s.out
      BY <1>1, <1>2, LenProperties
    <2> QED BY <1>2, <2>1
  <1> HIDE DEF rest
  <1> QED BY <1>2, <1>3 DEF ConnState, Quiet, rest

\* The facts about connections that the steps below use.
LEMMA ConnFacts ==
  ASSUME SessionTypeOK
  PROVE  /\ DOMAIN conn = 1..Len(conn) /\ Len(conn) \in Nat
         /\ \A k \in DOMAIN conn : conn[k] \in ConnState
         /\ \A k \in DOMAIN conn : \A i \in DOMAIN conn[k].in : conn[k].in[i] \in AnyFrame
         /\ \A k \in DOMAIN conn : \A i \in DOMAIN conn[k].out : conn[k].out[i] \in AnyAnswer
  <1>1. DOMAIN conn = 1..Len(conn) /\ Len(conn) \in Nat
    BY LenProperties DEF SessionTypeOK
  <1>2. \A k \in DOMAIN conn : conn[k] \in ConnState
    BY <1>1, ElementOfSeq DEF SessionTypeOK
  <1>3. \A k \in DOMAIN conn : conn[k].in \in Seq(AnyFrame) /\ conn[k].out \in Seq(AnyAnswer)
    BY <1>2 DEF ConnState
  <1> QED BY <1>1, <1>2, <1>3, LenProperties, ElementOfSeq

--------------------------------------------------------------------------------
(* Steps of the whole *)

\* Claims survive a step that gives no old id away and leaves sessions their owner.
LEMMA ClaimedKept ==
  ASSUME SessionTypeOK, SessionTypeOK',
         \A i, e, k \in Nat : Grants(i, e, k) => Grants(i, e, k)',
         \A k \in Nat : Own(k) => Own(k)',
         \A f \in seen' : Claims(f),
         \A k \in DOMAIN conn' : \A i \in DOMAIN conn'[k].in : Claims(conn'[k].in[i]),
         \A k \in DOMAIN conn' : \A i \in DOMAIN conn'[k].out :
             LET r == conn'[k].out[i] IN r.type = "HelloAck" => Grants(r.session, r.epoch, k),
         \A c \in Clients :
             LET d == client'[c] IN
             /\ (client[c].conn # 0 => Own(client[c].conn))'
             /\ d.built => Own(d.told)
             /\ Grants(d.session, d.epoch, d.told)
             /\ d.waits # "no" => d.conn # 0
  PROVE  Claimed'
  <1>1. ASSUME NEW f \in AnyFrame, Claims(f) PROVE Claims(f)'
    BY <1>1 DEF Claims, AnyFrame, AnyEnvelope
  <1>2. /\ DOMAIN conn' = 1..Len(conn') /\ Len(conn') \in Nat
        /\ \A k \in DOMAIN conn' : conn'[k] \in ConnState
        /\ \A k \in DOMAIN conn' : \A i \in DOMAIN conn'[k].in : conn'[k].in[i] \in AnyFrame
        /\ \A k \in DOMAIN conn' : \A i \in DOMAIN conn'[k].out : conn'[k].out[i] \in AnyAnswer
    <2>1. conn' \in Seq(ConnState)
      BY DEF SessionTypeOK
    <2>2. DOMAIN conn' = 1..Len(conn') /\ Len(conn') \in Nat
      BY <2>1, LenProperties
    <2>3. \A k \in DOMAIN conn' : conn'[k] \in ConnState
      BY <2>1, <2>2, ElementOfSeq
    <2>4. \A k \in DOMAIN conn' : conn'[k].in \in Seq(AnyFrame) /\ conn'[k].out \in Seq(AnyAnswer)
      BY <2>3 DEF ConnState
    <2> QED BY <2>2, <2>3, <2>4, LenProperties, ElementOfSeq
  <1>3. \A f \in seen' : Claims(f)'
    BY <1>1 DEF SessionTypeOK
  <1>4. ASSUME NEW k \in DOMAIN conn', NEW i \in DOMAIN conn'[k].in
        PROVE  Claims(conn[k].in[i])'
    <2>1. PICK f : f = conn'[k].in[i]
      OBVIOUS
    <2>2. f \in AnyFrame /\ Claims(f)
      BY <1>2, <2>1
    <2>3. Claims(f)'
      BY <1>1, <2>2
    <2> QED BY <2>1, <2>3 DEF Claims
  <1>5. ASSUME NEW k \in DOMAIN conn', NEW i \in DOMAIN conn'[k].out
        PROVE  (LET r == conn[k].out[i] IN r.type = "HelloAck" => Grants(r.session, r.epoch, k))'
    <2>1. PICK r : r = conn'[k].out[i]
      OBVIOUS
    <2>2. r \in AnyAnswer /\ k \in Nat
      BY <1>2, <2>1
    <2>3. r.type = "HelloAck" => Grants(r.session, r.epoch, k)'
      BY <2>1, <2>2 DEF AnyAnswer
    <2> QED BY <2>1, <2>3 DEF Grants
  <1>6. ASSUME NEW c \in Clients
        PROVE  (/\ client[c].conn # 0 => Own(client[c].conn)
                /\ client[c].built => Own(client[c].told)
                /\ Grants(client[c].session, client[c].epoch, client[c].told)
                /\ ~Idle(c) => client[c].conn # 0)'
    <2>1. PICK d : d = client'[c]
      OBVIOUS
    <2>2. d \in ClientState
      BY <2>1 DEF SessionTypeOK
    <2>3. d.session \in Nat /\ d.epoch \in Nat /\ d.told \in Nat
      BY <2>2 DEF ClientState
    <2>4. (d.built => Own(d.told)') /\ Grants(d.session, d.epoch, d.told)'
      BY <2>1, <2>3
    <2>5. (client[c].built => Own(client[c].told))'
      BY <2>1, <2>4 DEF Own
    <2>6. Grants(client[c].session, client[c].epoch, client[c].told)'
      BY <2>1, <2>4 DEF Grants
    <2> QED BY <2>5, <2>6 DEF Idle
  <1> QED BY <1>3, <1>4, <1>5, <1>6 DEF Claimed

\* What was run stays run, and remembered, if sessions keep their memory.
LEMMA RunsKept ==
  ASSUME SessionInv, SessionTypeOK', executed' = executed,
         \A k \in DOMAIN conn : /\ k \in DOMAIN conn' /\ conn'[k].last_seq = conn[k].last_seq
                                /\ conn[k].handshaken => conn'[k].handshaken
  PROVE  Remembered' /\ RunsWhereMade' /\ RunsOnce'
  BY DEF SessionInv, Remembered, RunsWhereMade, RunsOnce

\* Steps in which sessions end or fall silent keep the invariant.
LEMMA QuietKeeps ==
  ASSUME SessionInv, SessionTypeOK', Len(conn') = Len(conn),
         \A j \in DOMAIN conn : Quiet(conn[j], conn'[j]),
         epoch' = epoch, nextId' = nextId, seen' = seen, executed' = executed,
         up' = up \/ \A j \in DOMAIN conn : conn'[j].server = "closed",
         \A c \in Clients :
             LET d == client'[c] IN
             /\ d.conn # 0 => Own(d.conn)
             /\ d.built => Own(d.told)
             /\ Grants(d.session, d.epoch, d.told)
             /\ d.waits # "no" => d.conn # 0
  PROVE  SessionInv'
  <1>1. /\ DOMAIN conn = 1..Len(conn) /\ DOMAIN conn' = DOMAIN conn
        /\ \A k \in DOMAIN conn : conn[k] \in ConnState /\ conn'[k] \in ConnState
    <2>1. conn \in Seq(ConnState) /\ conn' \in Seq(ConnState)
      BY DEF SessionInv, SessionTypeOK
    <2> QED BY <2>1, LenProperties, ElementOfSeq
  <1>2. \A j \in DOMAIN conn : /\ conn'[j].id = conn[j].id
                               /\ conn'[j].server = "serving" => conn[j].server = "serving"
    BY <1>1 DEF Quiet
  <1>3. \A i, e, k \in Nat : Grants(i, e, k) => Grants(i, e, k)'
    BY <1>1, <1>2 DEF Grants, Serving
  <1>4. \A k \in Nat : Own(k) => Own(k)'
    BY <1>1 DEF Own, Quiet
  <1>5. Ids'
    BY <1>1, <1>2 DEF SessionInv, Ids, Serving
  <1>6. \A k \in DOMAIN conn' : \A i \in DOMAIN conn'[k].in : Claims(conn'[k].in[i])
    BY <1>1 DEF SessionInv, Claimed, Quiet
  <1>7. \A k \in DOMAIN conn' : \A i \in DOMAIN conn'[k].out :
           LET r == conn'[k].out[i] IN r.type = "HelloAck" => Grants(r.session, r.epoch, k)
    <2> SUFFICES ASSUME NEW k \in DOMAIN conn, NEW i \in DOMAIN conn'[k].out,
                        conn'[k].out[i].type = "HelloAck"
                 PROVE  Grants(conn'[k].out[i].session, conn'[k].out[i].epoch, k)
      BY <1>1
    <2>1. PICK h \in DOMAIN conn[k].out : conn'[k].out[i] = conn[k].out[h]
      BY DEF Quiet
    <2> QED BY <2>1 DEF SessionInv, Claimed
  <1>8. \A f \in seen' : Claims(f)
    BY DEF SessionInv, Claimed
  <1>9. ASSUME NEW c \in Clients PROVE (client[c].conn # 0 => Own(client[c].conn))'
    <2>1. PICK n : n = client'[c].conn
      OBVIOUS
    <2>2. n \in Nat
      BY <2>1 DEF SessionTypeOK, ClientState
    <2>3. n # 0 => Own(n)'
      BY <1>4, <2>1, <2>2
    <2> QED BY <2>1, <2>3 DEF Own
  <1>10. Claimed'
    <2>1. SessionTypeOK
      BY DEF SessionInv
    <2> QED BY <1>3, <1>4, <1>6, <1>7, <1>8, <1>9, <2>1, ClaimedKept
  <1>11. Remembered' /\ RunsWhereMade' /\ RunsOnce'
    BY <1>1, RunsKept DEF Quiet
  <1> QED BY <1>5, <1>10, <1>11 DEF SessionInv

\* A client's claims, as the invariant has them.
LEMMA ClientFacts ==
  ASSUME SessionInv, NEW c \in Clients
  PROVE  /\ client[c] \in ClientState
         /\ client[c].conn # 0 => Own(client[c].conn) /\ client[c].conn \in DOMAIN conn
         /\ client[c].built => Own(client[c].told)
         /\ Grants(client[c].session, client[c].epoch, client[c].told)
         /\ client[c].waits # "no" => client[c].conn # 0
  BY DEF SessionInv, SessionTypeOK, Claimed, Idle, Own

\* Nothing is claimed by a client that is not connected.
LEMMA UnconnectedFacts ==
  ASSUME SessionTypeOK
  PROVE  Unconnected \in ClientState /\ Unconnected.conn = 0 /\ Unconnected.waits = "no"
         /\ ~Unconnected.built /\ Grants(Unconnected.session, Unconnected.epoch, Unconnected.told)
  <1>1. NoAnswer \in AnyFrame \cup {NoAnswer}
    OBVIOUS
  <1>2. Unconnected \in ClientState
    BY <1>1 DEF Unconnected, ClientState
  <1> QED BY <1>2 DEF Unconnected, Grants, SessionTypeOK

--------------------------------------------------------------------------------
(* One step per action *)

\* The connections after one of them has changed.
LEMMA OneChanged ==
  ASSUME NEW all \in Seq(ConnState), NEW k \in DOMAIN all, NEW t \in ConnState
  PROVE  LET new == [all EXCEPT ![k] = t] IN
         /\ new \in Seq(ConnState) /\ Len(new) = Len(all) /\ DOMAIN new = DOMAIN all
         /\ new[k] = t /\ \A j \in DOMAIN all : j # k => new[j] = all[j]
  <1> DEFINE new == [all EXCEPT ![k] = t]
  <1>1. k \in 1..Len(all) /\ DOMAIN all = 1..Len(all)
    BY LenProperties
  <1>2. new \in Seq(ConnState) /\ Len(new) = Len(all)
    BY <1>1, ExceptSeq
  <1> QED BY <1>1, <1>2

\* The accept loop closes a socket, and serve ends.
LEMMA EndsKeep ==
  ASSUME SessionInv, NEW k \in DOMAIN conn, conn' = [conn EXCEPT ![k] = Closed(@)],
         UNCHANGED <<epoch, up, nextId, client, seen, strays, executed>>
  PROVE  SessionInv'
  <1>1. SessionTypeOK /\ conn \in Seq(ConnState) /\ conn[k] \in ConnState
    BY ConnFacts DEF SessionInv, SessionTypeOK
  <1>2. Closed(conn[k]) \in ConnState /\ Quiet(conn[k], Closed(conn[k]))
    BY <1>1, ClosedQuiet
  <1>3. PICK t : t = Closed(conn[k])
    OBVIOUS
  <1>4. conn' = [conn EXCEPT ![k] = t]
    BY <1>3
  <1>5. /\ conn' \in Seq(ConnState) /\ Len(conn') = Len(conn)
        /\ conn'[k] = t /\ \A j \in DOMAIN conn : j # k => conn'[j] = conn[j]
    BY <1>1, <1>2, <1>3, <1>4, OneChanged
  <1>6. \A j \in DOMAIN conn : Quiet(conn[j], conn'[j])
    BY <1>2, <1>3, <1>5, SameQuiet
  <1>7. SessionTypeOK'
    BY <1>1, <1>5 DEF SessionTypeOK
  <1>8. \A c \in Clients :
             LET d == client'[c] IN
             /\ d.conn # 0 => Own(d.conn)
             /\ d.built => Own(d.told)
             /\ Grants(d.session, d.epoch, d.told)
             /\ d.waits # "no" => d.conn # 0
    BY ClientFacts
  <1> QED BY <1>5, <1>6, <1>7, <1>8, QuietKeeps

\* The coordinator dies with all its connections.
LEMMA CrashKeeps == ASSUME SessionInv, Crash PROVE SessionInv'
  <1> USE DEF Crash
  <1>1. SessionTypeOK /\ DOMAIN conn = 1..Len(conn) /\ Len(conn) \in Nat
    BY ConnFacts DEF SessionInv
  <1>2. \A j \in DOMAIN conn : /\ conn'[j] \in ConnState /\ Quiet(conn[j], conn'[j])
                               /\ conn'[j].server = "closed"
    BY <1>1, ConnFacts, ClosedQuiet
  <1>3. conn' \in [1..Len(conn) -> ConnState]
    BY <1>1, <1>2
  <1>4. conn' \in Seq(ConnState) /\ Len(conn') = Len(conn)
    BY <1>1, <1>3, LenProperties
  <1>5. SessionTypeOK'
    BY <1>1, <1>4 DEF SessionTypeOK
  <1>6. \A c \in Clients :
             LET d == client'[c] IN
             /\ d.conn # 0 => Own(d.conn)
             /\ d.built => Own(d.told)
             /\ Grants(d.session, d.epoch, d.told)
             /\ d.waits # "no" => d.conn # 0
    BY ClientFacts
  <1> QED BY <1>2, <1>4, <1>5, <1>6, QuietKeeps

\* A step of client c alone, to a state d that claims nothing new.
LEMMA ClientQuiet ==
  ASSUME SessionInv, NEW c \in Clients, NEW d \in ClientState,
         client' = [client EXCEPT ![c] = d],
         d.conn # 0 => Own(d.conn), d.built => Own(d.told),
         Grants(d.session, d.epoch, d.told), d.waits # "no" => d.conn # 0,
         conn' \in Seq(ConnState), Len(conn') = Len(conn),
         \A j \in DOMAIN conn : Quiet(conn[j], conn'[j]),
         UNCHANGED <<epoch, up, nextId, seen, strays, executed>>
  PROVE  SessionInv'
  <1>1. client \in [Clients -> ClientState] /\ SessionTypeOK
    BY DEF SessionInv, SessionTypeOK
  <1>2. client'[c] = d /\ \A b \in Clients : b # c => client'[b] = client[b]
    BY <1>1
  <1>3. SessionTypeOK'
    BY <1>1 DEF SessionTypeOK
  <1>4. ASSUME NEW b \in Clients
        PROVE  LET e == client'[b] IN
               /\ e.conn # 0 => Own(e.conn)
               /\ e.built => Own(e.told)
               /\ Grants(e.session, e.epoch, e.told)
               /\ e.waits # "no" => e.conn # 0
    BY <1>2, ClientFacts
  <1> QED BY <1>3, <1>4, QuietKeeps

\* close, the destructor, and refresh_handshake while the coordinator is down.
LEMMA HangUpKeeps ==
  ASSUME SessionInv, NEW c \in Clients, RefreshFails(c) \/ CloseClient(c) PROVE SessionInv'
  <1>1. conn \in Seq(ConnState) /\ SessionTypeOK /\ client \in [Clients -> ClientState]
    BY DEF SessionInv, SessionTypeOK
  <1>2. conn' = Hung(conn, client[c].conn)
    BY DEF RefreshFails, CloseClient
  <1>3. /\ conn' \in Seq(ConnState) /\ Len(conn') = Len(conn)
        /\ \A j \in DOMAIN conn : Quiet(conn[j], conn'[j])
    BY <1>1, <1>2, HungQuiet
  <1>4. CASE RefreshFails(c)
    <2> DEFINE d == [client[c] EXCEPT !.conn = 0, !.answer = NoAnswer]
    <2>1. client' = [client EXCEPT ![c] = d]
      BY <1>1, <1>4 DEF RefreshFails
    <2>2. /\ d \in ClientState /\ d.conn = 0 /\ d.waits = client[c].waits /\ d.built = client[c].built
          /\ d.session = client[c].session /\ d.epoch = client[c].epoch /\ d.told = client[c].told
      BY <1>1 DEF ClientState
    <2>3. d.waits = "no"
      BY <1>4, <2>2 DEF RefreshFails, Idle
    <2> HIDE DEF d
    <2> QED BY <1>3, <1>4, <2>1, <2>2, <2>3, ClientFacts, ClientQuiet DEF RefreshFails
  <1>5. CASE CloseClient(c)
    BY <1>1, <1>3, <1>5, UnconnectedFacts, ClientQuiet DEF CloseClient
  <1> QED BY <1>4, <1>5

\* A failed handshake or call, whatever had been read.
LEMMA FailsKeeps ==
  ASSUME SessionInv, NEW c \in Clients, ~Idle(c), NEW after \in Seq(ConnState), Len(after) = Len(conn),
         \A j \in DOMAIN conn : Quiet(conn[j], after[j]), Fails(c, after),
         UNCHANGED <<epoch, up, nextId, seen, strays, executed>>
  PROVE  SessionInv'
  <1>1. SessionTypeOK /\ client \in [Clients -> ClientState] /\ DOMAIN after = DOMAIN conn
    BY LenProperties DEF SessionInv, SessionTypeOK
  <1>2. CASE client[c].built
    <2> DEFINE d == [client[c] EXCEPT !.waits = "no", !.behind = TRUE]
    <2>1. client' = [client EXCEPT ![c] = d] /\ conn' = after
      BY <1>1, <1>2 DEF Fails
    <2>2. /\ d \in ClientState /\ d.conn = client[c].conn /\ d.waits = "no" /\ d.built = client[c].built
          /\ d.session = client[c].session /\ d.epoch = client[c].epoch /\ d.told = client[c].told
      BY <1>1 DEF ClientState
    <2> HIDE DEF d
    <2> QED BY <1>2, <2>1, <2>2, ClientFacts, ClientQuiet
  <1>3. CASE ~client[c].built
    <2>1. client' = [client EXCEPT ![c] = Unconnected] /\ conn' = Hung(after, client[c].conn)
      BY <1>3 DEF Fails
    <2>2. /\ conn' \in Seq(ConnState) /\ Len(conn') = Len(conn)
          /\ \A j \in DOMAIN conn : Quiet(after[j], conn'[j])
      BY <1>1, <2>1, HungQuiet
    <2>3. \A s, t, u : Quiet(s, t) /\ Quiet(t, u) => Quiet(s, u)
      BY DEF Quiet
    <2>4. \A j \in DOMAIN conn : Quiet(conn[j], conn'[j])
      BY <2>2, <2>3
    <2> QED BY <1>1, <2>1, <2>2, <2>4, UnconnectedFacts, ClientQuiet
  <1> QED BY <1>2, <1>3

\* The receive loop: what is read was said on the client's own connection.
LEMMA ReceiveKeeps ==
  ASSUME SessionInv, NEW c \in Clients, Receive(c) PROVE SessionInv'
  <1> DEFINE k == client[c].conn
             r == Head(conn[k].out)
  <1>1. /\ SessionTypeOK /\ conn \in Seq(ConnState) /\ client \in [Clients -> ClientState]
        /\ client[c] \in ClientState /\ ~Idle(c)
        /\ UNCHANGED <<epoch, up, nextId, seen, strays, executed>>
    BY DEF SessionInv, SessionTypeOK, Receive
  <1>2. k \in DOMAIN conn /\ Own(k)
    BY <1>1, ClientFacts DEF Idle
  <1>3. conn[k] \in ConnState /\ conn[k].out \in Seq(AnyAnswer) /\ conn[k].out # <<>>
    BY <1>1, <1>2, ConnFacts DEF Receive, ConnState
  <1>4. 1 \in DOMAIN conn[k].out /\ r = conn[k].out[1] /\ r \in AnyAnswer
    BY <1>3, LenProperties, EmptySeq, ElementOfSeq
  <1>5. r.type = "HelloAck" => Grants(r.session, r.epoch, k) /\ r.session \in Nat /\ r.epoch \in Nat
    <2>1. r.type = "HelloAck" => Grants(r.session, r.epoch, k)
      BY <1>2, <1>4 DEF SessionInv, Claimed
    <2> QED BY <1>4, <2>1 DEF AnyAnswer
  <1>6. r.type = "Response" => r.to \in AnyFrame
    BY <1>4 DEF AnyAnswer
  <1> HIDE DEF r
  <1>7. PICK n \in 1..Len(conn[k].out) :
          LET read == [conn EXCEPT ![k].out = SubSeq(@, n + 1, Len(@))] IN
          \/ /\ client[c].waits = "HelloAck" /\ r.type = "HelloAck"
             /\ client' = [client EXCEPT ![c].waits = "no", ![c].built = TRUE,
                  ![c].session = r.session, ![c].epoch = r.epoch, ![c].told = k, ![c].seq = 0]
             /\ conn' = read
          \/ /\ client[c].waits = "Response" /\ r.type = "Response"
             /\ client' = [client EXCEPT ![c].waits = "no", ![c].answer = r.to]
             /\ conn' = read
          \/ r.type # client[c].waits /\ Fails(c, read)
    BY DEF Receive, r
  <1> DEFINE t == [conn[k] EXCEPT !.out = SubSeq(@, n + 1, Len(@))]
             read == [conn EXCEPT ![k] = t]
  <1>8. t \in ConnState /\ Quiet(conn[k], t)
    BY <1>3, ReadQuiet
  <1>9. read = [conn EXCEPT ![k].out = SubSeq(@, n + 1, Len(@))]
    BY <1>1, <1>2
  <1> HIDE DEF t
  <1>10. /\ read \in Seq(ConnState) /\ Len(read) = Len(conn)
         /\ read[k] = t /\ \A j \in DOMAIN conn : j # k => read[j] = conn[j]
    BY <1>1, <1>2, <1>8, OneChanged
  <1>11. \A j \in DOMAIN conn : Quiet(conn[j], read[j])
    BY <1>8, <1>10, SameQuiet
  <1> HIDE DEF read
  <1>12. CASE /\ client[c].waits = "HelloAck" /\ r.type = "HelloAck" /\ conn' = read
              /\ client' = [client EXCEPT ![c].waits = "no", ![c].built = TRUE,
                   ![c].session = r.session, ![c].epoch = r.epoch, ![c].told = k, ![c].seq = 0]
    <2> DEFINE d == [client[c] EXCEPT !.waits = "no", !.built = TRUE,
                       !.session = r.session, !.epoch = r.epoch, !.told = k, !.seq = 0]
    <2>1. client' = [client EXCEPT ![c] = d]
      BY <1>1, <1>12
    <2>2. k \in Nat
      BY <1>1 DEF ClientState
    <2>3. /\ d \in ClientState /\ d.conn = k /\ d.waits = "no" /\ d.session = r.session
          /\ d.epoch = r.epoch /\ d.told = k
      BY <1>1, <1>5, <1>12, <2>2 DEF ClientState
    <2>4. Grants(d.session, d.epoch, d.told) /\ Own(d.told) /\ Own(d.conn)
      BY <1>2, <1>5, <1>12, <2>3
    <2>5. /\ conn' \in Seq(ConnState) /\ Len(conn') = Len(conn)
          /\ \A j \in DOMAIN conn : Quiet(conn[j], conn'[j])
      BY <1>10, <1>11, <1>12
    <2> HIDE DEF d, k
    <2> QED BY <1>1, <2>1, <2>3, <2>4, <2>5, ClientQuiet
  <1>13. CASE /\ client[c].waits = "Response" /\ r.type = "Response" /\ conn' = read
              /\ client' = [client EXCEPT ![c].waits = "no", ![c].answer = r.to]
    <2> DEFINE d == [client[c] EXCEPT !.waits = "no", !.answer = r.to]
    <2>1. client' = [client EXCEPT ![c] = d]
      BY <1>1, <1>13
    <2>2. /\ d \in ClientState /\ d.conn = k /\ d.waits = "no" /\ d.built = client[c].built
          /\ d.session = client[c].session /\ d.epoch = client[c].epoch /\ d.told = client[c].told
      BY <1>1, <1>6, <1>13 DEF ClientState
    <2> HIDE DEF d
    <2> QED BY <1>1, <1>10, <1>11, <1>13, <2>1, <2>2, ClientFacts, ClientQuiet
  <1>14. CASE Fails(c, read)
    BY <1>1, <1>10, <1>11, <1>14, FailsKeeps
  <1> QED BY <1>7, <1>9, <1>12, <1>13, <1>14

\* recv fails, or returns 0.
LEMMA ReceiveNothingKeeps ==
  ASSUME SessionInv, NEW c \in Clients, ReceiveClosed(c) \/ ReceiveFails(c) PROVE SessionInv'
  <1>1. conn \in Seq(ConnState)
    BY DEF SessionInv, SessionTypeOK
  <1>2. \A j \in DOMAIN conn : Quiet(conn[j], conn[j])
    BY SameQuiet
  <1>3. /\ ~Idle(c) /\ Fails(c, conn) /\ UNCHANGED <<epoch, up, nextId, seen, strays, executed>>
    BY DEF ReceiveClosed, ReceiveFails
  <1> QED BY <1>1, <1>2, <1>3, FailsKeeps

\* The next boot gives the ids away again, under the next epoch.
LEMMA RestartKeeps == ASSUME SessionInv, Restart PROVE SessionInv'
  <1> USE DEF Restart
  <1>1. SessionTypeOK /\ SessionTypeOK' /\ epoch \in Nat
    BY DEF SessionInv, SessionTypeOK
  <1>2. \A k \in DOMAIN conn : ~Serving(k) /\ ~Serving(k)'
    BY DEF SessionInv, Ids, Serving
  <1>3. Ids'
    BY <1>2 DEF Ids, Serving
  <1>4. \A i, e, k \in Nat : Grants(i, e, k) => Grants(i, e, k)'
    BY <1>1 DEF Grants
  <1>5. \A k \in Nat : Own(k) => Own(k)'
    BY DEF Own
  <1>6. Claimed'
    <2>1. \A c \in Clients :
             LET d == client'[c] IN
             /\ (client[c].conn # 0 => Own(client[c].conn))'
             /\ d.built => Own(d.told)
             /\ Grants(d.session, d.epoch, d.told)
             /\ d.waits # "no" => d.conn # 0
      <3> TAKE c \in Clients
      <3>1. (client[c].conn # 0 => Own(client[c].conn))'
        BY ClientFacts DEF Own
      <3> QED BY <3>1, ClientFacts
    <2>2. \A f \in seen' : Claims(f)
      BY DEF SessionInv, Claimed
    <2>3. \A k \in DOMAIN conn' : \A i \in DOMAIN conn'[k].in : Claims(conn'[k].in[i])
      BY DEF SessionInv, Claimed
    <2>4. \A k \in DOMAIN conn' : \A i \in DOMAIN conn'[k].out :
             LET r == conn'[k].out[i] IN r.type = "HelloAck" => Grants(r.session, r.epoch, k)
      BY DEF SessionInv, Claimed
    <2> QED BY <1>1, <1>4, <1>5, <2>1, <2>2, <2>3, <2>4, ClaimedKept
  <1>7. Remembered' /\ RunsWhereMade' /\ RunsOnce'
    BY <1>1, RunsKept
  <1> QED BY <1>1, <1>3, <1>6, <1>7 DEF SessionInv

\* A session is opened under the next id, which nobody was told yet.
LEMMA OpenKeeps ==
  ASSUME SessionInv, NEW k \in DOMAIN conn, up, conn[k].server = "backlog",
         conn' = [conn EXCEPT ![k].server = "serving", ![k].id = nextId], nextId' = nextId + 1,
         UNCHANGED <<epoch, up, client, seen, strays, executed>>
  PROVE  SessionInv'
  <1> DEFINE t == [conn[k] EXCEPT !.server = "serving", !.id = nextId]
  <1>1. SessionTypeOK /\ conn \in Seq(ConnState) /\ conn[k] \in ConnState /\ nextId \in Nat
    BY ConnFacts DEF SessionInv, SessionTypeOK
  <1>2. /\ t \in ConnState /\ t.server = "serving" /\ t.id = nextId /\ t.in = conn[k].in
        /\ t.out = conn[k].out /\ t.client = conn[k].client /\ t.handshaken = conn[k].handshaken
        /\ t.last_seq = conn[k].last_seq
    BY <1>1 DEF ConnState
  <1>3. conn' = [conn EXCEPT ![k] = t]
    BY <1>1
  <1> HIDE DEF t
  <1>4. /\ conn' \in Seq(ConnState) /\ Len(conn') = Len(conn) /\ DOMAIN conn' = DOMAIN conn
        /\ conn'[k] = t /\ \A j \in DOMAIN conn : j # k => conn'[j] = conn[j]
    <2> DEFINE new == [conn EXCEPT ![k] = t]
    <2>1. /\ new \in Seq(ConnState) /\ Len(new) = Len(conn) /\ DOMAIN new = DOMAIN conn
          /\ new[k] = t /\ \A j \in DOMAIN conn : j # k => new[j] = conn[j]
      BY <1>1, <1>2, OneChanged
    <2>2. conn' = new
      BY <1>3
    <2> HIDE DEF new
    <2> QED BY ONLY <2>1, <2>2
  <1>5. SessionTypeOK'
    BY <1>1, <1>4 DEF SessionTypeOK
  <1>6. \A i, e, j \in Nat : Grants(i, e, j) => Grants(i, e, j)'
    BY <1>1, <1>2, <1>4 DEF Grants, Serving
  <1>7. \A j \in Nat : Own(j) => Own(j)'
    BY <1>2, <1>4 DEF Own
  <1>8. Ids'
    <2>1. \A j \in DOMAIN conn : conn[j].id \in Nat
      BY <1>1, ConnFacts DEF ConnState
    <2> QED BY <1>1, <1>2, <1>4, <2>1 DEF SessionInv, Ids, Serving
  <1>9. Claimed'
    <2>1. \A c \in Clients :
             LET d == client'[c] IN
             /\ (client[c].conn # 0 => Own(client[c].conn))'
             /\ d.built => Own(d.told)
             /\ Grants(d.session, d.epoch, d.told)
             /\ d.waits # "no" => d.conn # 0
      <3> TAKE c \in Clients
      <3>1. (client[c].conn # 0 => Own(client[c].conn))'
        <4>1. PICK n : n = client'[c].conn
          OBVIOUS
        <4>2. n \in Nat /\ (n # 0 => Own(n))
          BY <4>1, ClientFacts DEF ClientState
        <4> QED BY <1>7, <4>1, <4>2 DEF Own
      <3> QED BY <3>1, ClientFacts
    <2>2. \A f \in seen' : Claims(f)
      BY DEF SessionInv, Claimed
    <2>3. \A j \in DOMAIN conn' : \A i \in DOMAIN conn'[j].in : Claims(conn'[j].in[i])
      BY <1>2, <1>4 DEF SessionInv, Claimed
    <2>4. \A j \in DOMAIN conn' : \A i \in DOMAIN conn'[j].out :
             LET r == conn'[j].out[i] IN r.type = "HelloAck" => Grants(r.session, r.epoch, j)
      BY <1>2, <1>4 DEF SessionInv, Claimed
    <2> QED BY <1>1, <1>5, <1>6, <1>7, <2>1, <2>2, <2>3, <2>4, ClaimedKept
  <1>10. Remembered' /\ RunsWhereMade' /\ RunsOnce'
    BY <1>2, <1>4, <1>5, RunsKept
  <1> QED BY <1>5, <1>8, <1>9, <1>10 DEF SessionInv

\* A frame is written to a connection that is not closed: what it claims holds.
LEMMA WrittenKeeps ==
  ASSUME SessionInv, SessionTypeOK', NEW k \in DOMAIN conn, NEW f \in AnyFrame, Claims(f),
         Len(conn') = Len(conn), \A j \in DOMAIN conn : j # k => conn'[j] = conn[j],
         conn'[k].in = Append(conn[k].in, f), conn'[k].out = conn[k].out,
         conn'[k].server = conn[k].server, conn'[k].id = conn[k].id,
         conn'[k].client = conn[k].client, conn'[k].handshaken = conn[k].handshaken,
         conn'[k].last_seq = conn[k].last_seq,
         epoch' = epoch, up' = up, nextId' = nextId, executed' = executed,
         seen' \subseteq seen \cup {f},
         \A c \in Clients :
             LET d == client'[c] IN
             /\ d.conn # 0 => Own(d.conn)
             /\ d.built => Own(d.told)
             /\ Grants(d.session, d.epoch, d.told)
             /\ d.waits # "no" => d.conn # 0
  PROVE  SessionInv'
  <1>1. SessionTypeOK /\ conn \in Seq(ConnState) /\ conn[k] \in ConnState /\ DOMAIN conn' = DOMAIN conn
    <2>1. conn \in Seq(ConnState) /\ conn' \in Seq(ConnState)
      BY DEF SessionInv, SessionTypeOK
    <2> QED BY <2>1, LenProperties, ElementOfSeq DEF SessionInv
  <1>2. \A i, e, j \in Nat : Grants(i, e, j) => Grants(i, e, j)'
    BY <1>1 DEF Grants, Serving
  <1>3. conn[k].in \in Seq(AnyFrame)
    BY <1>1 DEF ConnState
  <1>4. /\ DOMAIN conn[k].in = 1..Len(conn[k].in) /\ Len(conn[k].in) \in Nat
        /\ DOMAIN conn'[k].in = 1..(Len(conn[k].in) + 1)
        /\ \A i \in 1..Len(conn[k].in) : conn'[k].in[i] = conn[k].in[i]
        /\ conn'[k].in[Len(conn[k].in) + 1] = f
    BY <1>3, AppendProperties, LenProperties
  <1>5. \A j \in Nat : Own(j) => Own(j)'
    <2>1. conn[k].in # <<>> => conn'[k].in # <<>> /\ conn'[k].in[1] = conn[k].in[1]
      BY <1>3, <1>4, EmptySeq, LenProperties
    <2> QED BY <1>1, <2>1 DEF Own
  <1>6. Ids'
    BY <1>1 DEF SessionInv, Ids, Serving
  <1>7. Claimed'
    <2>1. \A c \in Clients :
             LET d == client'[c] IN
             /\ (client[c].conn # 0 => Own(client[c].conn))'
             /\ d.built => Own(d.told)
             /\ Grants(d.session, d.epoch, d.told)
             /\ d.waits # "no" => d.conn # 0
      <3> TAKE c \in Clients
      <3>1. (client[c].conn # 0 => Own(client[c].conn))'
        <4>1. PICK n : n = client'[c].conn
          OBVIOUS
        <4>2. n \in Nat /\ (n # 0 => Own(n))
          BY <4>1 DEF SessionTypeOK, ClientState
        <4> QED BY <1>5, <4>1, <4>2 DEF Own
      <3> QED BY <3>1
    <2>2. \A g \in seen' : Claims(g)
      BY DEF SessionInv, Claimed
    <2>3. ASSUME NEW j \in DOMAIN conn', NEW i \in DOMAIN conn'[j].in PROVE Claims(conn'[j].in[i])
      <3>1. CASE j = k /\ i = Len(conn[k].in) + 1
        BY <1>4, <3>1
      <3>2. CASE j = k /\ i # Len(conn[k].in) + 1
        <4>1. i \in DOMAIN conn[k].in /\ conn'[j].in[i] = conn[k].in[i]
          BY <1>4, <3>2, <2>3
        <4> QED BY <4>1 DEF SessionInv, Claimed
      <3>3. CASE j # k
        BY <1>1, <3>3 DEF SessionInv, Claimed
      <3> QED BY <3>1, <3>2, <3>3
    <2>4. \A j \in DOMAIN conn' : \A i \in DOMAIN conn'[j].out :
             LET r == conn'[j].out[i] IN r.type = "HelloAck" => Grants(r.session, r.epoch, j)
      BY <1>1 DEF SessionInv, Claimed
    <2> QED BY <1>1, <1>2, <1>5, <2>1, <2>2, <2>3, <2>4, ClaimedKept
  <1>8. Remembered' /\ RunsWhereMade' /\ RunsOnce'
    BY <1>1, RunsKept
  <1> QED BY <1>6, <1>7, <1>8 DEF SessionInv

\* A frame seen before is written again, anywhere.
LEMMA StrayKeeps ==
  ASSUME SessionInv, NEW f \in seen, NEW k \in DOMAIN conn, Stray(k, f) PROVE SessionInv'
  <1> DEFINE t == [conn[k] EXCEPT !.in = Append(@, f), !.mixed = TRUE]
  <1>1. /\ SessionTypeOK /\ conn \in Seq(ConnState) /\ conn[k] \in ConnState /\ f \in AnyFrame
        /\ Claims(f)
    BY ConnFacts DEF SessionInv, SessionTypeOK, Claimed
  <1>2. Append(conn[k].in, f) \in Seq(AnyFrame)
    BY <1>1, AppendProperties DEF ConnState
  <1>3. /\ t \in ConnState /\ t.server = conn[k].server /\ t.id = conn[k].id /\ t.out = conn[k].out
        /\ t.client = conn[k].client /\ t.handshaken = conn[k].handshaken
        /\ t.last_seq = conn[k].last_seq /\ t.in = Append(conn[k].in, f)
    BY <1>1, <1>2 DEF ConnState
  <1>4. conn' = [conn EXCEPT ![k] = t]
    BY <1>1 DEF Stray
  <1> HIDE DEF t
  <1>5. /\ conn' \in Seq(ConnState) /\ Len(conn') = Len(conn)
        /\ conn'[k] = t /\ \A j \in DOMAIN conn : j # k => conn'[j] = conn[j]
    BY <1>1, <1>3, <1>4, OneChanged
  <1>6. UNCHANGED <<epoch, up, nextId, client, seen, executed>> /\ strays' = strays + 1
    BY DEF Stray
  <1>7. SessionTypeOK'
    BY <1>1, <1>5, <1>6 DEF SessionTypeOK
  <1>8. \A c \in Clients :
             LET d == client'[c] IN
             /\ d.conn # 0 => Own(d.conn)
             /\ d.built => Own(d.told)
             /\ Grants(d.session, d.epoch, d.told)
             /\ d.waits # "no" => d.conn # 0
    BY <1>6, ClientFacts
  <1> QED BY <1>1, <1>3, <1>5, <1>6, <1>7, <1>8, WrittenKeeps

\* A client asks: it claims what it was told.
LEMMA CallKeeps ==
  ASSUME SessionInv, NEW c \in Clients, Call(c) PROVE SessionInv'
  <1> DEFINE k == client[c].conn
             f == Request(Stamped(c))
             t == [conn[k] EXCEPT !.in = Append(@, f)]
             d == [client[c] EXCEPT !.seq = @ + 1, !.waits = "Response", !.answer = NoAnswer]
  <1>1. /\ SessionTypeOK /\ conn \in Seq(ConnState) /\ client \in [Clients -> ClientState]
        /\ client[c] \in ClientState /\ k # 0 /\ k \in DOMAIN conn /\ client[c].built
    BY ClientFacts DEF SessionInv, SessionTypeOK, Call
  <1>2. conn[k] \in ConnState
    BY <1>1, ConnFacts
  <1>3. /\ f \in AnyFrame /\ f.type = "Request" /\ f.envelope.told = client[c].told
        /\ f.envelope.session = client[c].session /\ f.envelope.epoch = client[c].epoch
    <2>1. /\ Stamped(c) \in AnyEnvelope /\ Stamped(c).told = client[c].told
          /\ Stamped(c).session = client[c].session /\ Stamped(c).epoch = client[c].epoch
      BY <1>1 DEF Stamped, Current, ClientState, AnyEnvelope
    <2> QED BY <2>1 DEF Request, AnyFrame
  <1>4. Claims(f)
    BY <1>1, <1>3, ClientFacts DEF Claims
  <1>5. /\ conn' = [conn EXCEPT ![k] = t] /\ client' = [client EXCEPT ![c] = d] /\ seen' = seen \cup {f}
        /\ UNCHANGED <<epoch, up, nextId, strays, executed>>
    BY <1>1 DEF Call
  <1> HIDE DEF f
  <1>6. Append(conn[k].in, f) \in Seq(AnyFrame)
    BY <1>2, <1>3, AppendProperties DEF ConnState
  <1>7. /\ t \in ConnState /\ t.server = conn[k].server /\ t.id = conn[k].id /\ t.out = conn[k].out
        /\ t.client = conn[k].client /\ t.handshaken = conn[k].handshaken
        /\ t.last_seq = conn[k].last_seq /\ t.in = Append(conn[k].in, f)
    BY <1>2, <1>6 DEF ConnState
  <1>8. /\ d \in ClientState /\ d.conn = k /\ d.built = client[c].built
        /\ d.session = client[c].session /\ d.epoch = client[c].epoch /\ d.told = client[c].told
    <2>1. client[c].seq + 1 \in Nat /\ NoAnswer \in AnyFrame \cup {NoAnswer}
      BY <1>1 DEF ClientState
    <2> QED BY <1>1, <2>1 DEF ClientState
  <1> HIDE DEF t, d
  <1>9. /\ conn' \in Seq(ConnState) /\ Len(conn') = Len(conn)
        /\ conn'[k] = t /\ \A j \in DOMAIN conn : j # k => conn'[j] = conn[j]
    BY <1>1, <1>5, <1>7, OneChanged
  <1>10. client'[c] = d /\ \A b \in Clients : b # c => client'[b] = client[b]
    BY <1>1, <1>5
  <1>11. SessionTypeOK'
    BY <1>1, <1>3, <1>5, <1>8, <1>9 DEF SessionTypeOK
  <1>12. ASSUME NEW b \in Clients
         PROVE  LET e == client'[b] IN
                /\ e.conn # 0 => Own(e.conn)
                /\ e.built => Own(e.told)
                /\ Grants(e.session, e.epoch, e.told)
                /\ e.waits # "no" => e.conn # 0
    BY <1>1, <1>8, <1>10, ClientFacts
  <1> HIDE DEF k
  <1> QED BY <1>1, <1>3, <1>4, <1>5, <1>7, <1>9, <1>11, <1>12, WrittenKeeps

\* A connection is made: a client's own, with its Hello, or somebody else's.
LEMMA MadeKeeps ==
  ASSUME SessionInv, SessionTypeOK', NEW base \in Seq(ConnState), Len(base) = Len(conn),
         \A j \in DOMAIN conn : Quiet(conn[j], base[j]),
         NEW f \in AnyFrame, f.type = "Hello", NEW n \in ConnState, conn' = Append(base, n),
         n.server = "backlog", n.in = <<f>>, n.out = <<>>, ~n.handshaken,
         epoch' = epoch, up' = up, nextId' = nextId, executed' = executed,
         seen' \subseteq seen \cup {f},
         \A c \in Clients :
             LET d == client'[c] IN
             /\ d.conn # 0 => Own(d.conn) \/ (d.conn = Len(conn) + 1 /\ f = Hello(d.conn))
             /\ d.built => Own(d.told)
             /\ Grants(d.session, d.epoch, d.told)
             /\ d.waits # "no" => d.conn # 0
  PROVE  SessionInv'
  <1>0. PICK k : k = Len(conn) + 1
    OBVIOUS
  <1>1. /\ SessionTypeOK /\ conn \in Seq(ConnState) /\ DOMAIN conn = 1..Len(conn) /\ Len(conn) \in Nat
        /\ \A j \in DOMAIN conn : conn[j] \in ConnState
    BY ConnFacts DEF SessionInv, SessionTypeOK
  <1>2. /\ DOMAIN conn' = 1..k /\ k \in Nat /\ k \notin DOMAIN conn
        /\ \A j \in DOMAIN conn : j \in DOMAIN conn' /\ conn'[j] = base[j]
        /\ conn'[k] = n
    BY <1>0, <1>1, AppendProperties, LenProperties
  <1>3. \A j \in DOMAIN conn' : j = k \/ j \in DOMAIN conn
    BY <1>0, <1>1, <1>2
  <1>4. \A j \in DOMAIN conn : Quiet(conn[j], conn'[j])
    BY <1>2
  <1>5. \A j \in DOMAIN conn' : conn'[j].server = "serving" =>
            j \in DOMAIN conn /\ conn[j].server = "serving" /\ conn'[j].id = conn[j].id
    BY <1>2, <1>3, <1>4 DEF Quiet
  <1>6. \A i, e, j \in Nat : Grants(i, e, j) => Grants(i, e, j)'
    BY <1>2, <1>5 DEF Grants, Serving
  <1>7. \A j \in Nat : Own(j) => Own(j)'
    BY <1>2, <1>4 DEF Own, Quiet
  <1>8. f = Hello(k) => Own(k)'
    <2>1. n.in # <<>> /\ n.in[1] = f
      OBVIOUS
    <2>2. /\ k \in DOMAIN conn' /\ ~conn'[k].handshaken
          /\ conn'[k].in # <<>> /\ conn'[k].in[1] = f
      <3>1. k \in DOMAIN conn'
        BY <1>0, <1>1, <1>2
      <3>2. conn'[k] = n /\ ~n.handshaken
        BY <1>2
      <3> QED BY ONLY <2>1, <3>1, <3>2
    <2> QED BY ONLY <2>2 DEF Own
  <1>9. Ids'
    BY <1>2, <1>5 DEF SessionInv, Ids, Serving
  <1>10. Claimed'
    <2>1. \A c \in Clients :
             LET d == client'[c] IN
             /\ (client[c].conn # 0 => Own(client[c].conn))'
             /\ d.built => Own(d.told)
             /\ Grants(d.session, d.epoch, d.told)
             /\ d.waits # "no" => d.conn # 0
      <3> TAKE c \in Clients
      <3>1. (client[c].conn # 0 => Own(client[c].conn))'
        <4>1. PICK m : m = client'[c].conn
          OBVIOUS
        <4>2. m \in Nat /\ (m # 0 => Own(m) \/ (m = k /\ f = Hello(k)))
          BY <1>0, <4>1 DEF SessionTypeOK, ClientState
        <4>3. m # 0 => Own(m)'
          BY <1>7, <1>8, <4>2
        <4> QED BY <4>1, <4>3 DEF Own
      <3> QED BY <3>1
    <2>2. \A g \in seen' : Claims(g)
      BY DEF SessionInv, Claimed, Claims
    <2>3. ASSUME NEW j \in DOMAIN conn', NEW i \in DOMAIN conn'[j].in PROVE Claims(conn'[j].in[i])
      <3>1. CASE j = k
        BY <1>2, <3>1 DEF Claims
      <3>2. CASE j \in DOMAIN conn
        BY <1>4, <3>2 DEF SessionInv, Claimed, Quiet
      <3> QED BY <1>3, <3>1, <3>2
    <2>4. ASSUME NEW j \in DOMAIN conn', NEW i \in DOMAIN conn'[j].out,
                 conn'[j].out[i].type = "HelloAck"
          PROVE  Grants(conn'[j].out[i].session, conn'[j].out[i].epoch, j)
      <3>1. j # k
        BY <1>2, <2>4
      <3>2. PICK h \in DOMAIN conn[j].out : conn'[j].out[i] = conn[j].out[h]
        BY <1>3, <1>4, <3>1, <2>4 DEF Quiet
      <3> QED BY <1>3, <3>1, <3>2, <2>4 DEF SessionInv, Claimed
    <2> QED BY <1>1, <1>6, <1>7, <2>1, <2>2, <2>3, <2>4, ClaimedKept
  <1>11. Remembered' /\ RunsWhereMade' /\ RunsOnce'
    BY <1>2, <1>4, RunsKept DEF Quiet
  <1> QED BY <1>9, <1>10, <1>11 DEF SessionInv

\* What a new connection is.
LEMMA NewConnFacts ==
  ASSUME NEW f \in AnyFrame
  PROVE  LET n == NewConn(f)
             m == [NewConn(f) EXCEPT !.mixed = TRUE]
         IN  /\ n \in ConnState /\ n.server = "backlog" /\ n.in = <<f>> /\ n.out = <<>>
             /\ ~n.handshaken
             /\ m \in ConnState /\ m.server = "backlog" /\ m.in = <<f>> /\ m.out = <<>>
             /\ ~m.handshaken
  <1> DEFINE n == NewConn(f)
  <1>1. <<>> \in Seq(AnyAnswer) /\ <<f>> \in Seq(AnyFrame)
    OBVIOUS
  <1>2. n \in ConnState /\ n.server = "backlog" /\ n.in = <<f>> /\ n.out = <<>> /\ ~n.handshaken
    BY <1>1 DEF NewConn, ConnState
  <1> HIDE DEF n
  <1>3. LET m == [n EXCEPT !.mixed = TRUE]
        IN  /\ m \in ConnState /\ m.server = n.server /\ m.in = n.in /\ m.out = n.out
            /\ m.handshaken = n.handshaken
    BY <1>2 DEF ConnState
  <1> QED BY <1>2, <1>3 DEF n

\* Somebody repeats a Hello on a connection of its own.
LEMMA StrangerKeeps ==
  ASSUME SessionInv, NEW f \in seen, Stranger(f) PROVE SessionInv'
  <1> DEFINE n == [NewConn(f) EXCEPT !.mixed = TRUE]
  <1>1. SessionTypeOK /\ conn \in Seq(ConnState) /\ f \in AnyFrame /\ f.type = "Hello"
    BY DEF SessionInv, SessionTypeOK, Stranger
  <1>2. n \in ConnState /\ n.server = "backlog" /\ n.in = <<f>> /\ n.out = <<>> /\ ~n.handshaken
    BY <1>1, NewConnFacts
  <1>3. /\ conn' = Append(conn, n) /\ strays' = strays + 1
        /\ UNCHANGED <<epoch, up, nextId, client, seen, executed>>
    BY DEF Stranger
  <1> HIDE DEF n
  <1>4. SessionTypeOK'
    <2>1. conn' \in Seq(ConnState)
      BY <1>1, <1>2, <1>3, AppendProperties
    <2> QED BY <1>1, <1>3, <2>1 DEF SessionTypeOK
  <1>5. \A j \in DOMAIN conn : Quiet(conn[j], conn[j])
    BY SameQuiet
  <1>6. \A c \in Clients :
             LET d == client'[c] IN
             /\ d.conn # 0 => Own(d.conn) \/ (d.conn = Len(conn) + 1 /\ f = Hello(d.conn))
             /\ d.built => Own(d.told)
             /\ Grants(d.session, d.epoch, d.told)
             /\ d.waits # "no" => d.conn # 0
    BY <1>3, ClientFacts
  <1> QED BY <1>1, <1>2, <1>3, <1>4, <1>5, <1>6, MadeKeeps

\* connect and refresh_handshake: the new connection is the client's own, and what
\* it was told before stays true of the connection it was told over.
LEMMA ConnectKeeps ==
  ASSUME SessionInv, NEW c \in Clients, Connect(c) PROVE SessionInv'
  <1> DEFINE k == Len(conn) + 1
             base == Hung(conn, client[c].conn)
             n == NewConn(Hello(k))
             d == [client[c] EXCEPT !.conn = k, !.incarnation = k, !.waits = "HelloAck",
                                    !.behind = FALSE, !.answer = NoAnswer]
  <1>1. /\ SessionTypeOK /\ conn \in Seq(ConnState) /\ client \in [Clients -> ClientState]
        /\ client[c] \in ClientState /\ k \in Nat /\ k # 0
    BY LenProperties DEF SessionInv, SessionTypeOK
  <1>2. Hello(k) \in AnyFrame /\ Hello(k).type = "Hello"
    BY <1>1 DEF Hello, AnyFrame
  <1>3. /\ n \in ConnState /\ n.server = "backlog" /\ n.in = <<Hello(k)>> /\ n.out = <<>>
        /\ ~n.handshaken
    BY <1>2, NewConnFacts
  <1>4. base \in Seq(ConnState) /\ Len(base) = Len(conn) /\ \A j \in DOMAIN conn : Quiet(conn[j], base[j])
    BY <1>1, HungQuiet
  <1>5. /\ conn' = Append(base, n) /\ client' = [client EXCEPT ![c] = d]
        /\ seen' = seen \cup {Hello(k)} /\ UNCHANGED <<epoch, up, nextId, strays, executed>>
    BY <1>1 DEF Connect
  <1>6. NoAnswer \in AnyFrame \cup {NoAnswer}
    OBVIOUS
  <1> HIDE DEF k
  <1>7. /\ d \in ClientState /\ d.conn = k /\ d.built = client[c].built
        /\ d.session = client[c].session /\ d.epoch = client[c].epoch /\ d.told = client[c].told
    BY <1>1, <1>6 DEF ClientState
  <1> HIDE DEF base, n, d
  <1>8. client'[c] = d /\ \A b \in Clients : b # c => client'[b] = client[b]
    BY <1>1, <1>5
  <1>9. SessionTypeOK'
    <2>1. conn' \in Seq(ConnState)
      BY <1>3, <1>4, <1>5, AppendProperties
    <2> QED BY <1>1, <1>2, <1>5, <1>7, <2>1 DEF SessionTypeOK
  <1>10. ASSUME NEW b \in Clients
         PROVE  LET e == client'[b] IN
                /\ e.conn # 0 => Own(e.conn) \/ (e.conn = Len(conn) + 1 /\ Hello(k) = Hello(e.conn))
                /\ e.built => Own(e.told)
                /\ Grants(e.session, e.epoch, e.told)
                /\ e.waits # "no" => e.conn # 0
    <2>1. CASE b = c
      BY <1>1, <1>7, <1>8, <2>1, ClientFacts DEF k
    <2>2. CASE b # c
      BY <1>8, <2>2, ClientFacts
    <2> QED BY <2>1, <2>2
  <1>11. PICK f : f = Hello(k)
    OBVIOUS
  <1> QED BY <1>2, <1>3, <1>4, <1>5, <1>9, <1>10, <1>11, MadeKeeps

\* send_response and send_control add at most the answer.
LEMMA AnswersFacts ==
  ASSUME NEW s \in ConnState, NEW r \in AnyAnswer
  PROVE  LET t == Answers(s, r) IN
         /\ t \in ConnState /\ t.server = s.server /\ t.id = s.id /\ t.in = s.in
         /\ t.client = s.client /\ t.last_seq = s.last_seq /\ t.handshaken = s.handshaken
         /\ \A i \in DOMAIN t.out : t.out[i] = r \/ \E h \in DOMAIN s.out : t.out[i] = s.out[h]
  <1> DEFINE a == [s EXCEPT !.out = Append(@, r)]
  <1>1. s.out \in Seq(AnyAnswer)
    BY DEF ConnState
  <1>2. Append(s.out, r) \in Seq(AnyAnswer)
    BY <1>1, AppendProperties
  <1>3. \A i \in DOMAIN Append(s.out, r) :
           Append(s.out, r)[i] = r \/ \E h \in DOMAIN s.out : Append(s.out, r)[i] = s.out[h]
    <2> TAKE i \in DOMAIN Append(s.out, r)
    <2>1. Len(s.out) \in Nat /\ DOMAIN s.out = 1..Len(s.out) /\ i \in 1..(Len(s.out) + 1)
      BY <1>1, AppendProperties, LenProperties
    <2>2. CASE i = Len(s.out) + 1
      BY <1>1, <2>2, AppendProperties
    <2>3. CASE i \in 1..Len(s.out)
      BY <1>1, <2>1, <2>3, AppendProperties
    <2> QED BY <2>1, <2>2, <2>3
  <1>4. /\ a \in ConnState /\ a.server = s.server /\ a.id = s.id /\ a.in = s.in
        /\ a.client = s.client /\ a.last_seq = s.last_seq /\ a.handshaken = s.handshaken
        /\ a.out = Append(s.out, r)
    BY <1>2 DEF ConnState
  <1>5. Answers(s, r) = IF s.writable THEN a ELSE s
    BY DEF Answers
  <1> HIDE DEF a
  <1> QED BY <1>3, <1>4, <1>5

\* The reply to a frame that changes nothing else, and shuts the socket down or not.
LEMMA RefusedFacts ==
  ASSUME NEW s \in ConnState, NEW f \in AnyFrame, NEW t, t \in {Refused(s, f), ShutDown(Refused(s, f))}
  PROVE  /\ t \in ConnState /\ t.server = s.server /\ t.id = s.id /\ t.in = s.in
         /\ t.client = s.client /\ t.last_seq = s.last_seq /\ t.handshaken = s.handshaken
         /\ \A i \in DOMAIN t.out :
               t.out[i].type = "Response" \/ \E h \in DOMAIN s.out : t.out[i] = s.out[h]
  <1> DEFINE u == Refused(s, f)
  <1>1. Response(f) \in AnyAnswer /\ Response(f).type = "Response"
    BY DEF Response, AnyAnswer
  <1>2. /\ u \in ConnState /\ u.server = s.server /\ u.id = s.id /\ u.in = s.in
        /\ u.client = s.client /\ u.last_seq = s.last_seq /\ u.handshaken = s.handshaken
        /\ \A i \in DOMAIN u.out :
              u.out[i].type = "Response" \/ \E h \in DOMAIN s.out : u.out[i] = s.out[h]
    <2>1. PICK r \in AnyAnswer : r = Response(f)
      BY <1>1
    <2>2. u = Answers(s, r) /\ r.type = "Response"
      BY <1>1, <2>1 DEF Refused
    <2> HIDE DEF u
    <2> QED BY <2>2, AnswersFacts
  <1> HIDE DEF u
  <1>3. LET v == ShutDown(u) IN
        /\ v \in ConnState /\ v.server = u.server /\ v.id = u.id /\ v.in = u.in /\ v.out = u.out
        /\ v.client = u.client /\ v.last_seq = u.last_seq /\ v.handshaken = u.handshaken
    BY <1>2 DEF ShutDown, ConnState
  <1>4. t = u \/ t = ShutDown(u)
    BY DEF u
  <1> QED BY <1>2, <1>3, <1>4

\* handle_frame, as far as the session is concerned: f leaves session t of s.
Handling(s, f, t) ==
    /\ t \in ConnState /\ t.server = s.server /\ t.id = s.id /\ t.in = s.in
    /\ \A i \in DOMAIN t.out :
          \/ t.out[i].type = "Response"
          \/ t.out[i] = HelloAck(s.id, epoch)
          \/ \E h \in DOMAIN s.out : t.out[i] = s.out[h]
    /\ Executes(s, f) =>
          /\ f.type = "Request" /\ s.handshaken /\ validate_envelope(s, f.envelope)
          /\ t.client = s.client /\ t.handshaken /\ t.last_seq = f.envelope.seq
    /\ ~Executes(s, f) =>
          \/ t.client = s.client /\ t.last_seq = s.last_seq /\ t.handshaken = s.handshaken
          \/ ~s.handshaken /\ t.handshaken /\ f.type = "Hello" /\ t.client = f.incarnation

\* handle_frame leaves such a session.
LEMMA HandledFacts ==
  ASSUME SessionTypeOK, NEW s \in ConnState, NEW f \in AnyFrame, NEW t, t = Handled(s, f)
  PROVE  Handling(s, f, t)
  <1>1. Response(f) \in AnyAnswer /\ Response(f).type = "Response"
    BY DEF Response, AnyAnswer
  <1>2. CASE t \in {Refused(s, f), ShutDown(Refused(s, f))} /\ ~Executes(s, f)
    BY <1>2, RefusedFacts DEF Handling
  <1>3. CASE f.type = "Hello" /\ ~s.handshaken
    <2> DEFINE u == [s EXCEPT !.client = f.incarnation, !.last_seq = 0, !.handshaken = TRUE]
    <2>1. f.incarnation \in Nat
      BY <1>3 DEF AnyFrame
    <2>2. /\ u \in ConnState /\ u.server = s.server /\ u.id = s.id /\ u.in = s.in /\ u.out = s.out
          /\ u.client = f.incarnation /\ u.handshaken
      BY <2>1 DEF ConnState
    <2>3. t = Answers(u, HelloAck(s.id, epoch))
      BY <1>3 DEF Handled
    <2>4. HelloAck(s.id, epoch) \in AnyAnswer
      BY DEF HelloAck, AnyAnswer, SessionTypeOK, ConnState
    <2>5. ~Executes(s, f)
      BY <1>3 DEF Executes
    <2>6. PICK r \in AnyAnswer : r = HelloAck(s.id, epoch)
      BY <2>4
    <2> HIDE DEF u
    <2> QED BY <1>3, <2>2, <2>3, <2>5, <2>6, AnswersFacts DEF Handling
  <1>4. CASE Executes(s, f)
    <2> DEFINE u == [s EXCEPT !.last_seq = f.envelope.seq]
    <2>1. f.type = "Request" /\ s.handshaken /\ validate_envelope(s, f.envelope)
      BY <1>4 DEF Executes
    <2>2. f.envelope.seq \in Nat
      BY <2>1 DEF AnyFrame, AnyEnvelope
    <2>3. /\ u \in ConnState /\ u.server = s.server /\ u.id = s.id /\ u.in = s.in /\ u.out = s.out
          /\ u.client = s.client /\ u.handshaken = s.handshaken /\ u.last_seq = f.envelope.seq
      BY <2>2 DEF ConnState
    <2>4. t = Answers(u, Response(f))
      BY <2>1 DEF Handled, Accepted
    <2>5. PICK r \in AnyAnswer : r = Response(f)
      BY <1>1
    <2> HIDE DEF u
    <2>6. t = Answers(u, r) /\ r.type = "Response"
      BY <1>1, <2>4, <2>5
    <2>7. /\ t \in ConnState /\ t.server = u.server /\ t.id = u.id /\ t.in = u.in
          /\ t.client = u.client /\ t.last_seq = u.last_seq /\ t.handshaken = u.handshaken
          /\ \A i \in DOMAIN t.out : t.out[i] = r \/ \E h \in DOMAIN u.out : t.out[i] = u.out[h]
      BY ONLY <2>3, <2>6, AnswersFacts
    <2> QED BY ONLY <1>4, <2>1, <2>3, <2>6, <2>7 DEF Handling
  <1>5. f.type \in {"Hello", "Request"}
    BY DEF AnyFrame
  <1>6. \/ t \in {Refused(s, f), ShutDown(Refused(s, f))} /\ ~Executes(s, f)
        \/ f.type = "Hello" /\ ~s.handshaken
        \/ Executes(s, f)
    BY <1>5 DEF Handled, Executes
  <1> QED BY <1>2, <1>3, <1>4, <1>6

\* One frame of an open session.  A request that passes validate_envelope names the
\* session by an id that within this epoch nobody else was told, so it was told
\* over this connection; the session's client is then the one that made the
\* connection; and the sequence is above all that ran here.
LEMMA HandleKeeps ==
  ASSUME SessionInv, NEW k \in DOMAIN conn, Handle(k) PROVE SessionInv'
  <1> DEFINE s == [conn[k] EXCEPT !.in = Tail(@)]
  <1>1. /\ SessionTypeOK /\ conn \in Seq(ConnState) /\ conn[k] \in ConnState /\ epoch \in Nat
        /\ conn[k].server = "serving" /\ conn[k].in # <<>> /\ conn[k].in \in Seq(AnyFrame)
        /\ k \in Nat
    <2>1. SessionTypeOK /\ conn[k] \in ConnState /\ k \in Nat
      BY ConnFacts DEF SessionInv
    <2> QED BY <2>1 DEF SessionTypeOK, Handle, ConnState
  <1>2. PICK f : f = Head(conn[k].in)
    OBVIOUS
  <1>3. /\ f \in AnyFrame /\ f = conn[k].in[1] /\ 1 \in DOMAIN conn[k].in
        /\ Tail(conn[k].in) \in Seq(AnyFrame)
        /\ \A i \in DOMAIN Tail(conn[k].in) :
              i + 1 \in DOMAIN conn[k].in /\ Tail(conn[k].in)[i] = conn[k].in[i + 1]
    <2>1. /\ DOMAIN conn[k].in = 1..Len(conn[k].in) /\ Len(conn[k].in) \in Nat /\ Len(conn[k].in) > 0
      BY <1>1, LenProperties, EmptySeq
    <2>2. 1 \in DOMAIN conn[k].in /\ f = conn[k].in[1] /\ f \in AnyFrame
      BY <1>1, <1>2, <2>1, ElementOfSeq
    <2>3. /\ Tail(conn[k].in) \in Seq(AnyFrame) /\ Len(Tail(conn[k].in)) = Len(conn[k].in) - 1
          /\ \A i \in 1..Len(Tail(conn[k].in)) : Tail(conn[k].in)[i] = conn[k].in[i + 1]
      BY <1>1, HeadTailProperties
    <2>4. DOMAIN Tail(conn[k].in) = 1..(Len(conn[k].in) - 1)
      BY <2>3, LenProperties
    <2> QED BY <2>1, <2>2, <2>3, <2>4
  <1>4. /\ s \in ConnState /\ s.server = "serving" /\ s.id = conn[k].id /\ s.in = Tail(conn[k].in)
        /\ s.out = conn[k].out /\ s.client = conn[k].client /\ s.last_seq = conn[k].last_seq
        /\ s.handshaken = conn[k].handshaken
    BY <1>1, <1>3 DEF ConnState
  <1>5. PICK t : t = Handled(s, f)
    OBVIOUS
  <1>6. /\ conn' = [conn EXCEPT ![k] = t]
        /\ executed' = IF Executes(s, f)
                       THEN Append(executed, [envelope |-> f.envelope, on |-> k]) ELSE executed
        /\ UNCHANGED <<epoch, up, nextId, client, seen, strays>>
    BY <1>2, <1>5 DEF Handle
  <1> HIDE DEF s
  <1>h. Handling(s, f, t)
    BY <1>1, <1>3, <1>4, <1>5, HandledFacts
  <1>7. /\ t \in ConnState /\ t.server = "serving" /\ t.id = conn[k].id /\ t.in = Tail(conn[k].in)
        /\ \A i \in DOMAIN t.out :
              \/ t.out[i].type = "Response"
              \/ t.out[i] = HelloAck(conn[k].id, epoch)
              \/ \E h \in DOMAIN conn[k].out : t.out[i] = conn[k].out[h]
    BY <1>4, <1>h DEF Handling
  <1>8. Executes(s, f) =>
          /\ f.type = "Request" /\ conn[k].handshaken /\ validate_envelope(s, f.envelope)
          /\ t.client = conn[k].client /\ t.handshaken /\ t.last_seq = f.envelope.seq
    BY <1>4, <1>h DEF Handling
  <1>9. ~Executes(s, f) =>
          \/ /\ t.client = conn[k].client /\ t.last_seq = conn[k].last_seq
             /\ t.handshaken = conn[k].handshaken
          \/ ~conn[k].handshaken /\ t.handshaken /\ f.type = "Hello" /\ t.client = f.incarnation
    BY <1>4, <1>h DEF Handling
  <1>10. /\ conn' \in Seq(ConnState) /\ Len(conn') = Len(conn) /\ DOMAIN conn' = DOMAIN conn
         /\ conn'[k] = t /\ \A j \in DOMAIN conn : j # k => conn'[j] = conn[j]
    BY <1>1, <1>6, <1>7, OneChanged
  <1>11. executed \in Seq([envelope: AnyEnvelope, on: Nat])
    BY <1>1 DEF SessionTypeOK
  <1>12. Executes(s, f) => [envelope |-> f.envelope, on |-> k] \in [envelope: AnyEnvelope, on: Nat]
    BY <1>1, <1>3, <1>8 DEF AnyFrame
  <1>13. SessionTypeOK'
    <2>1. executed' \in Seq([envelope: AnyEnvelope, on: Nat])
      BY <1>6, <1>11, <1>12, AppendProperties
    <2> QED BY <1>1, <1>6, <1>10, <2>1 DEF SessionTypeOK
  <1>14. \A i, e, j \in Nat : Grants(i, e, j) => Grants(i, e, j)'
    BY <1>1, <1>6, <1>7, <1>10 DEF Grants, Serving
  <1>15. ~conn[k].handshaken /\ Own(k) => f = Hello(k)
    BY <1>1, <1>3 DEF Own
  <1>16. \A j \in Nat : Own(j) => Own(j)'
    <2> SUFFICES ASSUME NEW j \in Nat, Own(j) PROVE Own(j)'
      OBVIOUS
    <2>1. CASE j # k
      BY <1>10, <2>1 DEF Own
    <2>2. CASE j = k
      <3>1. conn[k].handshaken => t.handshaken /\ t.client = conn[k].client
        BY <1>8, <1>9
      <3>2. ~conn[k].handshaken => t.handshaken /\ t.client = k
        <4> SUFFICES ASSUME ~conn[k].handshaken PROVE t.handshaken /\ t.client = k
          OBVIOUS
        <4>1. f = Hello(k)
          BY <1>15, <2>2
        <4>2. f.type = "Hello" /\ f.incarnation = k
          BY <4>1 DEF Hello
        <4>3. t = Answers([s EXCEPT !.client = f.incarnation, !.last_seq = 0, !.handshaken = TRUE],
                          HelloAck(s.id, epoch))
          BY <1>4, <1>5, <4>2 DEF Handled
        <4> DEFINE u == [s EXCEPT !.client = f.incarnation, !.last_seq = 0, !.handshaken = TRUE]
        <4>4. u \in ConnState /\ u.client = k /\ u.handshaken
          BY <1>1, <1>4, <4>2 DEF ConnState
        <4>5. PICK r \in AnyAnswer : r = HelloAck(s.id, epoch)
          BY <1>1, <1>4 DEF HelloAck, AnyAnswer, ConnState
        <4>6. t = Answers(u, r)
          BY <4>3, <4>5
        <4> HIDE DEF u
        <4> QED BY <4>4, <4>6, AnswersFacts
      <3>3. t.handshaken /\ t.client = k
        BY <2>2, <3>1, <3>2 DEF Own
      <3> QED BY <1>10, <2>2, <3>3 DEF Own
    <2> QED BY <2>1, <2>2
  <1>17. Ids'
    BY <1>6, <1>7, <1>10, <1>1 DEF SessionInv, Ids, Serving
  <1>18. Claimed'
    <2>1. \A c \in Clients :
             LET d == client'[c] IN
             /\ (client[c].conn # 0 => Own(client[c].conn))'
             /\ d.built => Own(d.told)
             /\ Grants(d.session, d.epoch, d.told)
             /\ d.waits # "no" => d.conn # 0
      <3> TAKE c \in Clients
      <3>1. (client[c].conn # 0 => Own(client[c].conn))'
        <4>1. PICK n : n = client'[c].conn
          OBVIOUS
        <4>2. n \in Nat /\ (n # 0 => Own(n))
          BY <1>6, <4>1, ClientFacts DEF ClientState
        <4> QED BY <1>16, <4>1, <4>2 DEF Own
      <3> QED BY <1>6, <3>1, ClientFacts
    <2>2. \A g \in seen' : Claims(g)
      BY <1>6 DEF SessionInv, Claimed
    <2>3. ASSUME NEW j \in DOMAIN conn', NEW i \in DOMAIN conn'[j].in PROVE Claims(conn'[j].in[i])
      <3>1. CASE j = k
        <4>1. i \in DOMAIN Tail(conn[k].in) /\ conn'[j].in[i] = Tail(conn[k].in)[i]
          BY <1>7, <1>10, <3>1, <2>3
        <4> QED BY <1>3, <4>1 DEF SessionInv, Claimed
      <3>2. CASE j # k
        BY <1>10, <3>2 DEF SessionInv, Claimed
      <3> QED BY <3>1, <3>2
    <2>4. Grants(conn[k].id, epoch, k)
      BY <1>1 DEF SessionInv, Ids, Grants, Serving
    <2>5. ASSUME NEW j \in DOMAIN conn', NEW i \in DOMAIN conn'[j].out,
                 conn'[j].out[i].type = "HelloAck"
          PROVE  Grants(conn'[j].out[i].session, conn'[j].out[i].epoch, j)
      <3>1. CASE j # k
        BY <1>10, <2>5, <3>1 DEF SessionInv, Claimed
      <3>2. CASE j = k
        <4>1. i \in DOMAIN t.out /\ t.out[i].type = "HelloAck"
          BY <1>10, <2>5, <3>2
        <4>2. CASE t.out[i] = HelloAck(conn[k].id, epoch)
          BY <1>10, <2>4, <3>2, <4>2 DEF HelloAck
        <4>3. CASE \E h \in DOMAIN conn[k].out : t.out[i] = conn[k].out[h]
          BY <1>10, <3>2, <4>1, <4>3 DEF SessionInv, Claimed
        <4> QED BY <1>7, <4>1, <4>2, <4>3
      <3> QED BY <3>1, <3>2
    <2> QED BY <1>1, <1>13, <1>14, <1>16, <2>1, <2>2, <2>3, <2>5, ClaimedKept
  <1>19. CASE ~Executes(s, f)
    <2>1. executed' = executed
      BY <1>6, <1>19
    <2>2. conn[k].handshaken => t.handshaken /\ t.last_seq = conn[k].last_seq
      BY <1>9, <1>19
    <2>3. Remembered'
      BY <1>10, <2>1, <2>2 DEF SessionInv, Remembered
    <2>4. RunsWhereMade' /\ RunsOnce'
      BY <2>1 DEF SessionInv, RunsWhereMade, RunsOnce
    <2> QED BY <1>13, <1>17, <1>18, <2>3, <2>4 DEF SessionInv
  <1>20. CASE Executes(s, f)
    <2> DEFINE e == f.envelope
               m == Len(executed) + 1
    <2>1. e \in AnyEnvelope /\ f.type = "Request"
      BY <1>3, <1>8, <1>20 DEF AnyFrame
    <2>2. e.session = conn[k].id /\ e.incarnation = conn[k].client /\ e.epoch = epoch
          /\ conn[k].last_seq < e.seq
      BY <1>4, <1>8, <1>20 DEF validate_envelope
    <2>3. Own(e.told) /\ Grants(e.session, e.epoch, e.told)
      BY <1>3, <2>1 DEF SessionInv, Claimed, Claims
    <2>4. e.told = k
      BY <1>1, <2>2, <2>3 DEF Grants, Serving
    <2>5. e.incarnation = k
      BY <1>8, <1>20, <2>2, <2>3, <2>4 DEF Own
    <2>6. /\ DOMAIN executed = 1..Len(executed) /\ Len(executed) \in Nat
          /\ DOMAIN executed' = 1..m /\ executed'[m] = [envelope |-> e, on |-> k]
          /\ \A i \in 1..Len(executed) : executed'[i] = executed[i]
      BY <1>6, <1>11, <1>12, <1>20, AppendProperties, LenProperties
    <2>7. \A i \in DOMAIN executed' : i = m \/ i \in DOMAIN executed
      BY <2>6
    <2>8. executed'[m].envelope = e /\ executed'[m].on = k
      BY <2>6
    <2>9. \A i \in DOMAIN executed : executed[i] \in [envelope: AnyEnvelope, on: Nat]
      BY <1>11, <2>6, ElementOfSeq
    <2>10. RunsWhereMade'
      BY <2>4, <2>5, <2>6, <2>7, <2>8 DEF SessionInv, RunsWhereMade
    <2>11. Remembered'
      <3> SUFFICES ASSUME NEW i \in DOMAIN executed'
                   PROVE  LET j == executed'[i].on IN
                          /\ j \in DOMAIN conn' /\ conn'[j].handshaken
                          /\ executed'[i].envelope.seq <= conn'[j].last_seq
        BY DEF Remembered
      <3>1. CASE i = m
        BY <1>8, <1>10, <1>20, <2>1, <2>8, <3>1 DEF AnyEnvelope
      <3>2. CASE i \in DOMAIN executed
        <4>1. /\ executed'[i] = executed[i] /\ executed[i].on \in DOMAIN conn
              /\ conn[executed[i].on].handshaken
              /\ executed[i].envelope.seq <= conn[executed[i].on].last_seq
              /\ executed[i].envelope.seq \in Nat
          BY <2>6, <2>9, <3>2 DEF SessionInv, Remembered, AnyEnvelope
        <4>2. CASE executed[i].on # k
          BY <1>10, <4>1, <4>2
        <4>3. CASE executed[i].on = k
          <5>1. conn[k].last_seq \in Nat /\ e.seq \in Nat
            BY <1>1, <2>1 DEF ConnState, AnyEnvelope
          <5>2. t.handshaken /\ t.last_seq = e.seq
            BY <1>8, <1>20
          <5> QED BY <1>10, <2>2, <4>1, <4>3, <5>1, <5>2
        <4> QED BY <4>2, <4>3
      <3> QED BY <2>7, <3>1, <3>2
    <2>12. ASSUME NEW i \in DOMAIN executed PROVE executed[i].envelope # e
      <3> SUFFICES ASSUME executed[i].envelope = e PROVE FALSE
        OBVIOUS
      <3>1. executed[i].on = k
        BY <2>4 DEF SessionInv, RunsWhereMade
      <3>2. e.seq <= conn[k].last_seq
        BY <3>1 DEF SessionInv, Remembered
      <3>3. conn[k].last_seq \in Nat /\ e.seq \in Nat
        BY <1>1, <2>1 DEF ConnState, AnyEnvelope
      <3> QED BY <2>2, <3>2, <3>3
    <2>13. RunsOnce'
      <3> SUFFICES ASSUME NEW i \in DOMAIN executed', NEW j \in DOMAIN executed',
                          executed'[i].envelope = executed'[j].envelope
                   PROVE  i = j
        BY DEF RunsOnce
      <3> HIDE DEF e, m
      <3>1. CASE i \in DOMAIN executed /\ j \in DOMAIN executed
        BY <2>6, <3>1 DEF SessionInv, RunsOnce
      <3>2. CASE i = m \/ j = m
        BY <2>6, <2>7, <2>8, <2>12, <3>2
      <3> QED BY <2>7, <3>1, <3>2
    <2> QED BY <1>13, <1>17, <1>18, <2>10, <2>11, <2>13 DEF SessionInv
  <1> QED BY <1>19, <1>20

--------------------------------------------------------------------------------
(* Where and how often a request runs *)

\* Nothing is connected at first.
LEMMA InvInit == Init => SessionInv
  <1> SUFFICES ASSUME Init PROVE SessionInv
    OBVIOUS
  <1> USE DEF Init
  <1>1. <<>> \in Seq(ConnState) /\ <<>> \in Seq([envelope: AnyEnvelope, on: Nat])
    OBVIOUS
  <1>2. NoAnswer \in AnyFrame \cup {NoAnswer}
    OBVIOUS
  <1>3. Unconnected \in ClientState
    BY <1>2 DEF Unconnected, ClientState
  <1>4. SessionTypeOK
    BY <1>1, <1>3 DEF SessionTypeOK
  <1>5. Ids /\ Remembered /\ RunsWhereMade /\ RunsOnce
    BY DEF Ids, Remembered, RunsWhereMade, RunsOnce
  <1>6. \A c \in Clients : client[c] = Unconnected
    OBVIOUS
  <1>7. Claimed
    BY <1>4, <1>6, UnconnectedFacts DEF Claimed, Idle
  <1> QED BY <1>4, <1>5, <1>7 DEF SessionInv

\* Every action keeps the invariant.
LEMMA InvNext == SessionInv /\ [Next]_vars => SessionInv'
  <1> SUFFICES ASSUME SessionInv, [Next]_vars PROVE SessionInv'
    OBVIOUS
  <1>1. ASSUME NEW k \in DOMAIN conn, Accept(k) PROVE SessionInv'
    BY <1>1, OpenKeeps, EndsKeep DEF Accept
  <1>2. ASSUME NEW k \in DOMAIN conn, Handle(k) PROVE SessionInv'
    BY <1>2, HandleKeeps
  <1>3. ASSUME NEW k \in DOMAIN conn, Leave(k) PROVE SessionInv'
    BY <1>3, EndsKeep DEF Leave
  <1>4. ASSUME NEW c \in Clients,
               \/ Connect(c) \/ RefreshFails(c) \/ Call(c)
               \/ Receive(c) \/ ReceiveClosed(c) \/ ReceiveFails(c)
               \/ CloseClient(c)
        PROVE  SessionInv'
    BY <1>4, ConnectKeeps, HangUpKeeps, CallKeeps, ReceiveKeeps, ReceiveNothingKeeps
  <1>5. ASSUME NEW f \in seen, Stranger(f) PROVE SessionInv'
    BY <1>5, StrangerKeeps
  <1>6. ASSUME NEW f \in seen, NEW k \in DOMAIN conn, Stray(k, f) PROVE SessionInv'
    BY <1>6, StrayKeeps
  <1>7. CASE AcceptEnds \/ UNCHANGED vars
    <2>1. SessionTypeOK'
      BY <1>7 DEF AcceptEnds, vars, SessionInv, SessionTypeOK
    <2>2. \A j \in DOMAIN conn : Quiet(conn[j], conn'[j])
      BY <1>7, SameQuiet DEF AcceptEnds, vars
    <2>3. \A c \in Clients :
             LET d == client'[c] IN
             /\ d.conn # 0 => Own(d.conn)
             /\ d.built => Own(d.told)
             /\ Grants(d.session, d.epoch, d.told)
             /\ d.waits # "no" => d.conn # 0
      BY <1>7, ClientFacts DEF AcceptEnds, vars
    <2> QED BY <1>7, <2>1, <2>2, <2>3, QuietKeeps DEF AcceptEnds, vars
  <1> QED BY <1>1, <1>2, <1>3, <1>4, <1>5, <1>6, <1>7, CrashKeeps, RestartKeeps DEF Next

\* The invariant holds throughout.
LEMMA InvHolds == Spec => []SessionInv
  BY InvInit, InvNext, PTL DEF Spec

\* RunsWhereMade, for any number of clients, boots and misdirected frames: a request
\* runs only on the connection its client made for it, with the session and the
\* epoch that were told over that connection.
THEOREM RunsWhereMadeHolds == Spec => []RunsWhereMade
  <1>1. SessionInv => RunsWhereMade
    BY DEF SessionInv
  <1> QED BY InvHolds, <1>1, PTL

\* RunsOnce, likewise: no request runs twice, however often it is repeated and
\* however often the coordinator starts again.
THEOREM RunsOnceHolds == Spec => []RunsOnce
  <1>1. SessionInv => RunsOnce
    BY DEF SessionInv
  <1> QED BY InvHolds, <1>1, PTL

--------------------------------------------------------------------------------
(* What an answer rests on *)

\* What a client in state d has asked last.
Asked(d) ==
    Request([session |-> d.session, epoch |-> d.epoch, seq |-> d.seq,
             incarnation |-> d.incarnation, told |-> d.told])
Question(d) == IF d.waits = "HelloAck" THEN Hello(d.conn) ELSE Asked(d)

\* On a connection s that nobody else writes to, and that no call of its client d
\* was given up on, there is at most one frame on its way: the question or its
\* answer.
Exchange(d, s) ==
    ~d.behind /\ ~s.mixed =>
        /\ d.waits = "no" => s.in = <<>> /\ s.out = <<>>
        /\ d.waits # "no" =>
              \/ s.in = <<Question(d)>> /\ s.out = <<>>
              \/ s.in = <<>> /\ s.out = <<>>
              \/ /\ s.in = <<>> /\ Len(s.out) = 1 /\ s.out[1].type = d.waits
                 /\ d.waits = "Response" => s.out[1].to = Question(d)
        /\ d.waits = "HelloAck" /\ s.in # <<>> => ~s.handshaken
        /\ d.answer # NoAnswer => d.answer = Asked(d)

Separate ==
    /\ \A b, c \in Clients : client[b].conn = client[c].conn /\ client[b].conn # 0 => b = c
    /\ \A c \in Clients : client[c].answer # NoAnswer => Idle(c) /\ client[c].conn # 0

AnswerInv ==
    /\ \A c \in Clients : client[c].conn # 0 => Exchange(client[c], conn[client[c].conn])
    /\ Separate

\* The socket is closed at the server's end.
LEMMA ClosedExchange ==
  ASSUME NEW d, NEW s \in ConnState, Exchange(d, s) PROVE Exchange(d, Closed(s))
  <1>1. /\ Closed(s).in = <<>> /\ Closed(s).out = s.out /\ Closed(s).mixed = s.mixed
    BY DEF Closed, ConnState
  <1> QED BY <1>1 DEF Exchange

\* send_response and send_control, on a connection with nothing on its way.
LEMMA AnswersOut ==
  ASSUME NEW s \in ConnState, NEW r \in AnyAnswer, s.out = <<>>
  PROVE  LET t == Answers(s, r) IN
         /\ t.in = s.in /\ t.mixed = s.mixed
         /\ t.out = <<>> \/ (Len(t.out) = 1 /\ t.out[1] = r)
  <1> DEFINE a == [s EXCEPT !.out = Append(@, r)]
  <1>1. a.in = s.in /\ a.mixed = s.mixed /\ a.out = Append(<<>>, r)
    BY DEF ConnState
  <1>2. Len(Append(<<>>, r)) = 1 /\ Append(<<>>, r)[1] = r
    <2>1. <<>> \in Seq(AnyAnswer) /\ Len(<<>>) = 0
      OBVIOUS
    <2> QED BY <2>1, AppendProperties
  <1>3. Answers(s, r) = IF s.writable THEN a ELSE s
    BY DEF Answers
  <1> HIDE DEF a
  <1> QED BY <1>1, <1>2, <1>3

\* handle_frame puts the one answer in the place of the question.
LEMMA HandledExchange ==
  ASSUME SessionTypeOK, NEW d \in ClientState, NEW z \in ConnState, Exchange(d, z), z.in # <<>>,
         NEW s, s = [z EXCEPT !.in = Tail(@)], NEW f, f = Head(z.in), f \in AnyFrame,
         Tail(z.in) \in Seq(AnyFrame)
  PROVE  Exchange(d, Handled(s, f))
  <1>1. /\ s \in ConnState /\ s.in = Tail(z.in) /\ s.out = z.out /\ s.mixed = z.mixed
        /\ s.handshaken = z.handshaken /\ s.id = z.id
    BY DEF ConnState
  <1>2. Handled(s, f).mixed = z.mixed
    <2>1. \A u \in ConnState : \A r : Answers(u, r).mixed = u.mixed
      BY DEF Answers, ConnState
    <2>2. PICK u : u = [s EXCEPT !.client = f.incarnation, !.last_seq = 0, !.handshaken = TRUE]
      OBVIOUS
    <2>3. PICK v : v = [s EXCEPT !.last_seq = f.envelope.seq]
      OBVIOUS
    <2>4. \A r : Answers(u, r).mixed = z.mixed /\ Answers(v, r).mixed = z.mixed
                 /\ Answers(s, r).mixed = z.mixed
      BY <1>1, <2>2, <2>3 DEF Answers, ConnState
    <2>5. ShutDown(Refused(s, f)).mixed = z.mixed /\ Refused(s, f).mixed = z.mixed
      <3>1. Refused(s, f) \in ConnState
        BY <1>1, RefusedFacts
      <3>2. Refused(s, f).mixed = z.mixed
        BY <2>4 DEF Refused
      <3> QED BY <3>1, <3>2 DEF ShutDown, ConnState
    <2> QED BY <2>2, <2>3, <2>4, <2>5 DEF Handled, Accepted
  <1> SUFFICES ASSUME ~d.behind, ~z.mixed PROVE Exchange(d, Handled(s, f))
    BY <1>2 DEF Exchange
  <1>3. /\ d.waits \in {"HelloAck", "Response"} /\ z.in = <<Question(d)>> /\ z.out = <<>>
        /\ d.waits = "HelloAck" => ~z.handshaken
        /\ d.answer # NoAnswer => d.answer = Asked(d)
    BY DEF Exchange, ClientState
  <1>4. f = Question(d) /\ Tail(z.in) = <<>>
    BY <1>3
  <1>5. CASE d.waits = "HelloAck"
    <2>1. f.type = "Hello" /\ ~s.handshaken
      BY <1>1, <1>3, <1>4, <1>5 DEF Question, Hello
    <2> DEFINE u == [s EXCEPT !.client = f.incarnation, !.last_seq = 0, !.handshaken = TRUE]
    <2>2. PICK r \in AnyAnswer : r = HelloAck(s.id, epoch)
      BY <1>1 DEF HelloAck, AnyAnswer, ConnState, SessionTypeOK
    <2>3. Handled(s, f) = Answers(u, r) /\ r.type = "HelloAck"
      BY <2>1, <2>2 DEF Handled, HelloAck
    <2>4. u \in ConnState /\ u.in = <<>> /\ u.out = <<>>
      BY <1>1, <1>3, <1>4, <2>1 DEF ConnState, AnyFrame
    <2> HIDE DEF u
    <2>5. PICK t : t = Handled(s, f)
      OBVIOUS
    <2>6. t.in = <<>> /\ (t.out = <<>> \/ (Len(t.out) = 1 /\ t.out[1] = r))
      BY <2>3, <2>4, <2>5, AnswersOut
    <2>7. Exchange(d, t)
      BY <1>3, <1>5, <2>3, <2>6 DEF Exchange
    <2> QED BY <2>5, <2>7
  <1>6. CASE d.waits = "Response"
    <2>1. f.type = "Request" /\ f = Asked(d)
      BY <1>4, <1>6 DEF Question, Asked, Request
    <2>2. PICK r \in AnyAnswer : r = Response(f)
      BY DEF Response, AnyAnswer
    <2>3. r.type = "Response" /\ r.to = f
      BY <2>2 DEF Response
    <2>4. PICK t : t = Handled(s, f)
      OBVIOUS
    <2>5. t.in = <<>> /\ (t.out = <<>> \/ (Len(t.out) = 1 /\ t.out[1] = r))
      <3> DEFINE v == [s EXCEPT !.last_seq = f.envelope.seq]
      <3>1. v \in ConnState /\ v.in = <<>> /\ v.out = <<>>
        BY <1>1, <1>3, <1>4, <2>1 DEF ConnState, AnyFrame, AnyEnvelope
      <3>2. s.in = <<>> /\ s.out = <<>>
        BY <1>1, <1>3, <1>4
      <3>3. PICK w : w = Answers(s, r)
        OBVIOUS
      <3>4. w \in ConnState /\ w.in = <<>> /\ (w.out = <<>> \/ (Len(w.out) = 1 /\ w.out[1] = r))
        BY <1>1, <3>2, <3>3, AnswersOut, AnswersFacts
      <3>5. ShutDown(w).in = w.in /\ ShutDown(w).out = w.out
        BY <3>4 DEF ShutDown, ConnState
      <3>6. t = w \/ t = ShutDown(w) \/ t = Answers(v, r)
        BY <2>1, <2>2, <2>4, <3>3 DEF Handled, Refused, Accepted
      <3> HIDE DEF v
      <3> QED BY <3>1, <3>4, <3>5, <3>6, AnswersOut
    <2>6. Exchange(d, t)
      BY <1>3, <1>4, <1>6, <2>3, <2>5 DEF Exchange
    <2> QED BY <2>4, <2>6
  <1> QED BY <1>3, <1>5, <1>6

\* Steps of the server and of other peers: every connection keeps what it has on
\* its way.
LEMMA ServerAnswers ==
  ASSUME SessionInv, AnswerInv, client' = client,
         \A j \in DOMAIN conn : \A d \in ClientState : Exchange(d, conn[j]) => Exchange(d, conn'[j])
  PROVE  AnswerInv'
  <1>1. Separate'
    BY DEF AnswerInv, Separate, Idle
  <1>2. ASSUME NEW c \in Clients, client[c].conn # 0 PROVE Exchange(client[c], conn'[client[c].conn])
    BY <1>2, ClientFacts DEF AnswerInv
  <1>3. \A c \in Clients : (client[c].conn # 0 => Exchange(client[c], conn[client[c].conn]))'
    BY <1>2 DEF Exchange, Question, Asked
  <1> QED BY <1>1, <1>3 DEF AnswerInv

\* A step of client c, to state d: the connections that are not its own stay as
\* they are.
LEMMA ClientAnswers ==
  ASSUME SessionInv, AnswerInv, NEW c \in Clients, NEW d \in ClientState,
         client' = [client EXCEPT ![c] = d],
         d.conn \in {0, client[c].conn, Len(conn) + 1},
         d.answer # NoAnswer => d.waits = "no" /\ d.conn # 0,
         d.conn # 0 => Exchange(d, conn'[d.conn]),
         \A j \in DOMAIN conn : j # client[c].conn => conn'[j] = conn[j]
  PROVE  AnswerInv'
  <1>1. client \in [Clients -> ClientState] /\ Len(conn) \in Nat /\ Len(conn) + 1 \notin DOMAIN conn
    BY ConnFacts DEF SessionInv, SessionTypeOK
  <1>2. client'[c] = d /\ \A b \in Clients : b # c => client'[b] = client[b]
    BY <1>1
  <1>3. \A b \in Clients : b # c /\ client[b].conn # 0 =>
            client[b].conn \in DOMAIN conn /\ client[b].conn # client[c].conn
    BY ClientFacts DEF AnswerInv, Separate
  <1>4. Separate'
    <2>1. \A b \in Clients : b # c => client'[b].conn = 0 \/ client'[b].conn # d.conn
      BY <1>1, <1>2, <1>3
    <2>2. \A a, b \in Clients : client'[a].conn = client'[b].conn /\ client'[a].conn # 0 => a = b
      BY <1>2, <2>1 DEF AnswerInv, Separate
    <2>3. \A b \in Clients : client'[b].answer # NoAnswer => Idle(b)' /\ client'[b].conn # 0
      BY <1>2 DEF AnswerInv, Separate, Idle
    <2> QED BY <2>2, <2>3 DEF Separate
  <1>5. ASSUME NEW b \in Clients, client'[b].conn # 0 PROVE Exchange(client[b], conn[client[b].conn])'
    <2>1. PICK e : e = client'[b]
      OBVIOUS
    <2>2. PICK s : s = conn'[e.conn]
      OBVIOUS
    <2>3. Exchange(e, s)
      <3>1. CASE b = c
        BY <1>2, <1>5, <2>1, <2>2, <3>1
      <3>2. CASE b # c
        BY <1>2, <1>3, <1>5, <2>1, <2>2, <3>2 DEF AnswerInv
      <3> QED BY <3>1, <3>2
    <2> QED BY <2>1, <2>2, <2>3 DEF Exchange, Question, Asked
  <1> QED BY <1>4, <1>5 DEF AnswerInv

\* What an exchange depends on.
LEMMA SameExchange ==
  ASSUME NEW d, NEW s, NEW t, Exchange(d, s),
         t.in = s.in, t.out = s.out, t.mixed = s.mixed, t.handshaken = s.handshaken
  PROVE  Exchange(d, t)
  BY DEF Exchange

\* The accept loop.
LEMMA AcceptAnswers ==
  ASSUME SessionInv, AnswerInv, NEW k \in DOMAIN conn, Accept(k) PROVE AnswerInv'
  <1>1. conn[k] \in ConnState /\ conn \in Seq(ConnState) /\ client' = client
    BY ConnFacts DEF SessionInv, SessionTypeOK, Accept
  <1>2. CASE conn' = [conn EXCEPT ![k] = Closed(@)]
    <2>1. ASSUME NEW j \in DOMAIN conn, NEW d \in ClientState, Exchange(d, conn[j])
          PROVE  Exchange(d, conn'[j])
      BY <1>1, <1>2, <2>1, ClosedExchange
    <2> QED BY <1>1, <2>1, ServerAnswers
  <1>3. CASE conn' = [conn EXCEPT ![k].server = "serving", ![k].id = nextId]
    <2>1. LET t == conn'[k] IN
          /\ t.in = conn[k].in /\ t.out = conn[k].out /\ t.mixed = conn[k].mixed
          /\ t.handshaken = conn[k].handshaken
      BY <1>1, <1>3 DEF ConnState
    <2>2. \A j \in DOMAIN conn : j # k => conn'[j] = conn[j]
      BY <1>3
    <2>3. ASSUME NEW j \in DOMAIN conn, NEW d \in ClientState, Exchange(d, conn[j])
          PROVE  Exchange(d, conn'[j])
      BY <2>1, <2>2, <2>3, SameExchange
    <2> QED BY <1>1, <2>3, ServerAnswers
  <1> QED BY <1>2, <1>3 DEF Accept

\* The end of a session, and of the coordinator.
LEMMA EndsAnswer ==
  ASSUME SessionInv, AnswerInv, Crash \/ \E k \in DOMAIN conn : Leave(k) PROVE AnswerInv'
  <1>1. conn \in Seq(ConnState) /\ client' = client
    BY DEF SessionInv, SessionTypeOK, Crash, Leave
  <1>2. \A j \in DOMAIN conn : conn[j] \in ConnState /\ (conn'[j] = conn[j] \/ conn'[j] = Closed(conn[j]))
    <2>1. \A j \in DOMAIN conn : conn[j] \in ConnState
      BY ConnFacts DEF SessionInv
    <2> QED BY <1>1, <2>1 DEF Crash, Leave
  <1>3. ASSUME NEW j \in DOMAIN conn, NEW d \in ClientState, Exchange(d, conn[j])
        PROVE  Exchange(d, conn'[j])
    BY <1>2, <1>3, ClosedExchange
  <1> QED BY <1>1, <1>3, ServerAnswers

\* A frame is handled.
LEMMA HandleAnswers ==
  ASSUME SessionInv, AnswerInv, NEW k \in DOMAIN conn, Handle(k) PROVE AnswerInv'
  <1>1. /\ SessionTypeOK /\ conn \in Seq(ConnState) /\ conn[k] \in ConnState /\ conn[k].in # <<>>
        /\ client' = client
    BY ConnFacts DEF SessionInv, SessionTypeOK, Handle
  <1>2. conn[k].in \in Seq(AnyFrame)
    BY <1>1 DEF ConnState
  <1>3. PICK f : f = Head(conn[k].in)
    OBVIOUS
  <1>4. PICK s : s = [conn[k] EXCEPT !.in = Tail(@)]
    OBVIOUS
  <1>5. f \in AnyFrame /\ Tail(conn[k].in) \in Seq(AnyFrame)
    BY <1>1, <1>2, <1>3, HeadTailProperties
  <1>6. conn'[k] = Handled(s, f) /\ \A j \in DOMAIN conn : j # k => conn'[j] = conn[j]
    BY <1>1, <1>3, <1>4 DEF Handle
  <1>7. ASSUME NEW j \in DOMAIN conn, NEW d \in ClientState, Exchange(d, conn[j])
        PROVE  Exchange(d, conn'[j])
    <2>1. CASE j = k
      BY <1>1, <1>3, <1>4, <1>5, <1>6, <1>7, <2>1, HandledExchange
    <2>2. CASE j # k
      BY <1>6, <1>7, <2>2
    <2> QED BY <2>1, <2>2
  <1> QED BY <1>1, <1>7, ServerAnswers

\* Somebody else writes: the connection is mixed from then on, or is not a client's.
LEMMA OthersAnswer ==
  ASSUME SessionInv, AnswerInv, NEW f \in seen,
         Stranger(f) \/ \E k \in DOMAIN conn : Stray(k, f)
  PROVE  AnswerInv'
  <1>1. conn \in Seq(ConnState) /\ client' = client
    BY DEF SessionInv, SessionTypeOK, Stranger, Stray
  <1>2. CASE Stranger(f)
    <2>1. \A j \in DOMAIN conn : conn'[j] = conn[j]
      <3>1. PICK n : conn' = Append(conn, n)
        BY <1>2 DEF Stranger
      <3> QED BY <1>1, <3>1, AppendProperties, LenProperties
    <2> QED BY <1>1, <2>1, ServerAnswers
  <1>3. ASSUME NEW k \in DOMAIN conn, Stray(k, f) PROVE AnswerInv'
    <2>1. conn[k] \in ConnState
      BY ConnFacts DEF SessionInv
    <2>2. conn'[k].mixed = TRUE /\ \A j \in DOMAIN conn : j # k => conn'[j] = conn[j]
      BY <1>1, <1>3, <2>1 DEF Stray, ConnState
    <2>3. ASSUME NEW j \in DOMAIN conn, NEW d \in ClientState, Exchange(d, conn[j])
          PROVE  Exchange(d, conn'[j])
      <3>1. CASE j = k
        BY <2>2, <3>1 DEF Exchange
      <3>2. CASE j # k
        BY <2>2, <2>3, <3>2
      <3> QED BY <3>1, <3>2
    <2> QED BY <1>1, <2>3, ServerAnswers
  <1> QED BY <1>2, <1>3

\* A handshake or a call that fails: an answer may still come, so the client is
\* behind, or the client is gone.
LEMMA FailsAnswers ==
  ASSUME SessionInv, AnswerInv, NEW c \in Clients, ~Idle(c), NEW after \in Seq(ConnState),
         Len(after) = Len(conn), \A j \in DOMAIN conn : j # client[c].conn => after[j] = conn[j],
         Fails(c, after)
  PROVE  AnswerInv'
  <1>1. /\ SessionTypeOK /\ client \in [Clients -> ClientState] /\ DOMAIN after = DOMAIN conn
        /\ client[c] \in ClientState /\ client[c].answer = NoAnswer
    BY LenProperties DEF SessionInv, SessionTypeOK, AnswerInv, Separate
  <1>2. CASE client[c].built
    <2> DEFINE d == [client[c] EXCEPT !.waits = "no", !.behind = TRUE]
    <2>1. client' = [client EXCEPT ![c] = d] /\ conn' = after
      BY <1>1, <1>2 DEF Fails
    <2>2. d \in ClientState /\ d.conn = client[c].conn /\ d.answer = NoAnswer /\ d.behind
      BY <1>1 DEF ClientState
    <2>3. Exchange(d, conn'[d.conn])
      BY <2>2 DEF Exchange
    <2> HIDE DEF d
    <2> QED BY <2>1, <2>2, <2>3, ClientAnswers
  <1>3. CASE ~client[c].built
    <2>1. client' = [client EXCEPT ![c] = Unconnected] /\ conn' = Hung(after, client[c].conn)
      BY <1>3 DEF Fails
    <2>2. \A j \in DOMAIN conn : j # client[c].conn => conn'[j] = conn[j]
      BY <1>1, <2>1, HungQuiet
    <2>3. Unconnected \in ClientState /\ Unconnected.conn = 0 /\ Unconnected.answer = NoAnswer
      BY <1>1, UnconnectedFacts DEF Unconnected
    <2> QED BY <2>1, <2>2, <2>3, ClientAnswers
  <1> QED BY <1>2, <1>3

\* close, and refresh_handshake while the coordinator is down.
LEMMA HangUpAnswers ==
  ASSUME SessionInv, AnswerInv, NEW c \in Clients, RefreshFails(c) \/ CloseClient(c)
  PROVE  AnswerInv'
  <1>1. /\ SessionTypeOK /\ conn \in Seq(ConnState) /\ client \in [Clients -> ClientState]
        /\ client[c] \in ClientState /\ conn' = Hung(conn, client[c].conn)
    BY DEF SessionInv, SessionTypeOK, RefreshFails, CloseClient
  <1>2. \A j \in DOMAIN conn : j # client[c].conn => conn'[j] = conn[j]
    BY <1>1, HungQuiet
  <1>3. CASE RefreshFails(c)
    <2> DEFINE d == [client[c] EXCEPT !.conn = 0, !.answer = NoAnswer]
    <2>1. client' = [client EXCEPT ![c] = d]
      BY <1>1, <1>3 DEF RefreshFails
    <2>2. d \in ClientState /\ d.conn = 0 /\ d.answer = NoAnswer
      <3>1. NoAnswer \in AnyFrame \cup {NoAnswer}
        OBVIOUS
      <3> QED BY <1>1, <3>1 DEF ClientState
    <2> HIDE DEF d
    <2> QED BY <1>2, <2>1, <2>2, ClientAnswers
  <1>4. CASE CloseClient(c)
    <2>1. Unconnected \in ClientState /\ Unconnected.conn = 0 /\ Unconnected.answer = NoAnswer
      BY <1>1, UnconnectedFacts DEF Unconnected
    <2> QED BY <1>2, <1>4, <2>1, ClientAnswers DEF CloseClient
  <1> QED BY <1>3, <1>4

\* connect: the Hello is the only frame of the new connection.
LEMMA ConnectAnswers ==
  ASSUME SessionInv, AnswerInv, NEW c \in Clients, Connect(c) PROVE AnswerInv'
  <1> DEFINE k == Len(conn) + 1
             base == Hung(conn, client[c].conn)
             n == NewConn(Hello(k))
             d == [client[c] EXCEPT !.conn = k, !.incarnation = k, !.waits = "HelloAck",
                                    !.behind = FALSE, !.answer = NoAnswer]
  <1>1. /\ SessionTypeOK /\ conn \in Seq(ConnState) /\ client \in [Clients -> ClientState]
        /\ client[c] \in ClientState /\ k \in Nat /\ k # 0
    BY LenProperties DEF SessionInv, SessionTypeOK
  <1>2. conn' = Append(base, n) /\ client' = [client EXCEPT ![c] = d]
    BY <1>1 DEF Connect
  <1>3. n.in = <<Hello(k)>> /\ n.out = <<>> /\ ~n.handshaken
    BY DEF NewConn
  <1>4. base \in Seq(ConnState) /\ Len(base) = Len(conn)
        /\ \A j \in DOMAIN conn : j # client[c].conn => base[j] = conn[j]
    BY <1>1, HungQuiet
  <1>5. NoAnswer \in AnyFrame \cup {NoAnswer}
    OBVIOUS
  <1> HIDE DEF k
  <1>6. d \in ClientState /\ d.conn = k /\ d.answer = NoAnswer /\ d.waits = "HelloAck"
    BY <1>1, <1>5 DEF ClientState
  <1> HIDE DEF base, n, d
  <1>7. /\ conn'[k] = n
        /\ \A j \in DOMAIN conn : j # client[c].conn => conn'[j] = conn[j]
    BY <1>1, <1>2, <1>4, AppendProperties, LenProperties DEF k
  <1>8. Question(d) = Hello(k)
    BY <1>6 DEF Question
  <1>9. Exchange(d, n)
    BY <1>3, <1>6, <1>8 DEF Exchange
  <1> QED BY <1>2, <1>6, <1>7, <1>9, ClientAnswers DEF k

\* call: the request is the only frame on its way.
LEMMA CallAnswers ==
  ASSUME SessionInv, AnswerInv, NEW c \in Clients, Call(c) PROVE AnswerInv'
  <1> DEFINE k == client[c].conn
             f == Request(Stamped(c))
             t == [conn[k] EXCEPT !.in = Append(@, f)]
             d == [client[c] EXCEPT !.seq = @ + 1, !.waits = "Response", !.answer = NoAnswer]
  <1>1. /\ SessionTypeOK /\ conn \in Seq(ConnState) /\ client \in [Clients -> ClientState]
        /\ client[c] \in ClientState /\ k # 0 /\ k \in DOMAIN conn /\ client[c].waits = "no"
    BY ClientFacts DEF SessionInv, SessionTypeOK, Call, Idle
  <1>2. conn[k] \in ConnState /\ Exchange(client[c], conn[k])
    BY <1>1, ConnFacts DEF AnswerInv
  <1>3. conn' = [conn EXCEPT ![k] = t] /\ client' = [client EXCEPT ![c] = d]
    BY <1>1 DEF Call
  <1>4. /\ d \in ClientState /\ d.conn = k /\ d.waits = "Response" /\ d.answer = NoAnswer
        /\ d.behind = client[c].behind /\ d.seq = client[c].seq + 1
        /\ d.session = client[c].session /\ d.epoch = client[c].epoch /\ d.told = client[c].told
        /\ d.incarnation = client[c].incarnation
    <2>1. client[c].seq + 1 \in Nat /\ NoAnswer \in AnyFrame \cup {NoAnswer}
      BY <1>1 DEF ClientState
    <2> QED BY <1>1, <2>1 DEF ClientState
  <1> HIDE DEF d
  <1>5. Question(d) = f
    <2>1. Stamped(c) = [session |-> d.session, epoch |-> d.epoch, seq |-> d.seq,
                        incarnation |-> d.incarnation, told |-> d.told]
      BY <1>4 DEF Stamped, Current
    <2> QED BY <1>4, <2>1 DEF Question, Asked
  <1> HIDE DEF f
  <1>6. /\ t.in = Append(conn[k].in, f) /\ t.out = conn[k].out /\ t.mixed = conn[k].mixed
    BY <1>2 DEF ConnState
  <1>7. conn'[k] = t /\ \A j \in DOMAIN conn : j # k => conn'[j] = conn[j]
    BY <1>1, <1>3
  <1> HIDE DEF t
  <1>8. Append(<<>>, f) = <<f>>
    OBVIOUS
  <1>9. Exchange(d, t)
    BY <1>1, <1>2, <1>4, <1>5, <1>6, <1>8 DEF Exchange
  <1> QED BY <1>3, <1>4, <1>7, <1>9, ClientAnswers

\* The receive loop: what is read is the answer, and it was the only one.
LEMMA ReceiveAnswers ==
  ASSUME SessionInv, AnswerInv, NEW c \in Clients, Receive(c) PROVE AnswerInv'
  <1> DEFINE k == client[c].conn
             r == Head(conn[k].out)
  <1>1. /\ SessionTypeOK /\ conn \in Seq(ConnState) /\ client \in [Clients -> ClientState]
        /\ client[c] \in ClientState /\ ~Idle(c) /\ client[c].waits # "no"
        /\ client[c].answer = NoAnswer
    BY DEF SessionInv, SessionTypeOK, Receive, AnswerInv, Separate, Idle
  <1>2. k \in DOMAIN conn /\ k # 0
    BY <1>1, ClientFacts
  <1>3. conn[k] \in ConnState /\ conn[k].out \in Seq(AnyAnswer) /\ conn[k].out # <<>>
    BY <1>1, <1>2, ConnFacts DEF Receive, ConnState
  <1>4. r = conn[k].out[1] /\ r \in AnyAnswer
    BY <1>3, LenProperties, EmptySeq, ElementOfSeq
  <1>5. r.type = "HelloAck" => r.session \in Nat /\ r.epoch \in Nat
    BY <1>4 DEF AnyAnswer
  <1>6. r.type = "Response" => r.to \in AnyFrame
    BY <1>4 DEF AnyAnswer
  <1>7. Exchange(client[c], conn[k])
    BY <1>2 DEF AnswerInv
  <1> HIDE DEF r
  <1>8. PICK n \in 1..Len(conn[k].out) :
          LET read == [conn EXCEPT ![k].out = SubSeq(@, n + 1, Len(@))] IN
          \/ /\ client[c].waits = "HelloAck" /\ r.type = "HelloAck"
             /\ client' = [client EXCEPT ![c].waits = "no", ![c].built = TRUE,
                  ![c].session = r.session, ![c].epoch = r.epoch, ![c].told = k, ![c].seq = 0]
             /\ conn' = read
          \/ /\ client[c].waits = "Response" /\ r.type = "Response"
             /\ client' = [client EXCEPT ![c].waits = "no", ![c].answer = r.to]
             /\ conn' = read
          \/ r.type # client[c].waits /\ Fails(c, read)
    BY DEF Receive, r
  <1> DEFINE t == [conn[k] EXCEPT !.out = SubSeq(@, n + 1, Len(@))]
             read == [conn EXCEPT ![k] = t]
  <1>9. read = [conn EXCEPT ![k].out = SubSeq(@, n + 1, Len(@))]
    BY <1>1, <1>2
  <1>10. /\ t \in ConnState /\ t.in = conn[k].in /\ t.mixed = conn[k].mixed
         /\ t.out = SubSeq(conn[k].out, n + 1, Len(conn[k].out))
    <2>1. t \in ConnState
      BY <1>3, ReadQuiet
    <2> QED BY <1>3, <2>1 DEF ConnState
  <1>11. Len(conn[k].out) = 1 => t.out = <<>>
    BY <1>3, <1>10
  <1> HIDE DEF t
  <1>12. /\ read \in Seq(ConnState) /\ Len(read) = Len(conn)
         /\ read[k] = t /\ \A j \in DOMAIN conn : j # k => read[j] = conn[j]
    BY <1>1, <1>2, <1>10, OneChanged
  <1> HIDE DEF read
  <1>13. ~client[c].behind /\ ~t.mixed =>
            /\ t.in = <<>> /\ t.out = <<>>
            /\ client[c].waits = "Response" => r.to = Asked(client[c])
    <2>1. ~client[c].behind /\ ~t.mixed =>
            /\ conn[k].in = <<>> /\ Len(conn[k].out) = 1
            /\ client[c].waits = "Response" => r.to = Question(client[c])
      BY <1>1, <1>3, <1>4, <1>7, <1>10 DEF Exchange
    <2> QED BY <1>10, <1>11, <2>1 DEF Question
  <1>14. CASE /\ client[c].waits = "HelloAck" /\ r.type = "HelloAck" /\ conn' = read
              /\ client' = [client EXCEPT ![c].waits = "no", ![c].built = TRUE,
                   ![c].session = r.session, ![c].epoch = r.epoch, ![c].told = k, ![c].seq = 0]
    <2> DEFINE d == [client[c] EXCEPT !.waits = "no", !.built = TRUE,
                       !.session = r.session, !.epoch = r.epoch, !.told = k, !.seq = 0]
    <2>1. client' = [client EXCEPT ![c] = d]
      BY <1>1, <1>14
    <2>2. k \in Nat
      BY <1>1 DEF ClientState
    <2>3. /\ d \in ClientState /\ d.conn = k /\ d.waits = "no" /\ d.answer = NoAnswer
          /\ d.behind = client[c].behind
      BY <1>1, <1>5, <1>14, <2>2 DEF ClientState
    <2> HIDE DEF d
    <2>4. Exchange(d, t)
      BY <1>13, <2>3 DEF Exchange
    <2> HIDE DEF k
    <2> QED BY <1>12, <1>14, <2>1, <2>3, <2>4, ClientAnswers DEF k
  <1>15. CASE /\ client[c].waits = "Response" /\ r.type = "Response" /\ conn' = read
              /\ client' = [client EXCEPT ![c].waits = "no", ![c].answer = r.to]
    <2> DEFINE d == [client[c] EXCEPT !.waits = "no", !.answer = r.to]
    <2>1. client' = [client EXCEPT ![c] = d]
      BY <1>1, <1>15
    <2>2. /\ d \in ClientState /\ d.conn = k /\ d.waits = "no" /\ d.answer = r.to
          /\ d.behind = client[c].behind /\ d.seq = client[c].seq
          /\ d.session = client[c].session /\ d.epoch = client[c].epoch /\ d.told = client[c].told
          /\ d.incarnation = client[c].incarnation
      BY <1>1, <1>6, <1>15 DEF ClientState
    <2> HIDE DEF d
    <2>3. Asked(d) = Asked(client[c])
      BY <2>2 DEF Asked
    <2>4. Exchange(d, t)
      BY <1>13, <1>15, <2>2, <2>3 DEF Exchange
    <2> QED BY <1>2, <1>12, <1>15, <2>1, <2>2, <2>4, ClientAnswers
  <1>16. CASE Fails(c, read)
    BY <1>1, <1>12, <1>16, FailsAnswers
  <1> QED BY <1>8, <1>9, <1>14, <1>15, <1>16

\* Every action keeps what an answer rests on.
LEMMA AnswerNext == SessionInv /\ AnswerInv /\ [Next]_vars => AnswerInv'
  <1> SUFFICES ASSUME SessionInv, AnswerInv, [Next]_vars PROVE AnswerInv'
    OBVIOUS
  <1>1. ASSUME NEW k \in DOMAIN conn, Accept(k) \/ Handle(k) \/ Leave(k) PROVE AnswerInv'
    BY <1>1, AcceptAnswers, HandleAnswers, EndsAnswer
  <1>2. CASE Crash
    BY <1>2, EndsAnswer
  <1>3. CASE AcceptEnds \/ Restart \/ UNCHANGED vars
    BY <1>3, ServerAnswers DEF AcceptEnds, Restart, vars
  <1>4. ASSUME NEW c \in Clients, ReceiveClosed(c) \/ ReceiveFails(c) PROVE AnswerInv'
    <2>1. ~Idle(c) /\ Fails(c, conn) /\ conn \in Seq(ConnState)
      BY <1>4 DEF ReceiveClosed, ReceiveFails, SessionInv, SessionTypeOK
    <2> QED BY <2>1, FailsAnswers
  <1>5. ASSUME NEW c \in Clients,
               Connect(c) \/ RefreshFails(c) \/ Call(c) \/ Receive(c) \/ CloseClient(c)
        PROVE  AnswerInv'
    BY <1>5, ConnectAnswers, HangUpAnswers, CallAnswers, ReceiveAnswers
  <1>6. ASSUME NEW f \in seen, Stranger(f) \/ \E k \in DOMAIN conn : Stray(k, f) PROVE AnswerInv'
    BY <1>6, OthersAnswer
  <1> QED BY <1>1, <1>2, <1>3, <1>4, <1>5, <1>6 DEF Next

\* AnswerIsOwn, for any number of clients and connections: responses carry nothing
\* that names their request, and yet call() returns its caller's own, as long as
\* nobody else writes to the connection and no earlier call on it was given up.
THEOREM AnswerIsOwnHolds == Spec => []AnswerIsOwn
  <1>1. Init => AnswerInv
    <2> SUFFICES ASSUME Init PROVE AnswerInv
      OBVIOUS
    <2>1. \A c \in Clients : client[c].conn = 0 /\ client[c].answer = NoAnswer
      BY DEF Init, Unconnected
    <2> QED BY <2>1 DEF AnswerInv, Separate
  <1>2. AnswerInv => AnswerIsOwn
    <2> SUFFICES ASSUME AnswerInv, NEW c \in Clients, client[c].answer # NoAnswer,
                        ~client[c].behind, ~conn[client[c].conn].mixed
                 PROVE  client[c].answer = Request(Current(c))
      BY DEF AnswerIsOwn
    <2>1. client[c].conn # 0
      BY DEF AnswerInv, Separate
    <2>2. client[c].answer = Asked(client[c])
      BY <2>1 DEF AnswerInv, Exchange
    <2> QED BY <2>2 DEF Asked, Current
  <1> QED BY InvHolds, AnswerNext, <1>1, <1>2, PTL DEF Spec

=============================================================================
