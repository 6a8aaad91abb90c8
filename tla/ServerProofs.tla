------------------------------ MODULE ServerProofs -----------------------------
(***************************************************************************)
(* Theorems about the threads of the daemon (Server): for any number of    *)
(* connections, descriptors and requests, and whoever asks for the stop,   *)
(* the engine outlives every thread that calls it, max_sessions bounds the *)
(* open connections, and every descriptor is closed once, by its owner.    *)
(*                                                                         *)
(* The four properties are not inductive.  What makes them so is Torn:     *)
(* that one thread at most is past the test of torn_down, that it reaches  *)
(* each of its joins in turn, and that a thread which finds torn_down set  *)
(* and returns at once learns nothing until the other one is joined.       *)
(***************************************************************************)
EXTENDS Server, FiniteSetTheorems, TLAPS

--------------------------------------------------------------------------------
(* The inductive invariant *)

StopLabels == {"stop", "lock", "walk", "shutListener", "notify"}
JoinLabels == {"joinAccept", "swap", "joinSessions"}
MainLabels ==
    StopLabels \cup JoinLabels
        \cup {"start", "entering", "asleep", "teardown", "ran", "joinWatcher", "done"}
WatcherLabels ==
    StopLabels \cup JoinLabels \cup {"polling", "counting", "stopped", "teardown", "done"}
AcceptLabels == {"check", "polling", "accepted", "done"}
SessionLabels ==
    StopLabels \cup {"none", "loop", "reading", "handling", "sending", "sendingStop", "shutOwn",
                     "closing", "marking", "done"}

\* Every thread is in code of its own, and request_stop returns to its caller.
Placed ==
    /\ pc \in [Stoppers \cup {"accept"} ->
                 MainLabels \cup WatcherLabels \cup AcceptLabels \cup SessionLabels]
    /\ pc["main"] \in MainLabels /\ pc["watcher"] \in WatcherLabels
    /\ pc["accept"] \in AcceptLabels /\ \A s \in Sessions : pc[s] \in SessionLabels
    /\ back \in [Stoppers -> {"done", "joinAccept", "stopped", "shutOwn"}]
    /\ pc["main"] \in StopLabels => back["main"] = "joinAccept"
    /\ pc["watcher"] \in StopLabels => back["watcher"] \in {"joinAccept", "stopped"}
    /\ \A s \in Sessions : pc[s] \in StopLabels => back[s] = "shutOwn"

Typed ==
    /\ registry \subseteq Sessions /\ threads \subseteq Sessions /\ joining \subseteq Sessions
    /\ live \in [Sessions -> BOOLEAN]
    /\ socket \in [Sessions -> Descriptors \cup {None}]
    /\ owner \in [Descriptors -> Sessions \cup {None, "accept", "listener"}]
    /\ pending \in Descriptors \cup {None}
    /\ listener \in {ListenerFd, None}

\* Past the test of torn_down, and not yet out of teardown.
Tearing(t) == pc[t] \in JoinLabels \/ (pc[t] \in StopLabels /\ back[t] = "joinAccept")

\* No thread but the main thread and the watcher can call the engine, or ever will.
Ended == At("accept", "done") /\ \A s \in Sessions : pc[s] \in {"none", "done"}

Torn ==
    /\ ~tornDown => ~Tearing("main") /\ ~Tearing("watcher")
    /\ ~(Tearing("main") /\ Tearing("watcher"))
    /\ tornDown /\ ~Tearing("main") /\ ~Tearing("watcher") =>
          Ended /\ owner[ListenerFd] = None
    /\ \A t \in {"main", "watcher"} :
          /\ pc[t] \in {"swap", "joinSessions"} =>
                At("accept", "done") /\ owner[ListenerFd] = None
          /\ At(t, "joinSessions") => threads = {}
    /\ joining # {} => At("main", "joinSessions") \/ At("watcher", "joinSessions")
    /\ pc["main"] \in {"ran", "joinWatcher", "done"} => tornDown
    /\ At("main", "done") => At("watcher", "done")
    /\ ~engineOpen => Ended

\* A thread that runs is one teardown will join, and one that is not through has
\* its socket, and only then.
Joinable ==
    \A s \in Sessions :
        /\ pc[s] \notin {"none", "done"} => s \in threads \cup joining
        /\ socket[s] = None <=> pc[s] \in {"none", "marking", "done"}

\* While connections are accepted, an open one is registered and live.
Counted ==
    ~At("accept", "done") => \A s \in Sessions : socket[s] # None => s \in registry /\ live[s]

\* Descriptors and handles name each other, and the listener's descriptor is not
\* given away.
Owned ==
    /\ \A s \in Sessions : socket[s] # None => owner[socket[s]] = s
    /\ \A fd \in Descriptors :
          /\ owner[fd] \in Sessions => socket[owner[fd]] = fd
          /\ owner[fd] = "accept" => pending = fd
          /\ owner[fd] = "listener" => fd = ListenerFd
    /\ pending # None => owner[pending] = "accept"
    /\ At("accept", "accepted") <=> pending # None
    /\ owner[ListenerFd] \in {"listener", None}
    /\ owner[ListenerFd] = "listener" => listener = ListenerFd
    /\ ~At("accept", "done") => owner[ListenerFd] = "listener" /\ listener = ListenerFd

ServerInv == Placed /\ Typed /\ Torn /\ Joinable /\ Counted /\ Owned

\* request_stop, by either thread.
LEMMA RequestStopKeeps == ASSUME ServerInv, NEW t \in Stoppers, RequestStop(t) PROVE ServerInv'
  <1> USE ServerAssumption DEF Goes, At, Stoppers, flags, stopping, accepting, tables, descriptors,
          Tearing, Ended, StopLabels, JoinLabels, MainLabels, WatcherLabels, AcceptLabels, SessionLabels
  <1>1. CASE StopStores(t)
    BY <1>1 DEF ServerInv, Placed, Typed, Torn, Joinable, Counted, Owned, StopStores
  <1>2. CASE StopLocks(t)
    BY <1>2 DEF ServerInv, Placed, Typed, Torn, Joinable, Counted, Owned, StopLocks
  <1>3. CASE StopLoads(t)
    BY <1>3 DEF ServerInv, Placed, Typed, Torn, Joinable, Counted, Owned, StopLoads
  <1>4. CASE StopShuts(t)
    BY <1>4 DEF ServerInv, Placed, Typed, Torn, Joinable, Counted, Owned, StopShuts
  <1>5. CASE StopUnlocks(t)
    BY <1>5 DEF ServerInv, Placed, Typed, Torn, Joinable, Counted, Owned, StopUnlocks
  <1>6. CASE StopNotifies(t)
    BY <1>6 DEF ServerInv, Placed, Typed, Torn, Joinable, Counted, Owned, StopNotifies
  <1> QED BY <1>1, <1>2, <1>3, <1>4, <1>5, <1>6 DEF RequestStop

\* stop(): the latch, and the joins of the one that took it.
LEMMA TeardownKeeps == ASSUME ServerInv, NEW t \in Stoppers, Teardown(t) PROVE ServerInv'
  <1> USE ServerAssumption DEF Goes, At, Stoppers, flags, stopping, accepting, tables, descriptors,
          Tearing, Ended, StopLabels, JoinLabels, MainLabels, WatcherLabels, AcceptLabels, SessionLabels
  <1>1. CASE TeardownEnters(t)
    BY <1>1 DEF ServerInv, Placed, Typed, Torn, Joinable, Counted, Owned, TeardownEnters, Returns
  <1>2. CASE TeardownJoinsAccept(t)
    <2>1. t \in {"main", "watcher"} BY <1>2 DEF ServerInv, Placed, TeardownJoinsAccept
    <2>2. /\ At(t, "joinAccept") /\ At("accept", "done") /\ Goes(t, "swap")
          /\ Freed(listener) /\ UNCHANGED <<flags, stopping, accepting, tables, socket, listener>>
      BY <1>2 DEF TeardownJoinsAccept
    <2>3. /\ owner' \in [Descriptors -> Sessions \cup {None, "accept", "listener"}]
          /\ owner'[ListenerFd] = None
          /\ \A fd \in Descriptors : owner'[fd] # owner[fd] => fd = ListenerFd
      BY <2>2 DEF ServerInv, Typed, Owned, Freed
    <2>4. Placed' BY <2>1, <2>2 DEF ServerInv, Placed
    <2>5. Typed' /\ Counted' BY <2>1, <2>2, <2>3 DEF ServerInv, Placed, Typed, Counted
    <2>6. Torn' BY <2>1, <2>2, <2>3 DEF ServerInv, Placed, Torn
    <2>7. Joinable' BY <2>1, <2>2 DEF ServerInv, Placed, Joinable
    <2>8. Owned' BY <2>1, <2>2, <2>3 DEF ServerInv, Placed, Typed, Owned
    <2> QED BY <2>4, <2>5, <2>6, <2>7, <2>8 DEF ServerInv
  <1>3. CASE TeardownSwaps(t)
    BY <1>3 DEF ServerInv, Placed, Typed, Torn, Joinable, Counted, Owned, TeardownSwaps
  <1>4. CASE TeardownJoins(t)
    BY <1>4 DEF ServerInv, Placed, Typed, Torn, Joinable, Counted, Owned, TeardownJoins, Returns
  <1> QED BY <1>1, <1>2, <1>3, <1>4 DEF Teardown

\* The main thread of the daemon.
LEMMA MainKeeps == ASSUME ServerInv, Main PROVE ServerInv'
  <1> USE ServerAssumption DEF Goes, At, Stoppers, flags, stopping, accepting, tables, descriptors,
          Tearing, Ended, StopLabels, JoinLabels, MainLabels, WatcherLabels, AcceptLabels, SessionLabels
  <1>1. CASE RunEnters
    BY <1>1 DEF ServerInv, Placed, Typed, Torn, Joinable, Counted, Owned, RunEnters
  <1>2. CASE RunWaits
    BY <1>2 DEF ServerInv, Placed, Typed, Torn, Joinable, Counted, Owned, RunWaits
  <1>3. CASE RunReturns
    BY <1>3 DEF ServerInv, Placed, Typed, Torn, Joinable, Counted, Owned, RunReturns
  <1>4. CASE ClosesEngine
    BY <1>4 DEF ServerInv, Placed, Typed, Torn, Joinable, Counted, Owned, ClosesEngine
  <1> QED BY <1>1, <1>2, <1>3, <1>4 DEF Main

\* The thread that waits for a signal.
LEMMA WatcherKeeps == ASSUME ServerInv, Watcher PROVE ServerInv'
  <1> USE ServerAssumption DEF Goes, At, Stoppers, flags, stopping, accepting, tables, descriptors,
          Tearing, Ended, StopLabels, JoinLabels, MainLabels, WatcherLabels, AcceptLabels, SessionLabels
  <1>1. CASE WatcherPolls
    <2>1. CASE Goes("watcher", "stop") /\ back' = [back EXCEPT !["watcher"] = "stopped"]
      BY <1>1, <2>1 DEF ServerInv, Placed, Typed, Torn, Joinable, Counted, Owned, WatcherPolls
    <2>2. CASE Goes("watcher", "done") /\ UNCHANGED back
      BY <1>1, <2>2 DEF ServerInv, Placed, Typed, Torn, Joinable, Counted, Owned, WatcherPolls
    <2>3. CASE Goes("watcher", "counting") /\ UNCHANGED back
      BY <1>1, <2>3 DEF ServerInv, Placed, Typed, Torn, Joinable, Counted, Owned, WatcherPolls
    <2> QED BY <1>1, <2>1, <2>2, <2>3 DEF WatcherPolls
  <1>2. CASE WatcherCounts
    <2>1. CASE Goes("watcher", "stop") /\ back' = [back EXCEPT !["watcher"] = "stopped"]
      BY <1>2, <2>1 DEF ServerInv, Placed, Typed, Torn, Joinable, Counted, Owned, WatcherCounts
    <2>2. CASE Goes("watcher", "polling") /\ UNCHANGED back
      BY <1>2, <2>2 DEF ServerInv, Placed, Typed, Torn, Joinable, Counted, Owned, WatcherCounts
    <2> QED BY <1>2, <2>1, <2>2 DEF WatcherCounts
  <1>3. CASE WatcherShutsDown
    BY <1>3 DEF ServerInv, Placed, Typed, Torn, Joinable, Counted, Owned, WatcherShutsDown
  <1> QED BY <1>1, <1>2, <1>3 DEF Watcher

\* The accept loop: a session gets a descriptor nobody holds.
LEMMA AcceptKeeps == ASSUME ServerInv, Accept PROVE ServerInv'
  <1> USE ServerAssumption DEF Goes, At, Stoppers, flags, stopping, accepting, tables, descriptors,
          Tearing, Ended, StopLabels, JoinLabels, MainLabels, WatcherLabels, AcceptLabels, SessionLabels
  <1>1. CASE AcceptChecks
    BY <1>1 DEF ServerInv, Placed, Typed, Torn, Joinable, Counted, Owned, AcceptChecks
  <1>2. CASE AcceptRepeats
    <2>1. CASE Goes("accept", "check")
      BY <1>2, <2>1 DEF ServerInv, Placed, Typed, Torn, Joinable, Counted, Owned, AcceptRepeats
    <2>2. CASE Goes("accept", "done")
      BY <1>2, <2>2 DEF ServerInv, Placed, Typed, Torn, Joinable, Counted, Owned, AcceptRepeats
    <2> QED BY <1>2, <2>1, <2>2 DEF AcceptRepeats
  <1>3. CASE Accepts
    BY <1>3 DEF ServerInv, Placed, Typed, Torn, Joinable, Counted, Owned, Accepts
  <1>4. CASE Registers
    <2>1. CASE ~HasRoom
      <3>1. /\ At("accept", "accepted") /\ Goes("accept", "check") /\ pending' = None
            /\ Freed(pending) /\ UNCHANGED <<tables, socket, flags, stopping, listener>>
        BY <1>4, <2>1 DEF Registers, Rejects
      <3>2. pending \in Descriptors /\ owner[pending] = "accept"
        BY <3>1 DEF ServerInv, Typed, Owned
      <3>3. Placed' BY <3>1 DEF ServerInv, Placed
      <3>4. Typed' /\ Counted' BY <3>1, <3>2 DEF ServerInv, Placed, Typed, Counted, Freed
      <3>5. Torn' BY <3>1, <3>2 DEF ServerInv, Placed, Typed, Torn, Joinable, Counted, Owned, Freed
      <3>6. Joinable' BY <3>1 DEF ServerInv, Placed, Joinable
      <3>7. Owned' BY <3>1, <3>2 DEF ServerInv, Placed, Typed, Torn, Joinable, Counted, Owned, Freed
      <3> QED BY <3>3, <3>4, <3>5, <3>6, <3>7 DEF ServerInv
    <2>2. CASE HasRoom
      <3>1. PICK s \in Sessions :
               /\ At(s, "none")
               /\ pc' = [pc EXCEPT !["accept"] = "check", ![s] = "loop"]
               /\ live' = [live EXCEPT ![s] = TRUE]
               /\ socket' = [socket EXCEPT ![s] = pending]
               /\ owner' = [owner EXCEPT ![pending] = s]
               /\ threads' = threads \cup {s}
               /\ registry' = {r \in registry \cup {s} : live'[r]}
               /\ UNCHANGED joining
        BY <1>4, <2>2 DEF Registers
      <3>2. UNCHANGED back
        BY <1>4 DEF Registers
      <3>3. Placed'
        <4>1. s \in Stoppers /\ s # "accept" /\ s # "main" /\ s # "watcher"
          OBVIOUS
        <4> QED BY <3>1, <3>2, <4>1 DEF ServerInv, Placed
      <3>4. pending \in Descriptors /\ pending' = None /\ UNCHANGED listener
        BY <1>4 DEF ServerInv, Typed, Owned, Registers
      <3>5. Typed' BY <3>1, <3>4 DEF ServerInv, Typed
      <3>6. /\ At("accept", "accepted") /\ UNCHANGED <<flags, stopping>>
            /\ pending # None /\ pending # ListenerFd
        BY <1>4 DEF ServerInv, Owned, Registers
      <3>7. /\ \A r \in Sessions : pc'[r] = IF r = s THEN "loop" ELSE pc[r]
            /\ pc'["main"] = pc["main"] /\ pc'["watcher"] = pc["watcher"] /\ pc'["accept"] = "check"
        BY <3>1 DEF ServerInv, Placed
      <3>8. /\ \A r \in Sessions : socket'[r] = IF r = s THEN pending ELSE socket[r]
            /\ owner'[ListenerFd] = owner[ListenerFd]
        BY <3>1, <3>6 DEF ServerInv, Typed
      <3>9. Torn' BY <3>1, <3>6, <3>7, <3>8 DEF ServerInv, Placed, Torn
      <3>10. Joinable' BY <3>1, <3>6, <3>7, <3>8 DEF ServerInv, Placed, Joinable
      <3>11. Counted' BY <1>4, <3>1 DEF ServerInv, Placed, Typed, Counted, Registers
      <3>12. /\ \A fd \in Descriptors : owner'[fd] = IF fd = pending THEN s ELSE owner[fd]
             /\ socket[s] = None /\ owner[pending] = "accept"
        BY <3>1, <3>4, <3>6 DEF ServerInv, Typed, Joinable, Owned
      <3>13. Owned' BY <3>1, <3>4, <3>6, <3>7, <3>8, <3>12 DEF ServerInv, Typed, Owned
      <3> QED BY <3>3, <3>5, <3>9, <3>10, <3>11, <3>13 DEF ServerInv
    <2> QED BY <2>1, <2>2
  <1> QED BY <1>1, <1>2, <1>3, <1>4 DEF Accept

\* One step of a session thread.
LEMMA SessionProceedsKeeps == ASSUME ServerInv, NEW s \in Sessions, SessionProceeds(s) PROVE ServerInv'
  <1> USE ServerAssumption DEF Goes, At, Stoppers, flags, stopping, accepting, tables, descriptors,
          Tearing, Ended, StopLabels, JoinLabels, MainLabels, WatcherLabels, AcceptLabels, SessionLabels
  <1>1. CASE SessionChecks(s)
    BY <1>1 DEF ServerInv, Placed, Typed, Torn, Joinable, Counted, Owned, SessionChecks
  <1>2. CASE SessionTimesOut(s)
    BY <1>2 DEF ServerInv, Placed, Typed, Torn, Joinable, Counted, Owned, SessionTimesOut
  <1>3. CASE SessionEnds(s)
    BY <1>3 DEF ServerInv, Placed, Typed, Torn, Joinable, Counted, Owned, SessionEnds
  <1>4. CASE SessionAnswers(s)
    <2>1. PICK label \in {"loop", "handling", "sending", "sendingStop"} : Goes(s, label)
      BY <1>4 DEF SessionAnswers, Onward
    <2> QED BY <1>4, <2>1 DEF ServerInv, Placed, Typed, Torn, Joinable, Counted, Owned, SessionAnswers
  <1>5. CASE SessionShutsOwn(s)
    <2>1. PICK label \in {"loop", "handling"} : Goes(s, label)
      BY <1>5 DEF SessionShutsOwn, Onward
    <2> QED BY <1>5, <2>1 DEF ServerInv, Placed, Typed, Torn, Joinable, Counted, Owned, SessionShutsOwn
  <1>6. CASE SessionCloses(s)
    BY <1>6 DEF ServerInv, Placed, Typed, Torn, Joinable, Counted, Owned, SessionCloses, Freed
  <1>7. CASE SessionMarks(s)
    BY <1>7 DEF ServerInv, Placed, Typed, Torn, Joinable, Counted, Owned, SessionMarks
  <1> QED BY <1>1, <1>2, <1>3, <1>4, <1>5, <1>6, <1>7 DEF SessionProceeds

\* What a session's peer and its connection do moves that session's thread only.
LEMMA PeerActsKeeps == ASSUME ServerInv, NEW s \in Sessions, PeerActs(s) PROVE ServerInv'
  <1> USE ServerAssumption DEF Goes, At, Stoppers, flags, stopping, accepting, tables, descriptors,
          Tearing, Ended, StopLabels, JoinLabels, MainLabels, WatcherLabels, AcceptLabels, SessionLabels
  <1>1. CASE SessionReceives(s)
    BY <1>1 DEF ServerInv, Placed, Typed, Torn, Joinable, Counted, Owned, SessionReceives
  <1>2. CASE SessionSends(s)
    <2>1. CASE At(s, "sending") /\ Onward(s) /\ UNCHANGED back
      <3>1. PICK label \in {"loop", "handling"} : Goes(s, label)
        BY <2>1 DEF Onward
      <3> QED BY <1>2, <2>1, <3>1 DEF ServerInv, Placed, Typed, Torn, Joinable, Counted, Owned, SessionSends
    <2>2. CASE /\ At(s, "sendingStop") /\ Goes(s, "stop") 
               /\ back' = [back EXCEPT ![s] = "shutOwn"]
      BY <1>2, <2>2 DEF ServerInv, Placed, Typed, Torn, Joinable, Counted, Owned, SessionSends
    <2> QED BY <1>2, <2>1, <2>2 DEF SessionSends
  <1>3. CASE SessionSendFails(s)
    <2>1. PICK label \in {"loop", "handling"} : Goes(s, label)
      BY <1>3 DEF SessionSendFails, Onward
    <2>2. InSend(s)
      BY <1>3 DEF SessionSendFails
    <2> QED BY <1>3, <2>1, <2>2
            DEF ServerInv, Placed, Typed, Torn, Joinable, Counted, Owned, SessionSendFails, InSend
  <1> QED BY <1>1, <1>2, <1>3 DEF PeerActs

--------------------------------------------------------------------------------
(* The bound on sessions *)

\* A step that opens no socket keeps the bound, and Registers opens one when
\* HasRoom finds fewer live sessions than the limit.
LEMMA BoundKept == ASSUME ServerInv, SessionsBounded, [Next]_vars PROVE SessionsBounded'
  <1> DEFINE open == {s \in Sessions : socket[s] # None}
  <1>1. IsFiniteSet(open) /\ Cardinality(open) \in Nat
    BY ServerAssumption, FS_Subset, FS_CardinalityType
  <1>2. ASSUME open' \subseteq open PROVE SessionsBounded'
    <2>1. IsFiniteSet(open') /\ Cardinality(open') \in Nat /\ Cardinality(open') <= Cardinality(open)
      BY <1>1, <1>2, FS_Subset, FS_CardinalityType
    <2> QED BY <1>1, <2>1, ServerAssumption DEF SessionsBounded
  <1>3. CASE Registers /\ HasRoom
    <2>1. PICK s \in Sessions : socket' = [socket EXCEPT ![s] = pending]
      BY <1>3 DEF Registers
    <2>2. open' \subseteq open \cup {s}
      BY <2>1 DEF ServerInv, Typed
    <2> DEFINE counted == {r \in registry : live[r]}
    <2>3. open \subseteq counted
      BY <1>3 DEF ServerInv, Counted, Registers, At
    <2>4. IsFiniteSet(counted) /\ Cardinality(counted) \in Nat
      BY ServerAssumption, FS_Subset, FS_CardinalityType DEF ServerInv, Typed
    <2>5. Cardinality(open) <= Cardinality(counted)
      BY <2>3, <2>4, FS_Subset
    <2>6. Cardinality(counted) < MaxSessions
      BY <1>3 DEF HasRoom
    <2>7. IsFiniteSet(open \cup {s}) /\ Cardinality(open \cup {s}) <= Cardinality(open) + 1
      BY <1>1, FS_AddElement
    <2>8. Cardinality(open \cup {s}) \in Nat
      BY <2>7, FS_CardinalityType
    <2>9. Cardinality(open') \in Nat /\ Cardinality(open') <= Cardinality(open \cup {s})
      BY <2>2, <2>7, FS_Subset, FS_CardinalityType
    <2> HIDE DEF open, counted
    <2>10. Cardinality(open') <= MaxSessions
      BY <1>1, <2>4, <2>5, <2>6, <2>7, <2>8, <2>9, ServerAssumption
    <2> QED BY <2>10 DEF SessionsBounded, open
  <1>4. ASSUME NEW s \in Sessions, SessionCloses(s) PROVE open' \subseteq open
    BY <1>4 DEF SessionCloses, ServerInv, Typed
  <1>5. CASE UNCHANGED socket
    BY <1>2, <1>5
  <1>6. ~(Registers /\ HasRoom) /\ (\A s \in Sessions : ~SessionCloses(s)) => UNCHANGED socket
    <2> USE DEF descriptors
    <2>1. ASSUME NEW t \in Stoppers, RequestStop(t) \/ Teardown(t) PROVE UNCHANGED socket
      BY <2>1 DEF RequestStop, StopStores, StopLocks, StopLoads, StopShuts, StopUnlocks, StopNotifies,
             Teardown, TeardownEnters, TeardownJoinsAccept, TeardownSwaps, TeardownJoins
    <2>2. ASSUME Main \/ Watcher \/ Signal \/ Exited PROVE UNCHANGED socket
      BY <2>2 DEF Main, RunEnters, RunWaits, RunReturns, ClosesEngine, Watcher, WatcherPolls,
             WatcherCounts, WatcherShutsDown, Signal, Exited, vars
    <2>3. ASSUME Accept, ~(Registers /\ HasRoom) PROVE UNCHANGED socket
      BY <2>3 DEF Accept, AcceptChecks, AcceptRepeats, Accepts, Registers
    <2>4. ASSUME NEW s \in Sessions, SessionProceeds(s) \/ PeerActs(s), ~SessionCloses(s)
          PROVE UNCHANGED socket
      BY <2>4 DEF SessionProceeds, SessionChecks, SessionTimesOut, SessionEnds, SessionAnswers,
             SessionSendFails, SessionShutsOwn, SessionMarks, PeerActs, SessionReceives,
             SessionSends
    <2> QED BY <2>1, <2>2, <2>3, <2>4 DEF Next, vars
  <1> QED BY <1>2, <1>3, <1>4, <1>5, <1>6

--------------------------------------------------------------------------------
(* The theorems *)

\* The daemon starts with its listener and no session.
LEMMA InvInit == ASSUME Init PROVE ServerInv /\ SessionsBounded
  <1> USE ServerAssumption DEF Init
  <1>1. Placed
    BY DEF Placed, At, Stoppers, StopLabels, JoinLabels, MainLabels, WatcherLabels, AcceptLabels,
           SessionLabels
  <1>2. Typed /\ Owned /\ Joinable /\ Counted
    BY DEF Typed, Owned, Joinable, Counted, At, Stoppers
  <1>3. Torn
    BY DEF Torn, Tearing, Ended, At, Stoppers, StopLabels, JoinLabels
  <1>4. {s \in Sessions : socket[s] # None} = {}
    OBVIOUS
  <1>5. SessionsBounded
    BY <1>4, FS_EmptySet DEF SessionsBounded
  <1> QED BY <1>1, <1>2, <1>3, <1>5 DEF ServerInv

\* Every thread keeps the invariant.
LEMMA InvNext == ASSUME ServerInv, [Next]_vars PROVE ServerInv'
  <1>1. CASE Signal \/ Exited \/ UNCHANGED vars
    BY <1>1 DEF Signal, Exited, vars, ServerInv, Placed, Typed, Torn, Joinable, Counted, Owned, At,
           Tearing, Ended, stopping, accepting, tables, descriptors
  <1> QED BY <1>1, RequestStopKeeps, TeardownKeeps, MainKeeps, WatcherKeeps, AcceptKeeps,
             SessionProceedsKeeps, PeerActsKeeps DEF Next

\* The invariant and the bound hold throughout.
LEMMA InvHolds == Spec => [](ServerInv /\ SessionsBounded)
  <1>1. ServerInv /\ SessionsBounded /\ [Next]_vars => (ServerInv /\ SessionsBounded)'
    BY InvNext, BoundKept
  <1> QED BY InvInit, <1>1, PTL DEF Spec

\* The engine is closed only when no accept or session thread can call it any more:
\* Engine::close at the end of lff-fabricd's main comes after the joins of teardown,
\* whichever thread ran it.
THEOREM EngineOutlives == Spec => []EngineOutlivesThreads
  <1>1. ServerInv => EngineOutlivesThreads
    BY DEF ServerInv, Torn, Ended, EngineOutlivesThreads
  <1> QED BY InvHolds, <1>1, PTL

\* The accept thread never lets more than max_sessions connections be open.
THEOREM SessionsStayBounded == Spec => []SessionsBounded
  BY InvHolds, PTL

\* A descriptor belongs to one owner, which closes it, and none is left when the
\* daemon ends.
THEOREM DescriptorsAreOwned == Spec => []DescriptorsOwned
  <1>1. ServerInv => DescriptorsOwned
    <2> SUFFICES ASSUME ServerInv PROVE DescriptorsOwned
      OBVIOUS
    <2>1. \A s \in Sessions : socket[s] # None => owner[socket[s]] = s
      BY DEF ServerInv, Owned
    <2>2. ASSUME At("main", "done"), NEW fd \in Descriptors PROVE owner[fd] = None
      <3>1. Ended /\ owner[ListenerFd] = None
        BY <2>2 DEF ServerInv, Torn, Tearing, At, StopLabels, JoinLabels
      <3>2. pending = None /\ \A s \in Sessions : socket[s] = None
        BY <3>1 DEF ServerInv, Owned, Joinable, Ended, At
      <3> QED BY <3>1, <3>2, ServerAssumption DEF ServerInv, Typed, Owned
    <2> QED BY <2>1, <2>2 DEF DescriptorsOwned
  <1> QED BY InvHolds, <1>1, PTL

\* The accept thread polls the listener and nothing else, and a stop path that read
\* its handle before teardown closed it shuts no connection down.
THEOREM ListenerKept == Spec => []ListenerNotRecycled
  <1>1. ServerInv => ListenerNotRecycled
    BY DEF ServerInv, Owned, At, ListenerNotRecycled
  <1> QED BY InvHolds, <1>1, PTL

=============================================================================
