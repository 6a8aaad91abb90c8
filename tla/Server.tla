--------------------------------- MODULE Server --------------------------------
(***************************************************************************)
(* The threads of the coordinator daemon (src/server.cpp and the end of    *)
(* tools/lff-fabricd.cpp): the main thread in run(), the accept thread,    *)
(* one thread per session, and the watcher that turns a signal or an       *)
(* exhausted request budget into shutdown().                               *)
(*                                                                         *)
(* A step is one critical section or one access to what threads share: the *)
(* stop flag, the session registry under registry_mu, the atomic socket    *)
(* handle of a session, the descriptor table of the process.               *)
(*                                                                         *)
(* Abstractions.  A received chunk is a number of accepted requests; what  *)
(* a request does is Coordinator's and Evidence's subject, which of them   *)
(* is accepted is Session's.  A peer may stop reading, and then a send     *)
(* blocks; shutdown() of its socket may make it fail and, on some          *)
(* platforms, does not.  The listener's handle is a plain field that       *)
(* request_stop reads while teardown may write it: a reader gets the old   *)
(* value or the new one.                                                   *)
(*                                                                         *)
(* A definition whose name continues that of the next one after an         *)
(* underscore is a seeded fault of it, used to show that a property can    *)
(* fail.                                                                   *)
(***************************************************************************)
EXTENDS Integers, FiniteSets

CONSTANTS
    Sessions,     \* bound: connections ever accepted into a session
    Descriptors,  \* bound: descriptors for sockets; any free one is reused
    ListenerFd,   \* the one create_listener got
    None,         \* no descriptor, no thread
    MaxSessions,  \* ServerOptions::max_sessions
    MaxFailures,  \* kMaxConsecutiveAcceptFailures
    MaxRequests,  \* bound: requests explored
    ExitAfters    \* values of lff-fabricd --exit-after; 0 if it is not given

ASSUME ServerAssumption ==
    /\ {MaxSessions, MaxFailures, MaxRequests} \cup ExitAfters \subseteq Nat
    /\ IsFiniteSet(Sessions) /\ IsFiniteSet(Descriptors)
    /\ None \notin Sessions \cup Descriptors /\ ListenerFd \in Descriptors
    /\ {"main", "watcher", "accept", "listener"} \cap (Sessions \cup {None}) = {}

\* The threads that may run request_stop.
Stoppers == {"main", "watcher"} \cup Sessions

VARIABLES
    pc,         \* where each thread is
    stop,       \* stop_requested
    tornDown,   \* torn_down
    runActive,  \* run_active
    signalled,  \* lff-fabricd's g_stop_requested
    listener,   \* the listener's handle
    failures,   \* the accept loop's consecutive_failures
    pending,    \* the descriptor accept() returned, before it is registered
    mu,         \* the thread that holds registry_mu over several steps
    todo,       \* under mu: the sessions request_stop has still to visit
    loaded,     \* under mu: the session and the handle it has just read
    back,       \* where request_stop returns to
    registry,   \* sessions
    threads,    \* session_threads
    joining,    \* the thread list teardown has swapped out
    live,       \* sessions whose id is not 0
    socket,     \* SessionState::socket
    owner,      \* the descriptor table: whose each descriptor is
    shut,       \* descriptors that can no longer send: shut down, or reset by the peer
    handled,    \* requests_handled
    engineOpen, \* the engine has not been closed
    exitAfter   \* the budget this daemon was started with

vars == <<pc, stop, tornDown, runActive, signalled, listener, failures, pending, mu, todo,
          loaded, back, registry, threads, joining, live, socket, owner, shut, handled,
          engineOpen, exitAfter>>
flags == <<stop, tornDown, runActive, signalled, engineOpen, exitAfter>>
stopping == <<mu, todo, loaded, back>>
accepting == <<failures, pending>>
tables == <<registry, threads, joining, live>>
descriptors == <<socket, owner, shut>>

At(t, label) == pc[t] = label
Goes(t, label) == pc' = [pc EXCEPT ![t] = label]

--------------------------------------------------------------------------------
(* request_stop *)

\* stop_requested.store(true)
StopStores(t) ==
    /\ At(t, "stop") /\ Goes(t, "lock") /\ stop' = TRUE
    /\ UNCHANGED <<tornDown, runActive, signalled, engineOpen, exitAfter, stopping, accepting, tables,
                   descriptors, listener, handled>>

StopLocks(t) ==
    /\ At(t, "lock") /\ mu = None
    /\ Goes(t, "walk") /\ mu' = t /\ todo' = registry
    /\ UNCHANGED <<flags, loaded, back, accepting, tables, descriptors, listener, handled>>

\* session->handle(); an invalid handle is skipped.
StopLoads(t) ==
    /\ At(t, "walk") /\ loaded = None
    /\ \E s \in todo :
          /\ todo' = todo \ {s}
          /\ loaded' = IF socket[s] = None THEN None ELSE [of |-> s, fd |-> socket[s]]
    /\ UNCHANGED <<pc, flags, mu, back, accepting, tables, descriptors, listener, handled>>

\* shutdown() of the handle read, whoever the descriptor belongs to by now.
ShutDown_NeverSockets(fd) == shut
ShutDown(fd) == IF owner[fd] = None THEN shut ELSE shut \cup {fd}

StopShuts(t) ==
    /\ At(t, "walk") /\ loaded # None
    /\ shut' = ShutDown(loaded.fd) /\ loaded' = None
    /\ UNCHANGED <<pc, flags, mu, todo, back, accepting, tables, socket, owner, listener, handled>>

\* The lock is released, and the listener's handle read.
StopUnlocks(t) ==
    /\ At(t, "walk") /\ loaded = None /\ todo = {}
    /\ Goes(t, IF listener = None THEN "notify" ELSE "shutListener") /\ mu' = None
    /\ UNCHANGED <<flags, todo, loaded, back, accepting, tables, descriptors, listener, handled>>

\* shutdown() of the listener, then notify_all, which wakes the main thread if it
\* sleeps in run().
StopNotifies(t) ==
    /\ pc[t] \in {"notify", "shutListener"}
    /\ shut' = IF At(t, "shutListener") THEN ShutDown(ListenerFd) ELSE shut
    /\ pc' = [pc EXCEPT ![t] = back[t],
                        !["main"] = CASE t = "main" -> back[t]
                                      [] t # "main" /\ @ = "asleep" -> "entering"
                                      [] OTHER -> @]
    /\ UNCHANGED <<flags, stopping, accepting, tables, socket, owner, listener, handled>>

RequestStop(t) ==
    StopStores(t) \/ StopLocks(t) \/ StopLoads(t) \/ StopShuts(t) \/ StopUnlocks(t)
        \/ StopNotifies(t)

--------------------------------------------------------------------------------
(* teardown, by the main thread or the watcher *)

Returns(t) == IF t = "main" THEN "ran" ELSE "done"

TeardownEnters(t) ==
    /\ At(t, "teardown") /\ mu = None
    /\ Goes(t, IF tornDown THEN Returns(t) ELSE "stop")
    /\ back' = IF tornDown THEN back ELSE [back EXCEPT ![t] = "joinAccept"]
    /\ tornDown' = TRUE
    /\ UNCHANGED <<stop, runActive, signalled, engineOpen, exitAfter, mu, todo, loaded, accepting, tables,
                   descriptors, listener, handled>>

\* close_socket, of a handle whose descriptor is free or not.
Freed(fd) == /\ owner' = [owner EXCEPT ![fd] = None]
             /\ shut' = shut \ {fd}

\* Join the accept thread, then close the listener.
TeardownJoinsAccept_WithoutWaiting(t) ==
    /\ At(t, "joinAccept")
    /\ Goes(t, "swap") /\ Freed(listener)
    /\ UNCHANGED <<flags, stopping, accepting, tables, socket, listener, handled>>
TeardownJoinsAccept(t) ==
    /\ At(t, "joinAccept") /\ At("accept", "done")
    /\ Goes(t, "swap") /\ Freed(listener)
    /\ UNCHANGED <<flags, stopping, accepting, tables, socket, listener, handled>>

\* The handle is cleared, and the tables are emptied under the lock.
TeardownSwaps(t) ==
    /\ At(t, "swap") /\ mu = None
    /\ Goes(t, "joinSessions") /\ listener' = None
    /\ joining' = threads /\ threads' = {} /\ registry' = {}
    /\ UNCHANGED <<flags, stopping, accepting, live, descriptors, handled>>

TeardownJoins(t) ==
    /\ At(t, "joinSessions") /\ \A s \in joining : At(s, "done")
    /\ Goes(t, Returns(t)) /\ joining' = {}
    /\ UNCHANGED <<flags, stopping, accepting, registry, threads, live, descriptors, listener,
                   handled>>

Teardown(t) ==
    TeardownEnters(t) \/ TeardownJoinsAccept(t) \/ TeardownSwaps(t) \/ TeardownJoins(t)

--------------------------------------------------------------------------------
(* The main thread: Server::run, then the end of lff-fabricd's main *)

RunEnters ==
    /\ At("main", "start") /\ Goes("main", "entering") /\ runActive' = TRUE
    /\ UNCHANGED <<stop, tornDown, signalled, engineOpen, exitAfter, stopping, accepting, tables,
                   descriptors, listener, handled>>

\* The predicate is read under wait_mu, before sleeping and after every wake-up.
RunWaits ==
    /\ At("main", "entering") /\ Goes("main", IF stop THEN "teardown" ELSE "asleep")
    /\ UNCHANGED <<flags, stopping, accepting, tables, descriptors, listener, handled>>

RunReturns ==
    /\ At("main", "ran") /\ Goes("main", "joinWatcher")
    /\ runActive' = FALSE /\ signalled' = TRUE
    /\ UNCHANGED <<stop, tornDown, engineOpen, exitAfter, stopping, accepting, tables, descriptors,
                   listener, handled>>

\* watcher.join(), then Engine::close.
ClosesEngine ==
    /\ At("main", "joinWatcher") /\ At("watcher", "done")
    /\ Goes("main", "done") /\ engineOpen' = FALSE
    /\ UNCHANGED <<stop, tornDown, runActive, signalled, exitAfter, stopping, accepting, tables,
                   descriptors, listener, handled>>

Main == RunEnters \/ RunWaits \/ RunReturns \/ ClosesEngine

--------------------------------------------------------------------------------
(* The watcher.  With a request budget a signal ends it without shutdown(). *)

WatcherPolls ==
    /\ At("watcher", "polling")
    /\ \/ /\ signalled /\ exitAfter = 0 /\ Goes("watcher", "stop")
          /\ back' = [back EXCEPT !["watcher"] = "stopped"]
       \/ signalled /\ exitAfter > 0 /\ Goes("watcher", "done") /\ UNCHANGED back
       \/ ~signalled /\ exitAfter > 0 /\ Goes("watcher", "counting") /\ UNCHANGED back
    /\ UNCHANGED <<flags, mu, todo, loaded, accepting, tables, descriptors, listener, handled>>

WatcherCounts ==
    /\ At("watcher", "counting")
    /\ \/ /\ handled >= exitAfter /\ Goes("watcher", "stop")
          /\ back' = [back EXCEPT !["watcher"] = "stopped"]
       \/ handled < exitAfter /\ Goes("watcher", "polling") /\ UNCHANGED back
    /\ UNCHANGED <<flags, mu, todo, loaded, accepting, tables, descriptors, listener, handled>>

\* shutdown() leaves the teardown to run() if that is active.
WatcherShutsDown ==
    /\ At("watcher", "stopped") /\ Goes("watcher", IF runActive THEN "done" ELSE "teardown")
    /\ UNCHANGED <<flags, stopping, accepting, tables, descriptors, listener, handled>>

Watcher == WatcherPolls \/ WatcherCounts \/ WatcherShutsDown

--------------------------------------------------------------------------------
(* The accept thread *)

AcceptChecks ==
    /\ At("accept", "check") /\ Goes("accept", IF stop THEN "done" ELSE "polling")
    /\ UNCHANGED <<flags, stopping, accepting, tables, descriptors, listener, handled>>

\* Nothing pending, or a failure: too many in a row end the loop.
AcceptRepeats ==
    /\ At("accept", "polling")
    /\ \/ Goes("accept", "check") /\ UNCHANGED failures
       \/ IF stop THEN Goes("accept", "done") /\ UNCHANGED failures
          ELSE /\ failures' = failures + 1
               /\ Goes("accept", IF failures' >= MaxFailures THEN "done" ELSE "check")
    /\ UNCHANGED <<flags, stopping, pending, tables, descriptors, listener, handled>>

Accepts ==
    /\ At("accept", "polling") /\ Goes("accept", "accepted")
    /\ \E s \in Sessions : At(s, "none")
    /\ \E fd \in Descriptors :
          /\ owner[fd] = None /\ pending' = fd
          /\ owner' = [owner EXCEPT ![fd] = "accept"]
    /\ failures' = 0
    /\ UNCHANGED <<flags, stopping, tables, socket, shut, listener, handled>>

Rejects_KeepsDescriptor(fd) == UNCHANGED <<owner, shut>>
Rejects(fd) == Freed(fd)

HasRoom_OneMore == Cardinality({s \in registry : live[s]}) <= MaxSessions
HasRoom == Cardinality({s \in registry : live[s]}) < MaxSessions

\* Under registry_mu: a session and its thread, or, with max_sessions live, the
\* connection is closed.  Then reap_finished_sessions, which keeps the threads.
Registers ==
    /\ At("accept", "accepted") /\ mu = None
    /\ pending' = None
    /\ \/ /\ ~HasRoom /\ Goes("accept", "check")
          /\ Rejects(pending) /\ UNCHANGED <<tables, socket>>
       \/ /\ HasRoom
          /\ \E s \in Sessions :
                /\ At(s, "none")
                /\ pc' = [pc EXCEPT !["accept"] = "check", ![s] = "loop"]
                /\ live' = [live EXCEPT ![s] = TRUE]
                /\ socket' = [socket EXCEPT ![s] = pending]
                /\ owner' = [owner EXCEPT ![pending] = s]
                /\ threads' = threads \cup {s}
                /\ registry' = {r \in registry \cup {s} : live'[r]}
          /\ UNCHANGED <<joining, shut>>
    /\ UNCHANGED <<flags, stopping, failures, listener, handled>>

Accept == AcceptChecks \/ AcceptRepeats \/ Accepts \/ Registers

--------------------------------------------------------------------------------
(* A session thread: Server::Impl::serve *)

SessionChecks(s) ==
    /\ At(s, "loop") /\ Goes(s, IF stop THEN "closing" ELSE "reading")
    /\ UNCHANGED <<flags, stopping, accepting, tables, descriptors, listener, handled>>

\* Not readable in time; or an error, the end of the stream, or a frame the
\* decoder rejects; or a chunk with at least one request.
SessionTimesOut(s) ==
    /\ At(s, "reading") /\ Goes(s, "loop")
    /\ UNCHANGED <<flags, stopping, accepting, tables, descriptors, listener, handled>>
SessionEnds(s) ==
    /\ At(s, "reading") /\ Goes(s, "closing")
    /\ UNCHANGED <<flags, stopping, accepting, tables, descriptors, listener, handled>>
SessionReceives(s) ==
    /\ At(s, "reading") /\ handled < MaxRequests
    /\ Goes(s, "handling") /\ handled' = handled + 1
    /\ UNCHANGED <<flags, stopping, accepting, tables, descriptors, listener>>

\* The rest of the chunk is handled before the stop flag is read again.
Onward(s) ==
    \/ Goes(s, "loop") /\ UNCHANGED handled
    \/ handled < MaxRequests /\ Goes(s, "handling") /\ handled' = handled + 1

\* The engine has answered, and the answer, to a Shutdown message or to another
\* one, is sent.  A send that begins on a socket already shut down fails at once.
SessionAnswers(s) ==
    /\ At(s, "handling")
    /\ \/ socket[s] \in shut /\ Onward(s)
       \/ /\ socket[s] \notin shut /\ UNCHANGED handled
          /\ \E kind \in {"sending", "sendingStop"} : Goes(s, kind)
    /\ UNCHANGED <<flags, stopping, accepting, tables, descriptors, listener>>

InSend(s) == pc[s] \in {"sending", "sendingStop"}

\* The peer takes the answer; a send in progress may drain though its socket has
\* been shut down.  After the answer to a Shutdown message the session runs
\* request_stop.
SessionSends(s) ==
    /\ \/ At(s, "sending") /\ Onward(s) /\ UNCHANGED back
       \/ /\ At(s, "sendingStop") /\ Goes(s, "stop") /\ UNCHANGED handled
          /\ back' = [back EXCEPT ![s] = "shutOwn"]
    /\ UNCHANGED <<flags, mu, todo, loaded, accepting, tables, descriptors, listener>>

\* A send in progress fails: shutdown() has released it, the peer has reset the
\* connection, or the transport gives up.  The handler shuts the socket down.
SessionSendFails(s) ==
    /\ InSend(s) /\ Onward(s)
    /\ shut' = shut \cup {socket[s]}
    /\ UNCHANGED <<flags, stopping, accepting, tables, socket, owner, listener>>

SessionShutsOwn(s) ==
    /\ At(s, "shutOwn") /\ shut' = shut \cup {socket[s]}
    /\ Onward(s)
    /\ UNCHANGED <<flags, stopping, accepting, tables, socket, owner, listener>>

\* close_session_socket
SessionCloses(s) ==
    /\ At(s, "closing") /\ Goes(s, "marking")
    /\ socket' = [socket EXCEPT ![s] = None]
    /\ Freed(socket[s])
    /\ UNCHANGED <<flags, stopping, accepting, tables, listener, handled>>

SessionMarks(s) ==
    /\ At(s, "marking") /\ mu = None
    /\ Goes(s, "done") /\ live' = [live EXCEPT ![s] = FALSE]
    /\ UNCHANGED <<flags, stopping, accepting, registry, threads, joining, descriptors, listener,
                   handled>>

\* What the thread does by itself, and what waits for its peer or its connection.
SessionProceeds(s) ==
    \/ SessionChecks(s) \/ SessionTimesOut(s) \/ SessionEnds(s) \/ SessionAnswers(s)
    \/ SessionShutsOwn(s) \/ SessionCloses(s) \/ SessionMarks(s)
PeerActs(s) == SessionReceives(s) \/ SessionSends(s) \/ SessionSendFails(s)

--------------------------------------------------------------------------------
Init ==
    /\ pc = [t \in Stoppers \cup {"accept"} |->
                CASE t = "main" -> "start" [] t = "watcher" -> "polling"
                  [] t = "accept" -> "check" [] OTHER -> "none"]
    /\ stop = FALSE /\ tornDown = FALSE /\ runActive = FALSE /\ signalled = FALSE
    /\ engineOpen = TRUE /\ listener = ListenerFd /\ failures = 0 /\ pending = None
    /\ mu = None /\ todo = {} /\ loaded = None /\ back = [t \in Stoppers |-> "done"]
    /\ registry = {} /\ threads = {} /\ joining = {} /\ live = [s \in Sessions |-> FALSE]
    /\ socket = [s \in Sessions |-> None] 
    /\ owner = [fd \in Descriptors |-> IF fd = ListenerFd THEN "listener" ELSE None]
    /\ shut = {} /\ handled = 0 /\ exitAfter \in ExitAfters

\* handle_signal
Signal ==
    /\ ~signalled /\ signalled' = TRUE
    /\ UNCHANGED <<pc, stop, tornDown, runActive, engineOpen, exitAfter, stopping, accepting, tables,
                   descriptors, listener, handled>>

\* All threads have ended; the process exits.
Exited == At("main", "done") /\ UNCHANGED vars

Next ==
    \/ \E t \in Stoppers : RequestStop(t) \/ Teardown(t)
    \/ Main \/ Watcher \/ Accept \/ Signal \/ Exited
    \/ \E s \in Sessions : SessionProceeds(s) \/ PeerActs(s)

\* The operating system runs every thread that can run, and accept() and select()
\* return.  Nothing is assumed of peers, signals or messages, nor that a send in
\* progress ever ends.
Fairness ==
    /\ \A t \in Stoppers : WF_vars(RequestStop(t) \/ Teardown(t))
    /\ WF_vars(Main) /\ WF_vars(Watcher) /\ WF_vars(AcceptChecks \/ AcceptRepeats \/ Registers)
    /\ \A s \in Sessions : WF_vars(SessionProceeds(s))

Spec == Init /\ [][Next]_vars /\ Fairness

--------------------------------------------------------------------------------
(* Properties *)

\* The engine is closed only when no accept or session thread can call it any more,
\* whoever asked for the stop and whichever thread did the teardown.
EngineOutlivesThreads ==
    ~engineOpen => At("accept", "done") /\ \A s \in Sessions : pc[s] \in {"none", "done"}

\* max_sessions bounds the sessions that hold a connection, those still closing
\* and those registered while others end included.
SessionsBounded == Cardinality({s \in Sessions : socket[s] # None}) <= MaxSessions

\* Every descriptor accept() returned is closed once, by its owner: a live socket
\* handle names a descriptor of its own session, and when the daemon ends none is
\* left open.
DescriptorsOwned ==
    /\ \A s \in Sessions : socket[s] # None => owner[socket[s]] = s
    /\ At("main", "done") => \A fd \in Descriptors : owner[fd] = None

\* teardown's comment: "no descriptor can be recycled while that thread is still
\* using it".  The accept thread polls and accepts on the listener and nothing else,
\* and a stop path that read the handle just before teardown closed the listener
\* never shuts down a connection that was given its descriptor.
ListenerNotRecycled ==
    /\ At("accept", "polling") => owner[listener] = "listener"
    /\ \A t \in Stoppers : At(t, "shutListener") => owner[ListenerFd] \in {"listener", None}

\* docs/CONCURRENCY_AUDIT.md, 2.6: once anyone has asked the server to stop, run()
\* returns, every thread is joined and the daemon ends, unless some session stays
\* forever in a send whose socket has been shut down, the residual of 2.6.  Where
\* shutdown() releases a send the premise always holds, whatever peers do; where it
\* does not, a peer that neither reads nor goes away keeps the daemon from ending.
\* A signal is such a request, unless there is a request budget: then the watcher
\* leaves on the signal and asks nobody to stop.
Stops ==
    (\A s \in Sessions : []<>~(InSend(s) /\ socket[s] \in shut))
        => (stop \/ (signalled /\ exitAfter = 0) ~> At("main", "done"))

=============================================================================
