-------------------------------- MODULE Applier --------------------------------
(***************************************************************************)
(* The external appliers (tools/lff-worker.cpp) at work for a Coordinator, *)
(* and an operator who revalidates what a restart interrupted.             *)
(*                                                                         *)
(* A worker claims the pending directives, a plain read of the attempt     *)
(* table, and works through that copy: it writes an effect file, reports   *)
(* the application, reads the file back and reports the verification.      *)
(* Between any two of these the worker may be killed, the coordinator may  *)
(* die and be replaced, and any other request may be served.  Each worker  *)
(* has an effect directory of its own, which its next process finds again. *)
(*                                                                         *)
(* A call is one step: a worker that waits for an answer does nothing else,*)
(* so that a worker killed while it waits is one killed after the answer.  *)
(* An empty file reads like a missing one, so only whole files are kept.   *)
(*                                                                         *)
(* The operator tells the truth as of the moment of the verdict, and gives *)
(* it once the workers that served earlier boots are gone.  Nothing in the *)
(* coordinator checks the second; the README says what follows without it. *)
(***************************************************************************)
EXTENDS Coordinator

CONSTANTS
    Workers,     \* effect directories, each with at most one worker process
    ClaimLimit   \* directives a worker asks for at a time

ASSUME ClaimLimitAssumption == ClaimLimit \in Nat \ {0}

Directive == [attempt: AttemptKeys, gen: Nat]

\* The command line: the default, --verify=false, and --reject.
Modes == {"verify", "trust", "reject"}

VARIABLES
    worker,   \* worker[w]: its place in the loop, its mode, the boot it is
              \* connected to, the directives it claimed and has not finished
    effects,  \* effects[w]: the directives whose effect file w's directory holds
    redone    \* history: directives whose effect file was opened again later

avars == <<vars, worker, effects, redone>>

NoWorker == [pc |-> "off", mode |-> "verify", boot |-> 0, todo |-> <<>>]

\* The session dies with the coordinator process.
Connected(w) == status = "up" /\ worker[w].boot = mem.epoch

Task(w) == Head(worker[w].todo)
Goes(w, pc) == worker' = [worker EXCEPT ![w].pc = pc]
Finishes(w) == worker' = [worker EXCEPT ![w].pc = "ready", ![w].todo = Tail(@)]

\* Every failed call or write ends the process.
Exits_Reconnects(w) == worker' = [worker EXCEPT ![w].boot = mem.epoch]
Exits(w) == worker' = [worker EXCEPT ![w] = NoWorker]

--------------------------------------------------------------------------------
(* The worker's loop *)

Connect(w, mode) ==
    /\ worker[w].pc = "off" /\ status = "up"
    /\ worker' = [worker EXCEPT ![w] = [NoWorker EXCEPT !.pc = "ready", !.mode = mode,
                                                        !.boot = mem.epoch]]
    /\ UNCHANGED <<vars, effects, redone>>

pending_directives_Uncommitted ==
    {k \in AttemptKeys : mem.attempts[k].phase \in {"Evaluated", "Authorized"}}
pending_directives_Unresolved ==
    {k \in AttemptKeys : mem.attempts[k].phase \in {"Authorized", "Interrupted"}}
pending_directives == {k \in AttemptKeys : mem.attempts[k].phase = "Authorized"}

\* The first directives in the order of subjects and sequences.  The engine
\* answers whether or not its store has failed.
Claim(w) ==
    /\ worker[w].pc = "ready" /\ worker[w].todo = <<>> /\ Connected(w)
    /\ pending_directives # {}
    /\ LET order == CHOOSE o \in Orders(pending_directives) :
                        \A i, j \in DOMAIN o : i < j => Before(o[i], o[j])
           first == {i \in DOMAIN order : i <= ClaimLimit}
       IN  worker' = [worker EXCEPT ![w].todo =
               [i \in first |-> [attempt |-> order[i], gen |-> mem.attempts[order[i]].gen]]]
    /\ UNCHANGED <<vars, effects, redone>>

\* write_effect opens the file with truncation, then writes it.
Starts(w) == worker[w].pc = "ready" /\ worker[w].todo # <<>>

OpenEffect_SkipsExisting(w) ==
    /\ Starts(w) /\ worker[w].mode # "reject"
    /\ effects' = effects /\ redone' = redone
    /\ IF Task(w) \in effects[w] THEN Finishes(w) ELSE Goes(w, "opened")
    /\ UNCHANGED vars
OpenEffect(w) ==
    /\ Starts(w) /\ worker[w].mode # "reject"
    /\ effects' = [effects EXCEPT ![w] = @ \ {Task(w)}]
    /\ redone' = redone \cup (effects[w] \cap {Task(w)})
    /\ Goes(w, "opened")
    /\ UNCHANGED vars

WriteFails_Unnoticed(w) == Goes(w, "written") /\ UNCHANGED effects
WriteFails(w) == Exits(w) /\ UNCHANGED effects

WriteEffect(w) ==
    /\ worker[w].pc = "opened"
    /\ \/ effects' = [effects EXCEPT ![w] = @ \cup {Task(w)}] /\ Goes(w, "written")
       \/ WriteFails(w)
    /\ UNCHANGED <<vars, redone>>

\* The record a report of w is about, if the engine finds it.
Found(w) == mem.attempts[Task(w).attempt].gen = Task(w).gen
Answers(w) == Connected(w) /\ health = "ok" /\ Found(w)

\* After an accepted or refused directive was reported, w verifies or goes on.
Reported(w, accepted) ==
    IF accepted /\ worker[w].mode = "verify" THEN Goes(w, "reported") ELSE Finishes(w)

\* The applier's call of record_application.  A late or second report is answered
\* with a decision, which w takes for an acknowledgement; an unknown attempt, a
\* failed store or a failed append is an error.
ReportApplication(w, accepted) ==
    LET k == Task(w).attempt IN
    /\ \/ accepted /\ worker[w].pc = "written"
       \/ ~accepted /\ Starts(w) /\ worker[w].mode = "reject"
    /\ Connected(w)
    /\ \/ ~Answers(w) /\ Exits(w) /\ UNCHANGED vars
       \/ Answers(w) /\ ~AwaitsApplication(mem.attempts[k]) /\ Reported(w, accepted)
                     /\ UNCHANGED vars
       \/ /\ Answers(w) /\ RecordApplication(k, accepted)
          /\ IF status' = "up" /\ mem'.attempts[k] # mem.attempts[k]
             THEN Reported(w, accepted) ELSE Exits(w)
    /\ UNCHANGED <<effects, redone>>

\* read_effect and the call of record_verification.
ReportVerification(w) ==
    LET k == Task(w).attempt IN
    /\ worker[w].pc = "reported" /\ Connected(w)
    /\ \/ ~Answers(w) /\ Exits(w) /\ UNCHANGED vars
       \/ Answers(w) /\ mem.attempts[k].phase # "Acknowledged" /\ Finishes(w) /\ UNCHANGED vars
       \/ /\ Answers(w) /\ RecordVerification(k, Task(w) \in effects[w])
          /\ IF status' = "up" /\ mem'.attempts[k].phase \in {"Committed", "Indeterminate"}
             THEN Finishes(w) ELSE Exits(w)
    /\ UNCHANGED <<effects, redone>>

\* The next call finds the connection closed.
LosesCoordinator(w) ==
    /\ ~Connected(w)
    /\ \/ worker[w].pc \in {"written", "reported"}
       \/ worker[w].pc = "ready" /\ (worker[w].todo = <<>> \/ worker[w].mode = "reject")
    /\ Exits(w)
    /\ UNCHANGED <<vars, effects, redone>>

Killed(w) ==
    /\ worker[w].pc # "off" /\ worker' = [worker EXCEPT ![w] = NoWorker]
    /\ UNCHANGED <<vars, effects, redone>>

Works(w) ==
    \/ Claim(w) \/ OpenEffect(w) \/ WriteEffect(w)
    \/ \E accepted \in BOOLEAN : ReportApplication(w, accepted)
    \/ ReportVerification(w) \/ LosesCoordinator(w)

--------------------------------------------------------------------------------
(* The other clients, and the coordinator's own end and start *)

InEffect(k, g) == \E w \in Workers : [attempt |-> k, gen |-> g] \in effects[w]

\* No worker of an earlier boot is left.
Settled == \A w \in Workers : worker[w].pc # "off" => worker[w].boot = mem.epoch

Truthful(k, verdict) ==
    CASE verdict = "Applied" -> Settled /\ InEffect(k, mem.attempts[k].gen)
      [] verdict = "NotApplied" -> Settled /\ ~InEffect(k, mem.attempts[k].gen)
      [] verdict = "Unknown" -> TRUE

Requests ==
    \/ \E l \in Links, key \in Keys \cup {NoKey} :
          \/ GateRefuses(l, key)
          \/ \E phase \in {"Refused", "Indeterminate"} : RefuseAttempt(l, key, phase)
          \/ Grant(l, key)
    \/ \E k \in AttemptKeys :
          \/ \E key \in Keys \cup {NoKey} : RequestRollback(k, key)
          \/ \E verdict \in Verdicts : Truthful(k, verdict) /\ ResolveInterrupted(k, verdict)
    \/ \E p \in DOMAIN PolicyOf : SetPolicy(p)
    \/ \E t \in DOMAIN LinkGen : SetTopology(t)
    \/ Checkpoint

Coordinates == (Requests \/ Close \/ Crash \/ Open) /\ UNCHANGED <<worker, effects, redone>>

ApplierInit ==
    /\ Init
    /\ worker = [w \in Workers |-> NoWorker]
    /\ effects = [w \in Workers |-> {}] /\ redone = {}

ApplierNext ==
    \/ Coordinates
    \/ \E w \in Workers :
          (\E mode \in Modes : Connect(w, mode)) \/ Works(w) \/ Killed(w)

\* A running worker keeps going; nothing else is promised.
ApplierSpec ==
    ApplierInit /\ [][ApplierNext]_avars /\ \A w \in Workers : WF_avars(Works(w))

--------------------------------------------------------------------------------
(* Properties *)

\* Every variable has its shape, and a worker has at most the directives of one
\* claim in hand.
ApplierTypeOK ==
    /\ TypeOK
    /\ worker \in [Workers -> [pc: {"off", "ready", "opened", "written", "reported"},
                               mode: Modes, boot: Nat, todo: AtMost(ClaimLimit, Directive)]]
    /\ effects \in [Workers -> SUBSET Directive] /\ redone \in SUBSET Directive

\* README, invariant 6, as an applier sees it: what a worker of the running
\* coordinator has in hand was granted by that coordinator, never by a predecessor
\* whose attempts the restart interrupted.
NoStaleDirective ==
    \A w \in Workers :
        Connected(w) =>
            \A i \in DOMAIN worker[w].todo :
                LET d == worker[w].todo[i]
                    a == mem.attempts[d.attempt]
                IN  a.gen > d.gen \/ (a.gen = d.gen /\ a.epoch = mem.epoch)

\* include/lff/engine.hpp, ApplyDirective: the authority is the durable grant the
\* directive was derived from.  An effect in place has a grant on the medium, or the
\* record of a newer generation in its place, even when the grant's own handler
\* failed or died half way and its caller was told nothing.
EffectHasGrant ==
    \A w \in Workers : \A d \in effects[w] :
        LET a == durable.attempts[d.attempt] IN
        a.gen > d.gen \/ (a.gen = d.gen /\ a.phase \notin {"Absent", "Evaluated", "Refused"})

\* README, invariant 7: a committed attempt, in memory or on the medium, is in
\* effect, with workers killed and restarted at any point and two of them on the
\* same directive.  Excepted is an effect whose file a worker that started over has
\* truncated: it may die before it wrote the file again.
CommittedHasEffect ==
    \A d \in {mem, durable} : \A k \in AttemptKeys :
        d.attempts[k].phase = "Committed" =>
            \/ InEffect(k, d.attempts[k].gen)
            \/ [attempt |-> k, gen |-> d.attempts[k].gen] \in redone

\* A verdict of NotApplied stays true: once it is given, no worker brings the
\* effect about after all.
DeniedHasNoEffect ==
    \A k \in AttemptKeys :
        durable.attempts[k].revalidation = "NotApplied" => ~InEffect(k, durable.attempts[k].gen)

\* include/lff/engine.hpp, applier boundary: a granted attempt exposes its directive
\* until a report arrives, and while some worker stays up and connected one does.
PendingAnswered ==
    (\E w \in Workers : <>[](worker[w].pc # "off" /\ Connected(w))) =>
        \A k \in AttemptKeys :
            mem.attempts[k].phase = "Authorized" ~> mem.attempts[k].phase # "Authorized"

=============================================================================
