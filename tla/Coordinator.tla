------------------------------ MODULE Coordinator ------------------------------
(***************************************************************************)
(* The failover engine (src/engine.cpp) over its durable lineage           *)
(* (src/store.cpp): the attempt table, the grant, application,             *)
(* verification, rollback and revalidation handlers, policy and topology   *)
(* changes, compaction, clean shutdown, crash and restart.                 *)
(*                                                                         *)
(* Every public method of Engine runs under one mutex, so a handler is one *)
(* action.  It is not one durable step: it appends several records, and    *)
(* the process may die, or an append may fail, between any two of them.    *)
(* An action therefore builds the chain of lineage states its appends      *)
(* produce and ends in one of the outcomes of Handler below.               *)
(*                                                                         *)
(* Abstractions.  The evidence verdict and the selected alternate are      *)
(* inputs here.  Requests that return before any append (wrong fabric,     *)
(* stale generation, expectation mismatch, idempotent replay, exhausted    *)
(* budget, late or duplicate report) change nothing and are not actions.   *)
(* A coordinator incarnation is fresh at every boot, so the epoch stands   *)
(* for the (epoch, coordinator) pair.  Links are numbers that stand for    *)
(* names in their order.                                                   *)
(*                                                                         *)
(* A definition whose name continues that of the next one after an         *)
(* underscore is a seeded fault of it, used to show that a property can    *)
(* fail.                                                                   *)
(***************************************************************************)
EXTENDS AttemptPhases, Integers, FiniteSets, Sequences

CONSTANTS
    Links,          \* the links an attempt may have as its subject
    Keys,           \* caller-supplied idempotency keys
    NoKey,          \* the zero digest: the caller gave no key
    PolicyOf,       \* PolicyOf[p]: content of the policy of generation p
    LinkGen,        \* LinkGen[t][l]: generation of l in topology t, 0 if absent
    MaxBudget,      \* largest max_attempts_per_generation of any policy
    MaxAttempts,    \* EngineLimits::max_attempts
    MaxFences,      \* EngineLimits::max_fences
    MaxIdempotency, \* EngineLimits::max_idempotency
    MaxEpoch        \* bound: boots explored

ASSUME LinksAssumption == Links \subseteq Nat /\ IsFiniteSet(Links)
ASSUME NoKeyAssumption == NoKey \notin Keys
ASSUME PolicyAssumption ==
    /\ PolicyOf # <<>>
    /\ PolicyOf \in Seq([enabled: BOOLEAN, verified: BOOLEAN, budget: 1..MaxBudget])
ASSUME TopologyAssumption == LinkGen # <<>> /\ LinkGen \in Seq([Links -> Nat])
\* The attempt table has room for one in-flight attempt per link, so a record
\* that only changes phase never overflows it.
ASSUME LimitsAssumption ==
    /\ MaxBudget \in Nat /\ MaxFences \in Nat /\ MaxIdempotency \in Nat
    /\ MaxEpoch \in Nat /\ MaxAttempts \in Nat
    /\ MaxAttempts >= Cardinality(Links)

Seqs == 1..MaxBudget
AttemptKeys == Links \X Seqs
Verdicts == {"NotApplied", "Applied", "Unknown"}

Attempt ==
    [phase: Phases \cup {"Absent"}, gen: Nat, epoch: Nat, policy: Nat,
     topology: Nat, revalidation: Verdicts \cup {"None"}]
NoAttempt ==
    [phase |-> "Absent", gen |-> 0, epoch |-> 0, policy |-> 0, topology |-> 0,
     revalidation |-> "None"]

FenceKinds ==
    {"PreRestartAuthority", "PolicyChanged", "TopologyChanged", "RollbackRevoked"}
Fence == [kind: FenceKinds, attempt: AttemptKeys, gen: Nat]
Entry == [key: Keys, attempt: AttemptKeys, gen: Nat]

AtMost(n, S) == {s \in Seq(S) : Len(s) <= n}

\* DurableState: what the journal and the snapshot together encode.  uncovered
\* says that a Fence record lies in the journal beyond the snapshot.
DurableState ==
    [epoch: Nat, policy: DOMAIN PolicyOf, topology: DOMAIN LinkGen,
     attempts: [AttemptKeys -> Attempt], fences: AtMost(MaxFences, Fence),
     idempotency: AtMost(MaxIdempotency, Entry), uncovered: BOOLEAN]
Fresh ==
    [epoch |-> 0, policy |-> 1, topology |-> 1,
     attempts |-> [k \in AttemptKeys |-> NoAttempt], fences |-> <<>>,
     idempotency |-> <<>>, uncovered |-> FALSE]

VARIABLES
    status,    \* is a coordinator process serving this lineage
    mem,       \* the serving process's in-memory DurableState
    durable,   \* the DurableState a replay of the medium would produce
    stale,     \* the snapshot is ahead of a journal that was never rotated
    health,    \* Engine's store_failed and LineageStore's failed
    standing,  \* history: [attempt, gen] granted or re-bound, not revoked since
    acked      \* history: grants answered to the caller as durable

vars == <<status, mem, durable, stale, health, standing, acked>>

--------------------------------------------------------------------------------
(* Reading and writing the attempt table *)

Before(j, k) == j[1] < k[1] \/ (j[1] = k[1] /\ j[2] < k[2])

\* Erase the first terminal records, in (subject, seq) order, until the table
\* fits or holds no terminal record.
evict_attempts_OneShort(t) ==
    LET used   == {k \in AttemptKeys : t[k].phase # "Absent"}
        final  == {k \in used : t[k].phase \in Terminal}
        excess == Cardinality(used) - MaxAttempts - 1
        victims == {k \in final : Cardinality({j \in final : Before(j, k)}) < excess}
    IN  [k \in AttemptKeys |-> IF k \in victims THEN NoAttempt ELSE t[k]]
evict_attempts(t) ==
    LET used   == {k \in AttemptKeys : t[k].phase # "Absent"}
        final  == {k \in used : t[k].phase \in Terminal}
        excess == Cardinality(used) - MaxAttempts
        victims == {k \in final : Cardinality({j \in final : Before(j, k)}) < excess}
    IN  [k \in AttemptKeys |-> IF k \in victims THEN NoAttempt ELSE t[k]]

\* Records are keyed by (subject, seq): a record of another generation with the
\* same sequence is replaced.
note_attempt(d, k, a) ==
    [d EXCEPT !.attempts = evict_attempts([@ EXCEPT ![k] = a])]

\* evict_fences and evict_idempotency: the oldest entries go.
KeepLast_OneTooMany(s, n) ==
    IF Len(s) <= n + 1 THEN s ELSE SubSeq(s, Len(s) - n, Len(s))
KeepLast(s, n) == IF Len(s) <= n THEN s ELSE SubSeq(s, Len(s) - n + 1, Len(s))

note_fence(d, kind, k) ==
    [d EXCEPT !.fences = KeepLast(Append(@, [kind |-> kind, attempt |-> k,
                                             gen |-> d.attempts[k].gen]), MaxFences),
              !.uncovered = TRUE]

note_idempotency(d, key, k, g) ==
    [d EXCEPT !.idempotency =
        KeepLast(Append(@, [key |-> key, attempt |-> k, gen |-> g]), MaxIdempotency)]

find_idempotency(d, key) == \E i \in DOMAIN d.idempotency : d.idempotency[i].key = key

\* The attempts of one generation of a link.
Of(d, l, g) == {q \in Seqs : d.attempts[<<l, q>>].phase # "Absent"
                             /\ d.attempts[<<l, q>>].gen = g}

count_attempts_LiveOnly(d, l, g) ==
    Cardinality({q \in Of(d, l, g) : d.attempts[<<l, q>>].phase \notin Terminal})
count_attempts(d, l, g) == Cardinality(Of(d, l, g))

active_authority_UntilCommitted(d, l, g) ==
    {q \in Of(d, l, g) : /\ d.attempts[<<l, q>>].phase \in HoldsAuthority \ {"Committed"}
                         /\ d.attempts[<<l, q>>].epoch = d.epoch}
active_authority(d, l, g) ==
    {q \in Of(d, l, g) : /\ d.attempts[<<l, q>>].phase \in HoldsAuthority
                         /\ d.attempts[<<l, q>>].epoch = d.epoch}

\* latest_attempt: none or one sequence, the highest of its generation.
latest_attempt(d, l, g) == {q \in Of(d, l, g) : \A r \in Of(d, l, g) : r <= q}

\* The attempt that closes the pre-restart revalidation gate.  A verdict of
\* Unknown leaves it Interrupted, and the gate closed.
interrupted_attempt_UnansweredOnly(d, l, g) ==
    {q \in latest_attempt(d, l, g) : /\ d.attempts[<<l, q>>].phase = "Interrupted"
                                     /\ d.attempts[<<l, q>>].revalidation = "None"}
interrupted_attempt(d, l, g) ==
    {q \in latest_attempt(d, l, g) : d.attempts[<<l, q>>].phase = "Interrupted"}

--------------------------------------------------------------------------------
(* How the appends of a handler can end.  c[1] is the state the handler found
   and c[i + 1] the state after its i-th append. *)

Written(c) ==
    /\ mem' = c[Len(c)] /\ durable' = c[Len(c)]
    /\ UNCHANGED <<status, health, stale>>

\* The process dies between two appends: no answer, memory lost.
Dies(c) ==
    /\ \E i \in DOMAIN c : durable' = c[i]
    /\ status' = "down" /\ mem' = Fresh /\ health' = "ok"
    /\ UNCHANGED stale

\* The i-th append reports an error.  Memory stops before it; the medium may
\* hold the record or not.  The store refuses every later append.
AppendFails(c, i) ==
    /\ i \in 1..(Len(c) - 1)
    /\ mem' = c[i] /\ durable' \in {c[i], c[i + 1]}
    /\ health' = "storeFailed"
    /\ UNCHANGED <<status, stale>>

\* LineageStore::checkpoint of state d by a serving process: write the
\* snapshot, rotate the journal, record the checkpoint.
Compacts(d) ==
    LET rotated == [d EXCEPT !.uncovered = FALSE] IN
    /\ UNCHANGED status
    /\ \/ /\ mem' = rotated /\ durable' = rotated
          /\ health' \in {health, "storeFailed"}  \* the Checkpoint append may fail
          /\ UNCHANGED stale
       \/ /\ mem' = d /\ durable' = d            \* the snapshot was not written
          /\ health' = "engineFailed"
          /\ UNCHANGED stale
       \/ /\ mem' = d /\ durable' = d            \* the journal was not rotated
          /\ health' = "storeFailed" /\ stale' = TRUE

CompactDies(d) ==
    /\ \/ durable' = d /\ stale' = TRUE
       \/ durable' = [d EXCEPT !.uncovered = FALSE] /\ UNCHANGED stale
    /\ status' = "down" /\ mem' = Fresh /\ health' = "ok"

Handler(c) == Written(c) \/ Dies(c) \/ \E i \in DOMAIN c : AppendFails(c, i)

\* maybe_checkpoint ends the handler.  Whether snapshot_every_records appends
\* have accumulated is left open: the threshold is a free option.
HandlerMayCompact(c) == Handler(c) \/ Compacts(c[Len(c)]) \/ CompactDies(c[Len(c)])

\* History, as the callers see it.  A handler gave attempt k authority for
\* generation g, or wrote the attempts in ks and may have taken theirs.  What no
\* handler wrote keeps its standing, whatever becomes of its record.
Holding(d, k, g) == d.attempts[k].gen = g /\ d.attempts[k].phase \in HoldsAuthority
Granted(k, g) ==
    standing' = IF status' = "down" THEN {}
                ELSE standing \cup {r \in {[attempt |-> k, gen |-> g]} : Holding(mem', k, g)}
Revoked(ks) ==
    standing' = IF status' = "down" THEN {}
                ELSE {r \in standing : r.attempt \in ks => Holding(mem', r.attempt, r.gen)}

\* commit_decision, then commit_idempotency when the caller gave a key.
Settle_WithoutIndex(d, key, k, g) == <<d>>
Settle(d, key, k, g) ==
    IF key = NoKey THEN <<d>> ELSE <<d, note_idempotency(d, key, k, g)>>

--------------------------------------------------------------------------------
(* request_failover *)

\* The checks every branch below has passed: engine open and healthy, key not
\* replayed, subject in the topology, failover enabled, no authority held.
Admitted(l, key) ==
    /\ status = "up" /\ health = "ok"
    /\ ~find_idempotency(mem, key)
    /\ LinkGen[mem.topology][l] # 0
    /\ PolicyOf[mem.policy].enabled
    /\ active_authority(mem, l, LinkGen[mem.topology][l]) = {}

\* The pre-restart revalidation gate: only the decision is recorded.
GateRefuses(l, key) ==
    LET g == LinkGen[mem.topology][l] IN
    /\ Admitted(l, key)
    /\ \E q \in interrupted_attempt(mem, l, g) :
          HandlerMayCompact(<<mem>> \o Settle(mem, key, <<l, q>>, g))
    /\ Revoked({})
    /\ UNCHANGED acked

\* The attempt a request past the gate would create, within the budget.
NextAttempt(l) ==
    <<l, count_attempts(mem, l, LinkGen[mem.topology][l]) + 1>>

Evaluates(l, key) ==
    /\ Admitted(l, key)
    /\ interrupted_attempt(mem, l, LinkGen[mem.topology][l]) = {}
    /\ count_attempts(mem, l, LinkGen[mem.topology][l]) < PolicyOf[mem.policy].budget

\* The failure is not established, or no alternate is selected: the attempt is
\* recorded Refused or Indeterminate and holds no authority.
RefuseAttempt(l, key, phase) ==
    LET g == LinkGen[mem.topology][l]
        k == NextAttempt(l)
        d == note_attempt(mem, k, [NoAttempt EXCEPT !.phase = phase, !.gen = g])
    IN  /\ Evaluates(l, key)
        /\ HandlerMayCompact(<<mem, d>> \o Settle(d, key, k, g))
        /\ Revoked({})
        /\ UNCHANGED acked

\* The grant: an Evaluated intent record, then the Authorized record.
GrantChain(l, key) ==
    LET g == LinkGen[mem.topology][l]
        k == NextAttempt(l)
        intent == [phase |-> "Evaluated", gen |-> g, epoch |-> mem.epoch,
                   policy |-> mem.policy, topology |-> mem.topology,
                   revalidation |-> "None"]
        d1 == note_attempt(mem, k, intent)
        d2 == note_attempt(d1, k, [intent EXCEPT !.phase = "Authorized"])
    IN  <<mem, d1, d2>> \o Settle(d2, key, k, g)

\* The caller is answered with a durable Grant once commit_decision succeeded,
\* the third append; the idempotency entry is the fourth.
Grant(l, key) ==
    LET c == GrantChain(l, key)
        k == NextAttempt(l)
        answer(indexed) == [attempt |-> k, gen |-> LinkGen[mem.topology][l],
                            epoch |-> mem.epoch, key |-> key, indexed |-> indexed]
    IN  /\ Evaluates(l, key)
        /\ \/ /\ Written(c) \/ Compacts(c[Len(c)])
              /\ acked' = acked \cup {answer(key # NoKey)}
           \/ /\ Dies(c) \/ CompactDies(c[Len(c)])
              /\ UNCHANGED acked
           \/ \E i \in DOMAIN c :
                 /\ AppendFails(c, i)
                 /\ acked' = IF i >= 4 THEN acked \cup {answer(FALSE)} ELSE acked
        /\ Granted(k, LinkGen[mem.topology][l])

--------------------------------------------------------------------------------
(* The applier's reports *)

\* A report for an attempt in any other phase is answered and not recorded.
AwaitsApplication_TakesLateReports(a) == a.phase \in {"Authorized", "Aborted"}
AwaitsApplication(a) == a.phase = "Authorized"

\* record_application.
RecordApplication(k, accepted) ==
    LET a == mem.attempts[k]
        phase == CASE ~accepted -> "Aborted"
                   [] accepted /\ PolicyOf[mem.policy].verified -> "Acknowledged"
                   [] OTHER -> "Committed"
        d == note_attempt(mem, k, [a EXCEPT !.phase = phase])
    IN  /\ status = "up" /\ health = "ok"
        /\ AwaitsApplication(a)
        /\ HandlerMayCompact(<<mem, d, d>>)
        /\ Revoked({k})
        /\ UNCHANGED acked

\* record_verification of an acknowledged attempt: an unobserved effect ends it
\* Indeterminate, an observed one is written Verified and then Committed.
RecordVerification(k, observed) ==
    LET a == mem.attempts[k]
        At(phase) == note_attempt(mem, k, [a EXCEPT !.phase = phase])
    IN  /\ status = "up" /\ health = "ok"
        /\ a.phase = "Acknowledged"
        /\ \/ /\ ~observed
              /\ Handler(<<mem, At("Indeterminate"), At("Indeterminate")>>)
           \/ /\ observed
              /\ HandlerMayCompact(<<mem, At("Verified"), At("Committed"),
                                     At("Committed")>>)
        /\ Revoked({k})
        /\ UNCHANGED acked

--------------------------------------------------------------------------------
(* Rollback, revalidation, policy and topology.  None of these looks at
   Engine's store_failed; the store itself refuses appends once it failed. *)

CanAppend == status = "up" /\ health # "storeFailed"

RequestRollback(k, key) ==
    LET a == mem.attempts[k]
        d1 == note_attempt(mem, k, [a EXCEPT !.phase = "RolledBack"])
        d2 == note_fence(d1, "RollbackRevoked", k)
    IN  /\ CanAppend
        /\ ~find_idempotency(mem, key)
        /\ a.phase \in HoldsAuthority
        /\ Handler(<<mem, d1, d2>> \o Settle(d2, key, k, a.gen))
        /\ Revoked({k})
        /\ UNCHANGED acked

\* What a verdict makes of an interrupted attempt.  Applied re-binds it to the
\* current epoch, policy and topology.
Revalidated_KeepsOldBinding(d, a, verdict) ==
    [a EXCEPT !.revalidation = verdict,
              !.phase = IF verdict = "Applied" THEN "Committed" ELSE "Aborted"]
Revalidated(d, a, verdict) ==
    LET seen == [a EXCEPT !.revalidation = verdict] IN
    CASE verdict = "NotApplied" -> [seen EXCEPT !.phase = "Aborted"]
      [] verdict = "Applied" ->
            [seen EXCEPT !.phase = "Committed", !.epoch = d.epoch,
                         !.policy = d.policy, !.topology = d.topology]
      [] verdict = "Unknown" -> seen

\* resolve_interrupted, for a request that names the current epoch.
ResolveInterrupted(k, verdict) ==
    LET a == mem.attempts[k]
        d == note_attempt(mem, k, Revalidated(mem, a, verdict))
    IN  /\ CanAppend
        /\ a.phase = "Interrupted" /\ a.revalidation = "None"
        /\ Handler(<<mem, d, d>>)
        /\ Granted(k, a.gen)
        /\ UNCHANGED acked

\* The table is scanned in storage order, which is any order.
Orders(S) == {o \in [1..Cardinality(S) -> S] : \A k \in S : \E i \in DOMAIN o : o[i] = k}

\* The state after n appends of a fencing pass over the attempts o: for each one
\* an AttemptUpdate to the given phase, then a Fence record.
Fenced(d, o, kind, phase, n) ==
    [d EXCEPT
        !.attempts = [k \in AttemptKeys |->
            IF \E j \in DOMAIN o : o[j] = k /\ 2 * j - 1 <= n
            THEN [d.attempts[k] EXCEPT !.phase = phase] ELSE d.attempts[k]],
        !.fences = KeepLast(@ \o [j \in 1..(n \div 2) |->
            [kind |-> kind, attempt |-> o[j], gen |-> d.attempts[o[j]].gen]], MaxFences),
        !.uncovered = @ \/ n >= 2]

FencingPass(d, o, kind, phase) ==
    [i \in 1..(2 * Len(o) + 1) |-> Fenced(d, o, kind, phase, i - 1)]

\* The attempts fence_active_authorities revokes, of whatever epoch.
Holders_InFlightOnly(d) ==
    {k \in AttemptKeys : d.attempts[k].phase \in HoldsAuthority \ Terminal}
Holders(d) == {k \in AttemptKeys : d.attempts[k].phase \in HoldsAuthority}

\* set_policy and set_topology: only a newer generation is written; then
\* fence_active_authorities aborts every attempt that holds authority.
Redefine(d, kind) ==
    /\ CanAppend
    /\ \E o \in Orders(Holders(mem)) :
          Handler(<<mem>> \o FencingPass(d, o, kind, "Aborted"))
    /\ Revoked(Holders(mem))
    /\ UNCHANGED acked

SetPolicy(p) ==
    p > mem.policy /\ Redefine([mem EXCEPT !.policy = p], "PolicyChanged")

SetTopology(t) ==
    t > mem.topology /\ Redefine([mem EXCEPT !.topology = t], "TopologyChanged")

--------------------------------------------------------------------------------
(* Compaction, shutdown, crash, restart *)

Checkpoint ==
    /\ CanAppend
    /\ Compacts(mem) \/ CompactDies(mem)
    /\ Revoked({})
    /\ UNCHANGED acked

\* Engine::close: a Shutdown record and a final checkpoint, unless the store
\* has failed or fails now; either way the process ends.
Close ==
    /\ status = "up"
    /\ \/ UNCHANGED <<durable, stale>>
       \/ CanAppend /\ durable' = mem /\ stale' = TRUE
       \/ CanAppend /\ durable' = [mem EXCEPT !.uncovered = FALSE] /\ UNCHANGED stale
    /\ status' = "down" /\ mem' = Fresh /\ health' = "ok"
    /\ standing' = {}
    /\ UNCHANGED acked

Crash ==
    /\ status = "up"
    /\ status' = "down" /\ mem' = Fresh /\ health' = "ok"
    /\ standing' = {}
    /\ UNCHANGED <<durable, stale, acked>>

\* LineageStore::open refuses a journal whose Fence records it must replay (they
\* carry sequence 0) and a journal that the snapshot has left behind.
Openable == ~stale /\ ~durable.uncovered

\* Engine::open: replay, a Boot record with the next epoch, then
\* fence_restart_authority interrupts every attempt in flight.
Open ==
    LET boot == [durable EXCEPT !.epoch = @ + 1]
        flying == {k \in AttemptKeys : durable.attempts[k].phase \in InFlight}
    IN  /\ status = "down" /\ Openable
        /\ durable.epoch < MaxEpoch
        /\ \E o \in Orders(flying) :
              LET c == <<durable>> \o FencingPass(boot, o, "PreRestartAuthority", "Interrupted")
              IN  \/ /\ mem' = c[Len(c)] /\ durable' = c[Len(c)]
                     /\ status' = "up"
                  \/ /\ \E i \in DOMAIN c : durable' = c[i]   \* died or failed
                     /\ UNCHANGED <<status, mem>>
        /\ UNCHANGED <<stale, health, standing, acked>>

--------------------------------------------------------------------------------
Init ==
    /\ status = "down" /\ mem = Fresh /\ durable = Fresh
    /\ stale = FALSE /\ health = "ok"
    /\ standing = {} /\ acked = {}

\* The requests the engine serves that may append to the lineage.
Serves ==
    \/ \E l \in Links, key \in Keys \cup {NoKey} :
          \/ GateRefuses(l, key)
          \/ \E phase \in {"Refused", "Indeterminate"} : RefuseAttempt(l, key, phase)
          \/ Grant(l, key)
    \/ \E k \in AttemptKeys :
          \/ \E yes \in BOOLEAN : RecordApplication(k, yes) \/ RecordVerification(k, yes)
          \/ \E key \in Keys \cup {NoKey} : RequestRollback(k, key)
          \/ \E verdict \in Verdicts : ResolveInterrupted(k, verdict)
    \/ \E p \in DOMAIN PolicyOf : SetPolicy(p)
    \/ \E t \in DOMAIN LinkGen : SetTopology(t)
    \/ Checkpoint

Next == Serves \/ Close \/ Crash \/ Open

Spec == Init /\ [][Next]_vars

--------------------------------------------------------------------------------
(* Properties *)

Answer ==
    [attempt: AttemptKeys, gen: Nat, epoch: Nat, key: Keys \cup {NoKey},
     indexed: BOOLEAN]

\* Every variable has its shape, and the fence and idempotency tables, in memory
\* and as a replay would rebuild them, never outgrow EngineLimits (README,
\* invariant 10).
TypeOK ==
    /\ status \in {"down", "up"} /\ health \in {"ok", "engineFailed", "storeFailed"}
    /\ stale \in BOOLEAN
    /\ mem \in DurableState /\ durable \in DurableState
    /\ standing \in SUBSET [attempt: AttemptKeys, gen: Nat]
    /\ acked \in SUBSET Answer

\* README, invariant 10, for the attempt table: it stays within max_attempts even
\* though evict_attempts gives up when every record is in flight.
AttemptsBounded ==
    \A d \in {mem, durable} :
        Cardinality({k \in AttemptKeys : d.attempts[k].phase # "Absent"}) <= MaxAttempts

\* Single winner (README, invariant 2): of all the attempts the running process
\* has granted or re-bound and not revoked, no two are for the same link
\* generation, whatever refusals, rollbacks, restarts, revalidations and
\* redefinitions came between the two requests.
SingleWinner ==
    \A r, s \in standing : r.attempt[1] = s.attempt[1] /\ r.gen = s.gen => r = s

\* An attempt that was granted or re-bound and not revoked still holds authority
\* in the table under the current epoch, so active_authority can exclude a
\* second one.  The one exception is a record that an attempt of a newer
\* generation of the link has taken the place of.
StandingIsActive ==
    \A r \in standing :
        LET a == mem.attempts[r.attempt] IN
        \/ a.gen > r.gen
        \/ Holding(mem, r.attempt, r.gen) /\ a.epoch = mem.epoch

\* A claim: an attempt whose replacement may be, or may come to be, in effect by
\* the current coordinator's doing, or by an interrupted predecessor's.
Undecided(a) == a.phase \in InFlight \cup {"Interrupted"}
Claims(d) ==
    {k \in AttemptKeys : \/ Undecided(d.attempts[k])
                         \/ /\ d.attempts[k].phase \in HoldsAuthority
                            /\ d.attempts[k].epoch = d.epoch}

\* A link generation never has two open claims: an unresolved interrupted attempt
\* and a new grant exclude each other.
OneClaim ==
    \A j, k \in Claims(mem) :
        j[1] = k[1] /\ mem.attempts[j].gen = mem.attempts[k].gen => j = k

\* README, invariant 9.  While the lineage accepts appends, an attempt that holds
\* authority in the current epoch was granted or re-bound under the current
\* policy and topology: every change of either fenced what came before.
LiveBinding ==
    status = "up" /\ health # "storeFailed" =>
        \A k \in AttemptKeys :
            mem.attempts[k].phase \in HoldsAuthority /\ mem.attempts[k].epoch = mem.epoch =>
                /\ mem.attempts[k].policy = mem.policy
                /\ mem.attempts[k].topology = mem.topology

\* A grant answered as durable is on the medium for good: a replay finds the
\* attempt past Evaluated, or an attempt of a newer generation in its place.
AckedDurable ==
    \A r \in acked :
        LET a == durable.attempts[r.attempt] IN
        \/ a.gen > r.gen
        \/ a.gen = r.gen /\ a.phase \in HoldsAuthority
                               \cup {"Interrupted", "Aborted", "RolledBack", "Indeterminate"}

\* An attempt identity (subject, generation, sequence) is granted once, across
\* restarts too, and so is an idempotency key whose index entry was written.
GrantedOnce ==
    \A r, s \in acked :
        \/ r.attempt = s.attempt /\ r.gen = s.gen
        \/ r.key = s.key /\ r.key # NoKey /\ r.indexed /\ s.indexed
        => r = s

\* The phases no event leads out of.
Dead == {"Refused", "Indeterminate", "RolledBack", "Aborted", "Superseded"}

\* README, invariants 8 and 9: what the medium records as revoked, refused or
\* unverified stays so.  No late report, restart or revalidation revives it; only
\* an attempt of a newer generation may take its place.
NoResurrection ==
    [][\A k \in AttemptKeys :
          LET a == durable.attempts[k]
              b == durable'.attempts[k]
          IN  a.phase \in Dead => b = a \/ b.gen > a.gen]_vars

=============================================================================
