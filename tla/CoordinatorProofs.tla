--------------------------- MODULE CoordinatorProofs ---------------------------
(***************************************************************************)
(* Theorems about Coordinator, for every set of links, sequence of         *)
(* policies and topologies, and every limit.                               *)
(***************************************************************************)
EXTENDS Coordinator, FiniteSetTheorems, SequenceTheorems, NaturalsInduction, TLAPS

(***************************************************************************)
(* Finiteness and the operators on tables.                                 *)
(***************************************************************************)

\* The attempt keys are finitely many, so every set of them has a cardinality.
LEMMA KeysFinite ==
    /\ IsFiniteSet(Seqs) /\ IsFiniteSet(AttemptKeys)
    /\ \A S \in SUBSET AttemptKeys : IsFiniteSet(S) /\ Cardinality(S) \in Nat
    /\ \A S \in SUBSET Seqs : IsFiniteSet(S) /\ Cardinality(S) \in Nat
<1>1. IsFiniteSet(Seqs)
  BY FS_Interval, LimitsAssumption DEF Seqs
<1>2. IsFiniteSet(AttemptKeys)
  BY <1>1, LinksAssumption, FS_Product DEF AttemptKeys
<1>3. QED
  BY <1>1, <1>2, FS_Subset, FS_CardinalityType

\* KeepLast drops elements until the limit is kept and invents none.
LEMMA KeepLastType ==
    ASSUME NEW S, NEW s \in Seq(S), NEW n \in Nat
    PROVE  KeepLast(s, n) \in AtMost(n, S)
<1>1. CASE Len(s) <= n
  BY <1>1 DEF KeepLast, AtMost
<1>2. CASE Len(s) > n
  <2>1. /\ Len(s) \in Nat
        /\ \A i \in (Len(s) - n + 1)..Len(s) : s[i] \in S
    BY <1>2
  <2>2. /\ SubSeq(s, Len(s) - n + 1, Len(s)) \in Seq(S)
        /\ Len(SubSeq(s, Len(s) - n + 1, Len(s))) = n
    <3>1. /\ Len(s) - n + 1 \in Int /\ Len(s) \in Int
      BY <2>1
    <3>2. QED
      BY <2>1, <3>1, SubSeqProperties, <1>2
  <2>3. KeepLast(s, n) = SubSeq(s, Len(s) - n + 1, Len(s))
    BY <1>2, <2>1 DEF KeepLast
  <2>4. QED
    BY <2>2, <2>3 DEF AtMost
<1>3. Len(s) \in Nat
  OBVIOUS
<1>4. QED
  BY <1>1, <1>2, <1>3

\* The initial state of a lineage is a lineage state, if the store has room at all.
LEMMA FreshType == Fresh \in DurableState
<1>1. NoAttempt \in Attempt
  BY DEF NoAttempt, Attempt
<1>2. 1 \in DOMAIN PolicyOf /\ 1 \in DOMAIN LinkGen
  BY PolicyAssumption, TopologyAssumption
<1>3. <<>> \in AtMost(MaxFences, Fence) /\ <<>> \in AtMost(MaxIdempotency, Entry)
  BY LimitsAssumption DEF AtMost
<1>4. QED
  BY <1>1, <1>2, <1>3 DEF Fresh, DurableState

\* Writing an attempt record keeps the lineage state well formed, evictions included.
LEMMA NoteAttemptType ==
    ASSUME NEW d \in DurableState, NEW k \in AttemptKeys, NEW a \in Attempt
    PROVE  note_attempt(d, k, a) \in DurableState
<1>1. NoAttempt \in Attempt
  BY DEF NoAttempt, Attempt
<1>2. d.attempts \in [AttemptKeys -> Attempt]
  BY DEF DurableState
<1>3. [d.attempts EXCEPT ![k] = a] \in [AttemptKeys -> Attempt]
  BY <1>2
<1>4. \A t \in [AttemptKeys -> Attempt] : evict_attempts(t) \in [AttemptKeys -> Attempt]
  BY <1>1 DEF evict_attempts
<1>5. QED
  BY <1>3, <1>4 DEF note_attempt, DurableState

\* ... and so does writing a fence,
LEMMA NoteFenceType ==
    ASSUME NEW d \in DurableState, NEW k \in AttemptKeys, NEW kind \in FenceKinds
    PROVE  note_fence(d, kind, k) \in DurableState
<1> DEFINE f == [kind |-> kind, attempt |-> k, gen |-> d.attempts[k].gen]
<1>1. f \in Fence
  BY DEF Fence, DurableState, Attempt
<1>2. Append(d.fences, f) \in Seq(Fence)
  BY <1>1 DEF DurableState, AtMost
<1>3. KeepLast(Append(d.fences, f), MaxFences) \in AtMost(MaxFences, Fence)
  BY <1>2, KeepLastType, LimitsAssumption
<1>4. QED
  BY <1>3 DEF note_fence, DurableState

\* ... and an index entry.
LEMMA NoteIdempotencyType ==
    ASSUME NEW d \in DurableState, NEW key \in Keys, NEW k \in AttemptKeys, NEW g \in Nat
    PROVE  note_idempotency(d, key, k, g) \in DurableState
<1> DEFINE e == [key |-> key, attempt |-> k, gen |-> g]
<1>1. Append(d.idempotency, e) \in Seq(Entry)
  BY DEF DurableState, AtMost, Entry
<1>2. KeepLast(Append(d.idempotency, e), MaxIdempotency) \in AtMost(MaxIdempotency, Entry)
  BY <1>1, KeepLastType, LimitsAssumption
<1>3. QED
  BY <1>2 DEF note_idempotency, DurableState

\* Settling a decision stays within any set that holds the state and its indexed form.
LEMMA SettleType ==
    ASSUME NEW S, NEW d \in S, NEW key \in Keys \cup {NoKey}, NEW k, NEW g,
           key # NoKey => note_idempotency(d, key, k, g) \in S
    PROVE  /\ Settle(d, key, k, g) \in Seq(S)
           /\ Len(Settle(d, key, k, g)) \in {1, 2}
<1>1. CASE key = NoKey
  BY <1>1 DEF Settle
<1>2. CASE key # NoKey
  BY <1>2 DEF Settle
<1>3. QED
  BY <1>1, <1>2

\* An order of a set of attempts is a sequence that lists all of it.
LEMMA OrdersType ==
    ASSUME NEW S \in SUBSET AttemptKeys, NEW o \in Orders(S)
    PROVE  /\ o \in Seq(AttemptKeys)
           /\ \A k \in S : \E i \in 1..Len(o) : o[i] = k
           /\ \A i \in 1..Len(o) : o[i] \in S
<1>1. Cardinality(S) \in Nat
  BY KeysFinite
<1>2. o \in [1..Cardinality(S) -> S]
  BY DEF Orders
<1>3. o \in Seq(S) /\ Len(o) = Cardinality(S) /\ DOMAIN o = 1..Len(o)
  BY <1>1, <1>2
<1>4. o \in Seq(AttemptKeys)
  BY <1>3, SeqMonotonic
<1>5. QED
  BY <1>2, <1>3, <1>4 DEF Orders

\* Every state of a fencing pass is a lineage state.
LEMMA FencedType ==
    ASSUME NEW d \in DurableState, NEW o \in Seq(AttemptKeys), NEW kind \in FenceKinds,
           NEW phase \in Phases, NEW n \in 0..(2 * Len(o))
    PROVE  Fenced(d, o, kind, phase, n) \in DurableState
<1> DEFINE t == [k \in AttemptKeys |->
                    IF \E j \in DOMAIN o : o[j] = k /\ 2 * j - 1 <= n
                    THEN [d.attempts[k] EXCEPT !.phase = phase] ELSE d.attempts[k]]
           m == n \div 2
           fs == [j \in 1..m |-> [kind |-> kind, attempt |-> o[j], gen |-> d.attempts[o[j]].gen]]
<1>1. d.attempts \in [AttemptKeys -> Attempt]
  BY DEF DurableState
<1>2. t \in [AttemptKeys -> Attempt]
  <2>1. \A a \in Attempt : [a EXCEPT !.phase = phase] \in Attempt
    BY DEF Attempt
  <2>2. QED
    BY <1>1, <2>1
<1>3. m \in 0..Len(o)
  <2>1. Len(o) \in Nat
    OBVIOUS
  <2>2. QED
    BY <2>1
<1>4. fs \in Seq(Fence)
  <2>1. \A j \in 1..m : o[j] \in AttemptKeys
    BY <1>3
  <2>2. \A j \in 1..m : d.attempts[o[j]].gen \in Nat
    BY <1>1, <2>1 DEF Attempt
  <2>3. fs \in [1..m -> Fence]
    BY <2>1, <2>2 DEF Fence
  <2>4. QED
    BY <2>3, <1>3
<1>5. KeepLast(d.fences \o fs, MaxFences) \in AtMost(MaxFences, Fence)
  <2>1. d.fences \in Seq(Fence)
    BY DEF DurableState, AtMost
  <2>2. d.fences \o fs \in Seq(Fence)
    BY <2>1, <1>4
  <2>3. QED
    BY <2>2, KeepLastType, LimitsAssumption
<1>6. (d.uncovered \/ n >= 2) \in BOOLEAN
  OBVIOUS
<1>7. Fenced(d, o, kind, phase, n) =
        [d EXCEPT !.attempts = t, !.fences = KeepLast(d.fences \o fs, MaxFences),
                  !.uncovered = (d.uncovered \/ n >= 2)]
  BY DEF Fenced
<1> HIDE DEF t, m, fs
<1>8. QED
  BY <1>2, <1>5, <1>6, <1>7 DEF DurableState

\* A fencing pass has one state per append and one before the first.
LEMMA FencingPassEnd ==
    ASSUME NEW d, NEW o \in Seq(AttemptKeys), NEW kind, NEW phase
    PROVE  /\ Len(FencingPass(d, o, kind, phase)) = 2 * Len(o) + 1
           /\ FencingPass(d, o, kind, phase)[2 * Len(o) + 1] =
                 Fenced(d, o, kind, phase, 2 * Len(o))
<1>1. Len(o) \in Nat
  OBVIOUS
<1>2. 2 * Len(o) + 1 \in Nat /\ 2 * Len(o) + 1 \in 1..(2 * Len(o) + 1)
  BY <1>1
<1>3. (2 * Len(o) + 1) - 1 = 2 * Len(o)
  BY <1>1
<1>4. QED
  BY <1>2, <1>3 DEF FencingPass

\* All of them belong to any set the states after n appends belong to.
LEMMA FencingPassType ==
    ASSUME NEW S, NEW d, NEW o \in Seq(AttemptKeys), NEW kind, NEW phase,
           \A n \in 0..(2 * Len(o)) : Fenced(d, o, kind, phase, n) \in S
    PROVE  /\ FencingPass(d, o, kind, phase) \in Seq(S)
           /\ Len(FencingPass(d, o, kind, phase)) = 2 * Len(o) + 1
           /\ FencingPass(d, o, kind, phase)[2 * Len(o) + 1] =
                 Fenced(d, o, kind, phase, 2 * Len(o))
<1>1. Len(o) \in Nat
  OBVIOUS
<1>2. 2 * Len(o) + 1 \in Nat
  BY <1>1
<1>3. \A i \in 1..(2 * Len(o) + 1) : i - 1 \in 0..(2 * Len(o))
  BY <1>1
<1>4. FencingPass(d, o, kind, phase) \in [1..(2 * Len(o) + 1) -> S]
  BY <1>3 DEF FencingPass
<1>5. QED
  BY <1>1, <1>2, <1>4 DEF FencingPass

(***************************************************************************)
(* How a handler ends: whatever the crash or failure, memory and medium    *)
(* hold states of its chain, a restart's empty memory, or the last state   *)
(* with the journal rotated.  S is any set of states closed under that.    *)
(***************************************************************************)

\* Memory and medium after a handler, for every way it can end.
LEMMA Outcomes ==
    ASSUME NEW S, Fresh \in S, \A d \in S : [d EXCEPT !.uncovered = FALSE] \in S,
           NEW c \in Seq(S), c # <<>>, HandlerMayCompact(c)
    PROVE  /\ mem' \in S /\ durable' \in S
           /\ status' \in {status, "down"}
           /\ health' \in {health, "ok", "engineFailed", "storeFailed"}
           /\ stale' \in {stale, TRUE}
           /\ status' = "down" /\ status # "down" => mem' = Fresh
           /\ status' = "up" /\ health' # "storeFailed" =>
                 mem' \in {c[Len(c)], [c[Len(c)] EXCEPT !.uncovered = FALSE]}
<1>1. Len(c) \in Nat \ {0} /\ \A i \in 1..Len(c) : c[i] \in S
  OBVIOUS
<1>2. DOMAIN c = 1..Len(c)
  OBVIOUS
<1>3. CASE Written(c)
  BY <1>1, <1>3 DEF Written
<1>4. CASE Dies(c)
  BY <1>1, <1>2, <1>4 DEF Dies
<1>5. CASE \E i \in DOMAIN c : AppendFails(c, i)
  BY <1>1, <1>2, <1>5 DEF AppendFails
<1>6. CASE Compacts(c[Len(c)])
  <2>1. c[Len(c)] \in S /\ [c[Len(c)] EXCEPT !.uncovered = FALSE] \in S
    BY <1>1
  <2>2. QED
    BY <1>6, <2>1 DEF Compacts
<1>7. CASE CompactDies(c[Len(c)])
  <2>1. c[Len(c)] \in S /\ [c[Len(c)] EXCEPT !.uncovered = FALSE] \in S
    BY <1>1
  <2>2. QED
    BY <1>7, <2>1 DEF CompactDies
<1>8. QED
  BY <1>3, <1>4, <1>5, <1>6, <1>7 DEF HandlerMayCompact, Handler

(***************************************************************************)
(* Type correctness.                                                       *)
(***************************************************************************)

\* What the current definitions say of a link is well typed.
LEMMA Definitions ==
    ASSUME NEW d \in DurableState, NEW l \in Links
    PROVE  /\ LinkGen[d.topology][l] \in Nat
           /\ PolicyOf[d.policy].budget \in 1..MaxBudget
           /\ PolicyOf[d.policy].verified \in BOOLEAN
<1>1. d.topology \in DOMAIN LinkGen /\ d.policy \in DOMAIN PolicyOf
  BY DEF DurableState
<1>2. LinkGen[d.topology] \in [Links -> Nat]
  BY <1>1, TopologyAssumption
<1>3. PolicyOf[d.policy] \in [enabled: BOOLEAN, verified: BOOLEAN, budget: 1..MaxBudget]
  <2> DEFINE P == [enabled: BOOLEAN, verified: BOOLEAN, budget: 1..MaxBudget]
  <2>1. PolicyOf \in Seq(P)
    BY PolicyAssumption
  <2> HIDE DEF P
  <2>2. PolicyOf[d.policy] \in P
    BY <1>1, <2>1
  <2>3. QED
    BY <2>2 DEF P
<1>4. QED
  BY <1>2, <1>3

\* Within the budget there is a sequence number for the next attempt.
LEMMA NextAttemptType ==
    ASSUME mem \in DurableState, NEW l \in Links, NEW key, Evaluates(l, key)
    PROVE  NextAttempt(l) \in AttemptKeys
<1> DEFINE g == LinkGen[mem.topology][l]
<1>1. Of(mem, l, g) \in SUBSET Seqs
  BY DEF Of
<1>2. count_attempts(mem, l, g) \in Nat
  BY <1>1, KeysFinite DEF count_attempts
<1>3. count_attempts(mem, l, g) < PolicyOf[mem.policy].budget
  BY DEF Evaluates
<1>4. count_attempts(mem, l, g) + 1 \in Seqs
  BY <1>2, <1>3, Definitions, LimitsAssumption DEF Seqs
<1>5. QED
  BY <1>4 DEF NextAttempt, AttemptKeys

\* A lineage state with the journal rotated is a lineage state.
LEMMA RotatedType == \A d \in DurableState : [d EXCEPT !.uncovered = FALSE] \in DurableState
BY DEF DurableState

\* The actions that append records, each as the chain of states it may leave.
Chain(S) == \E c \in Seq(S) : c # <<>> /\ HandlerMayCompact(c)

\* Every request that may append goes through lineage states only.
LEMMA TypeChain ==
    ASSUME TypeOK, Serves
    PROVE  Chain(DurableState)
<1> DEFINE D == DurableState
<1>1. mem \in D /\ mem.attempts \in [AttemptKeys -> Attempt]
  BY DEF TypeOK, DurableState
<1>2. \A k \in AttemptKeys : mem.attempts[k] \in Attempt
  BY <1>1
<1>3. \A l \in Links : LinkGen[mem.topology][l] \in Nat
  BY <1>1, Definitions
<1>4. \A d \in D, j \in AttemptKeys, g \in Nat, key \in Keys \cup {NoKey} :
         key # NoKey => note_idempotency(d, key, j, g) \in D
  BY NoteIdempotencyType
<1>5. \A d \in D, j \in AttemptKeys, g \in Nat, key \in Keys \cup {NoKey} :
         Settle(d, key, j, g) \in Seq(D)
  BY <1>4, SettleType
<1>6. \A d \in D, j \in AttemptKeys, a \in Attempt : note_attempt(d, j, a) \in D
  BY NoteAttemptType
<1>7. \A a \in Attempt, ph \in Phases : [a EXCEPT !.phase = ph] \in Attempt
  BY DEF Attempt
<1> HIDE DEF D
<1>8. ASSUME NEW l \in Links, NEW key \in Keys \cup {NoKey}, GateRefuses(l, key)
      PROVE  Chain(DurableState)
  <2>1. PICK q \in Seqs : HandlerMayCompact(<<mem>> \o
                Settle(mem, key, <<l, q>>, LinkGen[mem.topology][l]))
    BY <1>8 DEF GateRefuses, interrupted_attempt, latest_attempt, Of
  <2>2. <<l, q>> \in AttemptKeys
    BY DEF AttemptKeys
  <2>3. Settle(mem, key, <<l, q>>, LinkGen[mem.topology][l]) \in Seq(D)
    BY <1>1, <1>3, <1>5, <2>2
  <2>4. <<mem>> \o Settle(mem, key, <<l, q>>, LinkGen[mem.topology][l]) \in Seq(D) \ {<<>>}
    BY <1>1, <2>3
  <2>5. QED
    BY <2>1, <2>4 DEF Chain, D
<1>9. ASSUME NEW l \in Links, NEW key \in Keys \cup {NoKey},
              NEW phase \in {"Refused", "Indeterminate"}, RefuseAttempt(l, key, phase)
      PROVE  Chain(DurableState)
  <2> DEFINE g == LinkGen[mem.topology][l]
             j == NextAttempt(l)
             a == [NoAttempt EXCEPT !.phase = phase, !.gen = g]
             d == note_attempt(mem, j, a)
  <2>1. j \in AttemptKeys
    BY <1>1, <1>9, NextAttemptType DEF RefuseAttempt, D
  <2>2. a \in Attempt
    BY <1>3 DEF Attempt, NoAttempt, Phases, Terminal
  <2>3. d \in D
    BY <1>1, <1>6, <2>1, <2>2
  <2>4. HandlerMayCompact(<<mem, d>> \o Settle(d, key, j, g))
    BY <1>9 DEF RefuseAttempt
  <2>5. Settle(d, key, j, g) \in Seq(D)
    BY <1>3, <1>5, <2>1, <2>3
  <2> HIDE DEF d, j, g, a
  <2>6. <<mem, d>> \o Settle(d, key, j, g) \in Seq(D) \ {<<>>}
    BY <1>1, <2>3, <2>5
  <2>7. QED
    BY <2>4, <2>6 DEF Chain, D
<1>10. ASSUME NEW l \in Links, NEW key \in Keys \cup {NoKey}, Grant(l, key)
       PROVE  Chain(DurableState)
  <2> DEFINE g == LinkGen[mem.topology][l]
             j == NextAttempt(l)
             a == [phase |-> "Evaluated", gen |-> g, epoch |-> mem.epoch,
                   policy |-> mem.policy, topology |-> mem.topology,
                   revalidation |-> "None"]
             d1 == note_attempt(mem, j, a)
             d2 == note_attempt(d1, j, [a EXCEPT !.phase = "Authorized"])
             c == GrantChain(l, key)
  <2>1. j \in AttemptKeys
    BY <1>1, <1>10, NextAttemptType DEF Grant, D
  <2>2. a \in Attempt
    <3>1. mem.epoch \in Nat /\ mem.policy \in Nat /\ mem.topology \in Nat
      BY <1>1, PolicyAssumption, TopologyAssumption DEF D, DurableState
    <3>2. QED
      BY <1>3, <3>1 DEF Attempt, Phases, InFlight
  <2>3. [a EXCEPT !.phase = "Authorized"] \in Attempt
    BY <2>2, <1>7 DEF Phases, InFlight
  <2>4. d1 \in D
    BY <1>1, <1>6, <2>1, <2>2
  <2>5. d2 \in D
    BY <2>4, <1>6, <2>1, <2>3
  <2>6. Settle(d2, key, j, g) \in Seq(D)
    BY <1>3, <1>5, <2>1, <2>5
  <2>7. c = <<mem, d1, d2>> \o Settle(d2, key, j, g)
    BY DEF GrantChain
  <2>8. HandlerMayCompact(c)
    BY <1>10 DEF Grant, HandlerMayCompact, Handler
  <2> HIDE DEF d1, d2, j, g, a, c
  <2>9. c \in Seq(D) \ {<<>>}
    BY <1>1, <2>4, <2>5, <2>6, <2>7
  <2>10. QED
    BY <2>8, <2>9 DEF Chain, D
<1>11. ASSUME NEW k \in AttemptKeys, NEW yes \in BOOLEAN, RecordApplication(k, yes)
       PROVE  Chain(DurableState)
  <2> DEFINE At(ph) == note_attempt(mem, k, [mem.attempts[k] EXCEPT !.phase = ph])
  <2>1. \A ph \in {"Aborted", "Acknowledged", "Committed"} : At(ph) \in D
    BY <1>1, <1>2, <1>6, <1>7 DEF Phases, Terminal, InFlight
  <2>2. PICK ph \in {"Aborted", "Acknowledged", "Committed"} :
           HandlerMayCompact(<<mem, At(ph), At(ph)>>)
    BY <1>11 DEF RecordApplication
  <2> HIDE DEF At
  <2>3. <<mem, At(ph), At(ph)>> \in Seq(D) \ {<<>>}
    BY <1>1, <2>1
  <2>4. QED
    BY <2>2, <2>3 DEF Chain, D
<1>12. ASSUME NEW k \in AttemptKeys, NEW yes \in BOOLEAN, RecordVerification(k, yes)
       PROVE  Chain(DurableState)
  <2> DEFINE At(ph) == note_attempt(mem, k, [mem.attempts[k] EXCEPT !.phase = ph])
  <2>1. At("Indeterminate") \in D /\ At("Verified") \in D /\ At("Committed") \in D
    BY <1>1, <1>2, <1>6, <1>7 DEF Phases, Terminal, InFlight
  <2>2. \/ HandlerMayCompact(<<mem, At("Indeterminate"), At("Indeterminate")>>)
        \/ HandlerMayCompact(<<mem, At("Verified"), At("Committed"), At("Committed")>>)
    BY <1>12 DEF RecordVerification, HandlerMayCompact
  <2> HIDE DEF At
  <2>3. /\ <<mem, At("Indeterminate"), At("Indeterminate")>> \in Seq(D) \ {<<>>}
        /\ <<mem, At("Verified"), At("Committed"), At("Committed")>> \in Seq(D) \ {<<>>}
    BY <1>1, <2>1
  <2>4. QED
    BY <2>2, <2>3 DEF Chain, D
<1>13. ASSUME NEW k \in AttemptKeys, NEW key \in Keys \cup {NoKey}, RequestRollback(k, key)
       PROVE  Chain(DurableState)
  <2> DEFINE d1 == note_attempt(mem, k, [mem.attempts[k] EXCEPT !.phase = "RolledBack"])
             d2 == note_fence(d1, "RollbackRevoked", k)
             c == <<mem, d1, d2>> \o Settle(d2, key, k, mem.attempts[k].gen)
  <2>1. d1 \in D
    BY <1>1, <1>2, <1>6, <1>7 DEF Phases, Terminal
  <2>2. d2 \in D
    BY <2>1, NoteFenceType DEF FenceKinds, D
  <2>3. mem.attempts[k].gen \in Nat
    BY <1>2 DEF Attempt
  <2>4. Settle(d2, key, k, mem.attempts[k].gen) \in Seq(D)
    BY <1>5, <2>2, <2>3
  <2>5. HandlerMayCompact(c)
    BY <1>13 DEF RequestRollback, HandlerMayCompact
  <2> HIDE DEF d1, d2
  <2>6. c \in Seq(D) \ {<<>>}
    BY <1>1, <2>1, <2>2, <2>4
  <2>7. QED
    BY <2>5, <2>6 DEF Chain, D
<1>14. ASSUME NEW k \in AttemptKeys, NEW verdict \in Verdicts, ResolveInterrupted(k, verdict)
       PROVE  Chain(DurableState)
  <2> DEFINE b == Revalidated(mem, mem.attempts[k], verdict)
             d == note_attempt(mem, k, b)
  <2>1. b \in Attempt
    <3>1. mem.epoch \in Nat /\ mem.policy \in Nat /\ mem.topology \in Nat
      BY <1>1, PolicyAssumption, TopologyAssumption DEF D, DurableState
    <3>2. QED
      BY <1>2, <3>1 DEF Revalidated, Attempt, Verdicts, Phases, Terminal
  <2>2. d \in D
    BY <1>1, <1>6, <2>1
  <2>3. HandlerMayCompact(<<mem, d, d>>)
    BY <1>14 DEF ResolveInterrupted, HandlerMayCompact
  <2> HIDE DEF d
  <2>4. <<mem, d, d>> \in Seq(D) /\ <<mem, d, d>> # <<>>
    BY <1>1, <2>2
  <2>5. QED
    BY <2>3, <2>4 DEF Chain, D
<1>15. ASSUME NEW d \in D, NEW kind \in FenceKinds, Redefine(d, kind)
       PROVE  Chain(D)
  <2>1. Holders(mem) \in SUBSET AttemptKeys
    BY DEF Holders
  <2>2. PICK o \in Orders(Holders(mem)) :
           HandlerMayCompact(<<mem>> \o FencingPass(d, o, kind, "Aborted"))
    BY <1>15 DEF Redefine, HandlerMayCompact
  <2>3. o \in Seq(AttemptKeys)
    BY <2>1, OrdersType
  <2>4. \A n \in 0..(2 * Len(o)) : Fenced(d, o, kind, "Aborted", n) \in D
    BY <1>15, <2>3, FencedType DEF D, Phases, Terminal
  <2>5. FencingPass(d, o, kind, "Aborted") \in Seq(D)
    BY <2>3, <2>4, FencingPassType
  <2>6. <<mem>> \o FencingPass(d, o, kind, "Aborted") \in Seq(D) \ {<<>>}
    BY <1>1, <2>5
  <2>7. QED
    BY <2>2, <2>6 DEF Chain
<1>16. ASSUME NEW p \in DOMAIN PolicyOf, SetPolicy(p)
       PROVE  Chain(DurableState)
  <2>1. [mem EXCEPT !.policy = p] \in D
    BY <1>1 DEF D, DurableState
  <2>2. QED
    BY <1>15, <1>16, <2>1 DEF SetPolicy, FenceKinds, D
<1>17. ASSUME NEW t \in DOMAIN LinkGen, SetTopology(t)
       PROVE  Chain(DurableState)
  <2>1. [mem EXCEPT !.topology = t] \in D
    BY <1>1 DEF D, DurableState
  <2>2. QED
    BY <1>15, <1>17, <2>1 DEF SetTopology, FenceKinds, D
<1>18. CASE Checkpoint
  <2>1. HandlerMayCompact(<<mem>>)
    BY <1>18 DEF Checkpoint, HandlerMayCompact
  <2>2. <<mem>> \in Seq(D) /\ <<mem>> # <<>>
    BY <1>1
  <2>3. QED
    BY <2>1, <2>2 DEF Chain, D
<1>19. QED
  BY <1>8, <1>9, <1>10, <1>11, <1>12, <1>13, <1>14, <1>16, <1>17, <1>18 DEF Serves

\* The history variables keep their shape.
LEMMA HistoryType ==
    ASSUME TypeOK, Serves
    PROVE  /\ standing' \in SUBSET [attempt: AttemptKeys, gen: Nat]
           /\ acked' \in SUBSET Answer
<1>1. mem \in DurableState /\ \A k \in AttemptKeys : mem.attempts[k] \in Attempt
  BY DEF TypeOK, DurableState
<1>2. standing \in SUBSET [attempt: AttemptKeys, gen: Nat] /\ acked \in SUBSET Answer
  BY DEF TypeOK
<1>3. ASSUME NEW ks, Revoked(ks)
      PROVE  standing' \in SUBSET [attempt: AttemptKeys, gen: Nat]
  BY <1>2, <1>3 DEF Revoked
<1>4. ASSUME NEW j \in AttemptKeys, NEW g \in Nat, Granted(j, g)
      PROVE  standing' \in SUBSET [attempt: AttemptKeys, gen: Nat]
  BY <1>2, <1>4 DEF Granted
<1>5. ASSUME NEW l \in Links, NEW key \in Keys \cup {NoKey}, Grant(l, key)
      PROVE  /\ standing' \in SUBSET [attempt: AttemptKeys, gen: Nat]
             /\ acked' \in SUBSET Answer
  <2>1. NextAttempt(l) \in AttemptKeys
    BY <1>1, <1>5, NextAttemptType DEF Grant
  <2>2. LinkGen[mem.topology][l] \in Nat
    BY <1>1, Definitions
  <2>3. mem.epoch \in Nat
    BY <1>1 DEF DurableState
  <2>4. \A b \in BOOLEAN :
           [attempt |-> NextAttempt(l), gen |-> LinkGen[mem.topology][l],
            epoch |-> mem.epoch, key |-> key, indexed |-> b] \in Answer
    BY <2>1, <2>2, <2>3 DEF Answer
  <2>5. acked' \in SUBSET Answer
    BY <1>2, <1>5, <2>4 DEF Grant
  <2>6. QED
    BY <1>4, <1>5, <2>1, <2>2, <2>5 DEF Grant
<1>6. ASSUME NEW k \in AttemptKeys, NEW verdict \in Verdicts, ResolveInterrupted(k, verdict)
      PROVE  /\ standing' \in SUBSET [attempt: AttemptKeys, gen: Nat]
             /\ acked' \in SUBSET Answer
  <2>1. mem.attempts[k].gen \in Nat
    BY <1>1 DEF Attempt
  <2>2. Granted(k, mem.attempts[k].gen) /\ UNCHANGED acked
    BY <1>6 DEF ResolveInterrupted
  <2>3. QED
    BY <1>2, <1>4, <2>1, <2>2
<1>7. CASE /\ ~ \E l \in Links, key \in Keys \cup {NoKey} : Grant(l, key)
           /\ ~ \E k \in AttemptKeys, verdict \in Verdicts : ResolveInterrupted(k, verdict)
  <2>1. UNCHANGED acked /\ \E ks : Revoked(ks)
    BY <1>7 DEF Serves, GateRefuses, RefuseAttempt, RecordApplication,
         RecordVerification, RequestRollback, SetPolicy, SetTopology, Redefine, Checkpoint
  <2>2. QED
    BY <1>2, <1>3, <2>1
<1>8. QED
  BY <1>5, <1>6, <1>7

\* The states an open may leave on the medium.
LEMMA OpenChain ==
    ASSUME durable \in DurableState, NEW S,
           durable \in S,
           \A o \in Seq(AttemptKeys) :
              (\A i \in 1..Len(o) : durable.attempts[o[i]].phase \in InFlight) =>
              \A n \in 0..(2 * Len(o)) :
                 Fenced([durable EXCEPT !.epoch = @ + 1], o, "PreRestartAuthority",
                        "Interrupted", n) \in S,
           Open
    PROVE  /\ durable' \in S
           /\ \/ UNCHANGED <<status, mem>>
              \/ /\ status' = "up" /\ mem' = durable' /\ mem' \in S
                 /\ \E o \in Seq(AttemptKeys) :
                       /\ \A k \in AttemptKeys : durable.attempts[k].phase \in InFlight =>
                             \E i \in 1..Len(o) : o[i] = k
                       /\ mem' = Fenced([durable EXCEPT !.epoch = @ + 1], o,
                                    "PreRestartAuthority", "Interrupted", 2 * Len(o))
<1> DEFINE boot == [durable EXCEPT !.epoch = @ + 1]
           flying == {k \in AttemptKeys : durable.attempts[k].phase \in InFlight}
           Pass(o) == FencingPass(boot, o, "PreRestartAuthority", "Interrupted")
<1>1. PICK o \in Orders(flying) :
         LET c == <<durable>> \o Pass(o) IN
         \/ mem' = c[Len(c)] /\ durable' = c[Len(c)] /\ status' = "up"
         \/ (\E i \in DOMAIN c : durable' = c[i]) /\ UNCHANGED <<status, mem>>
  BY DEF Open
<1>2. flying \in SUBSET AttemptKeys
  OBVIOUS
<1>3. /\ o \in Seq(AttemptKeys)
      /\ \A k \in flying : \E i \in 1..Len(o) : o[i] = k
      /\ \A i \in 1..Len(o) : o[i] \in flying
  BY <1>1, <1>2, OrdersType
<1>4. \A n \in 0..(2 * Len(o)) :
         Fenced(boot, o, "PreRestartAuthority", "Interrupted", n) \in S
  BY <1>3
<1>5. /\ Pass(o) \in Seq(S)
      /\ Len(Pass(o)) = 2 * Len(o) + 1
      /\ Pass(o)[2 * Len(o) + 1] =
            Fenced(boot, o, "PreRestartAuthority", "Interrupted", 2 * Len(o))
  BY <1>3, <1>4, FencingPassType
<1> DEFINE c == <<durable>> \o Pass(o)
<1> HIDE DEF boot, Pass
<1>6. Len(o) \in Nat
  BY <1>3
<1>7. /\ c \in Seq(S) /\ Len(c) = 2 * Len(o) + 2
      /\ c[Len(c)] = Fenced(boot, o, "PreRestartAuthority", "Interrupted", 2 * Len(o))
  <2> DEFINE one == <<durable>>
             P == Pass(o)
             last == Fenced(boot, o, "PreRestartAuthority", "Interrupted", 2 * Len(o))
  <2>1. one \in Seq(S) /\ Len(one) = 1
    OBVIOUS
  <2>2. P \in Seq(S) /\ Len(P) = 2 * Len(o) + 1 /\ P[2 * Len(o) + 1] = last
    BY <1>5
  <2> HIDE DEF one, P, last
  <2>3. /\ one \o P \in Seq(S) /\ Len(one \o P) = Len(one) + Len(P)
        /\ \A i \in 1..(Len(one) + Len(P)) :
              (one \o P)[i] = IF i <= Len(one) THEN one[i] ELSE P[i - Len(one)]
    BY <2>1, <2>2, ConcatProperties
  <2>4. Len(one \o P) = 2 * Len(o) + 2
    BY <2>1, <2>2, <2>3, <1>6
  <2>5. (one \o P)[2 * Len(o) + 2] = last
    BY <2>1, <2>2, <2>3, <1>6
  <2>6. QED
    BY <2>3, <2>4, <2>5 DEF one, P, last
<1>8. \/ mem' = c[Len(c)] /\ durable' = c[Len(c)] /\ status' = "up"
      \/ (\E i \in DOMAIN c : durable' = c[i]) /\ UNCHANGED <<status, mem>>
  BY <1>1
<1>9. \A i \in DOMAIN c : c[i] \in S
  BY <1>7
<1> HIDE DEF c
<1>10. CASE mem' = c[Len(c)] /\ durable' = c[Len(c)] /\ status' = "up"
  <2>1. c[Len(c)] \in S
    BY <1>6, <1>7
  <2>2. QED
    BY <1>3, <1>7, <1>10, <2>1 DEF boot
<1>11. CASE (\E i \in DOMAIN c : durable' = c[i]) /\ UNCHANGED <<status, mem>>
  BY <1>9, <1>11
<1>12. QED
  BY <1>8, <1>10, <1>11

\* The initial state is well typed.
LEMMA TypeInit == Init => TypeOK
BY FreshType DEF Init, TypeOK

\* Every step keeps the types.
LEMMA TypeNext == TypeOK /\ [Next]_vars => TypeOK'
<1> SUFFICES ASSUME TypeOK, [Next]_vars PROVE TypeOK'
  OBVIOUS
<1> USE DEF TypeOK
<1>1. CASE Serves
  <2>1. PICK c \in Seq(DurableState) : c # <<>> /\ HandlerMayCompact(c)
    BY <1>1, TypeChain DEF Chain
  <2>2. /\ mem' \in DurableState /\ durable' \in DurableState
        /\ status' \in {status, "down"}
        /\ health' \in {health, "ok", "engineFailed", "storeFailed"}
        /\ stale' \in {stale, TRUE}
    BY <2>1, FreshType, RotatedType, Outcomes
  <2>3. /\ standing' \in SUBSET [attempt: AttemptKeys, gen: Nat]
        /\ acked' \in SUBSET Answer
    BY <1>1, HistoryType
  <2>4. QED
    BY <2>2, <2>3
<1>2. CASE Close
  BY <1>2, FreshType, RotatedType DEF Close
<1>3. CASE Crash
  BY <1>3, FreshType DEF Crash
<1>4. CASE Open
  <2>1. [durable EXCEPT !.epoch = @ + 1] \in DurableState
    BY DEF DurableState
  <2>2. \A o \in Seq(AttemptKeys) : \A n \in 0..(2 * Len(o)) :
           Fenced([durable EXCEPT !.epoch = @ + 1], o, "PreRestartAuthority",
                  "Interrupted", n) \in DurableState
    BY <2>1, FencedType DEF FenceKinds, Phases, Terminal
  <2>3. durable' \in DurableState /\ mem' \in DurableState /\ status' \in {status, "up"}
    BY <1>4, <2>2, OpenChain
  <2>4. UNCHANGED <<stale, health, standing, acked>>
    BY <1>4 DEF Open
  <2>5. QED
    BY <2>3, <2>4
<1>5. CASE UNCHANGED vars
  BY <1>5 DEF vars
<1>6. QED
  BY <1>1, <1>2, <1>3, <1>4, <1>5 DEF Next

\* Type correctness: for every number of links, policies, topologies and limits,
\* the tables keep their shape and the fence and idempotency tables their bounds.
THEOREM TypeCorrect == Spec => []TypeOK
BY TypeInit, TypeNext, PTL DEF Spec

(***************************************************************************)
(* LiveBinding.  The invariant is not inductive as it stands: a reopened   *)
(* process serves whatever the medium holds, so the epoch of a new process *)
(* must be shown to be one no record carries yet.                          *)
(***************************************************************************)

\* No record carries an epoch later than the lineage's own.
EpochsWithin(d) == \A k \in AttemptKeys : d.attempts[k].epoch <= d.epoch

\* The body of LiveBinding, for any lineage state.
Bound(d) ==
    \A k \in Holders(d) :
        d.attempts[k].epoch = d.epoch =>
            d.attempts[k].policy = d.policy /\ d.attempts[k].topology = d.topology

Dated == {d \in DurableState : EpochsWithin(d)}
DatedBound == {d \in Dated : Bound(d)}

\* The inductive strengthening of LiveBinding.
LiveInv ==
    /\ TypeOK
    /\ EpochsWithin(mem) /\ EpochsWithin(durable)
    /\ status = "up" /\ health # "storeFailed" => Bound(mem)

\* Writing one attempt record keeps the dates in order, and the binding if the
\* record itself is bound.
LEMMA NoteAttemptBound ==
    ASSUME NEW d \in Dated, NEW k \in AttemptKeys, NEW a \in Attempt, a.epoch <= d.epoch
    PROVE  /\ note_attempt(d, k, a) \in Dated
           /\ note_attempt(d, k, a).epoch = d.epoch
           /\ note_attempt(d, k, a).policy = d.policy
           /\ note_attempt(d, k, a).topology = d.topology
           /\ \/ note_attempt(d, k, a).attempts[k] = a
              \/ note_attempt(d, k, a).attempts[k] = NoAttempt
           /\ \A j \in AttemptKeys \ {k} :
                 note_attempt(d, k, a).attempts[j] \in {d.attempts[j], NoAttempt}
<1> DEFINE t == [d.attempts EXCEPT ![k] = a]
           e == note_attempt(d, k, a)
<1>1. d \in DurableState /\ d.attempts \in [AttemptKeys -> Attempt] /\ d.epoch \in Nat
  BY DEF Dated, DurableState
<1>2. e \in DurableState
  BY <1>1, NoteAttemptType
<1>3. /\ e.epoch = d.epoch /\ e.policy = d.policy /\ e.topology = d.topology
      /\ e.attempts = evict_attempts(t)
  BY <1>1 DEF note_attempt, DurableState
<1>4. \A j \in AttemptKeys : evict_attempts(t)[j] \in {t[j], NoAttempt}
  BY DEF evict_attempts
<1>5. \A j \in AttemptKeys : t[j] = IF j = k THEN a ELSE d.attempts[j]
  BY <1>1
<1>6. NoAttempt.epoch = 0
  BY DEF NoAttempt
<1>7. \A j \in AttemptKeys : e.attempts[j].epoch <= e.epoch
  <2> SUFFICES ASSUME NEW j \in AttemptKeys PROVE e.attempts[j].epoch <= e.epoch
    OBVIOUS
  <2>1. t[j].epoch <= d.epoch
    BY <1>5 DEF Dated, EpochsWithin
  <2>2. QED
    BY <1>1, <1>3, <1>4, <1>6, <2>1
<1>8. QED
  BY <1>2, <1>3, <1>4, <1>5, <1>7 DEF Dated, EpochsWithin

\* ... and so the whole table stays bound.
LEMMA NoteAttemptKeepsBound ==
    ASSUME NEW d \in DatedBound, NEW k \in AttemptKeys, NEW a \in Attempt, a.epoch <= d.epoch,
           a.phase \in HoldsAuthority /\ a.epoch = d.epoch =>
               a.policy = d.policy /\ a.topology = d.topology
    PROVE  note_attempt(d, k, a) \in DatedBound
<1> DEFINE e == note_attempt(d, k, a)
<1>1. d \in Dated /\ Bound(d)
  BY DEF DatedBound
<1>2. /\ e \in Dated
      /\ e.epoch = d.epoch /\ e.policy = d.policy /\ e.topology = d.topology
      /\ e.attempts[k] \in {a, NoAttempt}
      /\ \A j \in AttemptKeys \ {k} : e.attempts[j] \in {d.attempts[j], NoAttempt}
  BY <1>1, NoteAttemptBound
<1>3. NoAttempt.phase \notin HoldsAuthority
  BY DEF NoAttempt, HoldsAuthority
<1> HIDE DEF e
<1>4. Bound(e)
  BY <1>1, <1>2, <1>3 DEF Bound, Holders
<1>5. QED
  BY <1>2, <1>4 DEF DatedBound, e

\* A fencing pass moves attempts to the given phase and touches neither their
\* other fields nor the generations of the lineage.
LEMMA FencedAttempts ==
    ASSUME NEW d \in DurableState, NEW o \in Seq(AttemptKeys), NEW kind \in FenceKinds,
           NEW phase \in Phases, NEW n \in 0..(2 * Len(o))
    PROVE  LET e == Fenced(d, o, kind, phase, n) IN
           /\ e.epoch = d.epoch /\ e.policy = d.policy /\ e.topology = d.topology
           /\ \A k \in AttemptKeys :
                 \/ /\ \E j \in 1..Len(o) : o[j] = k /\ 2 * j - 1 <= n
                    /\ e.attempts[k] = [d.attempts[k] EXCEPT !.phase = phase]
                 \/ /\ ~ \E j \in 1..Len(o) : o[j] = k /\ 2 * j - 1 <= n
                    /\ e.attempts[k] = d.attempts[k]
<1> DEFINE t == [k \in AttemptKeys |->
                    IF \E j \in DOMAIN o : o[j] = k /\ 2 * j - 1 <= n
                    THEN [d.attempts[k] EXCEPT !.phase = phase] ELSE d.attempts[k]]
           f == KeepLast(d.fences \o [j \in 1..(n \div 2) |->
                    [kind |-> kind, attempt |-> o[j], gen |-> d.attempts[o[j]].gen]], MaxFences)
           u == (d.uncovered \/ n >= 2)
<1>1. Fenced(d, o, kind, phase, n) = [d EXCEPT !.attempts = t, !.fences = f, !.uncovered = u]
  BY DEF Fenced
<1>2. DOMAIN o = 1..Len(o)
  OBVIOUS
<1>3. \A k \in AttemptKeys :
         t[k] = IF \E j \in 1..Len(o) : o[j] = k /\ 2 * j - 1 <= n
                THEN [d.attempts[k] EXCEPT !.phase = phase] ELSE d.attempts[k]
  BY <1>2
<1> HIDE DEF t, f, u
<1>4. LET e == Fenced(d, o, kind, phase, n) IN
      e.epoch = d.epoch /\ e.policy = d.policy /\ e.topology = d.topology /\ e.attempts = t
  BY <1>1 DEF DurableState
<1>5. QED
  BY <1>3, <1>4

\* ... so it keeps the dates in order.
LEMMA FencedDated ==
    ASSUME NEW d \in Dated, NEW o \in Seq(AttemptKeys), NEW kind \in FenceKinds,
           NEW phase \in Phases, NEW n \in 0..(2 * Len(o))
    PROVE  Fenced(d, o, kind, phase, n) \in Dated
<1> DEFINE e == Fenced(d, o, kind, phase, n)
<1>1. d \in DurableState /\ \A k \in AttemptKeys : d.attempts[k] \in Attempt
  BY DEF Dated, DurableState
<1>2. e \in DurableState
  BY <1>1, FencedType
<1>3. /\ e.epoch = d.epoch
      /\ \A k \in AttemptKeys :
            \/ e.attempts[k] = [d.attempts[k] EXCEPT !.phase = phase]
            \/ e.attempts[k] = d.attempts[k]
  BY <1>1, FencedAttempts
<1> HIDE DEF e
<1>4. \A k \in AttemptKeys : [d.attempts[k] EXCEPT !.phase = phase].epoch = d.attempts[k].epoch
  BY <1>1 DEF Attempt
<1>5. \A k \in AttemptKeys : e.attempts[k].epoch <= e.epoch
  BY <1>3, <1>4 DEF Dated, EpochsWithin
<1>6. QED
  BY <1>2, <1>5 DEF Dated, EpochsWithin, e

\* A complete pass over the holders leaves no holder.
LEMMA FencedAllHolders ==
    ASSUME NEW d \in Dated, NEW o \in Seq(AttemptKeys), NEW kind \in FenceKinds,
           \A k \in Holders(d) : \E i \in 1..Len(o) : o[i] = k
    PROVE  Fenced(d, o, kind, "Aborted", 2 * Len(o)) \in DatedBound
<1> DEFINE e == Fenced(d, o, kind, "Aborted", 2 * Len(o))
<1>1. Len(o) \in Nat
  OBVIOUS
<1>2. 2 * Len(o) \in 0..(2 * Len(o)) /\ "Aborted" \in Phases
  BY <1>1 DEF Phases, Terminal
<1>3. d \in DurableState /\ \A k \in AttemptKeys : d.attempts[k] \in Attempt
  BY DEF Dated, DurableState
<1>4. e \in Dated
  BY <1>2, FencedDated
<1>5. \A k \in AttemptKeys :
         \/ e.attempts[k] = [d.attempts[k] EXCEPT !.phase = "Aborted"]
         \/ /\ ~ \E j \in 1..Len(o) : o[j] = k /\ 2 * j - 1 <= 2 * Len(o)
            /\ e.attempts[k] = d.attempts[k]
  BY <1>2, <1>3, FencedAttempts
<1> HIDE DEF e
<1>6. \A k \in AttemptKeys : e.attempts[k].phase \notin HoldsAuthority
  <2> SUFFICES ASSUME NEW k \in AttemptKeys PROVE e.attempts[k].phase \notin HoldsAuthority
    OBVIOUS
  <2>1. CASE e.attempts[k] = [d.attempts[k] EXCEPT !.phase = "Aborted"]
    <3>1. e.attempts[k].phase = "Aborted"
      BY <1>3, <2>1 DEF Attempt
    <3>2. QED
      BY <3>1 DEF HoldsAuthority
  <2>2. CASE /\ ~ \E j \in 1..Len(o) : o[j] = k /\ 2 * j - 1 <= 2 * Len(o)
             /\ e.attempts[k] = d.attempts[k]
    <3>1. k \notin Holders(d)
      BY <1>1, <2>2
    <3>2. QED
      BY <2>2, <3>1 DEF Holders
  <2>3. QED
    BY <1>5, <2>1, <2>2
<1>7. Bound(e)
  BY <1>6 DEF Bound, Holders
<1>8. QED
  BY <1>4, <1>7 DEF DatedBound, e

\* The chain of a request that may append, and the state it ends in when every
\* append succeeds.
ChainTo(S, L) == \E c \in Seq(S) : c # <<>> /\ c[Len(c)] \in L /\ HandlerMayCompact(c)

\* A record settled with a decision and an index entry changes no attempt.
LEMMA SettleBound ==
    ASSUME NEW d \in DatedBound, NEW key \in Keys \cup {NoKey}, NEW k \in AttemptKeys,
           NEW g \in Nat
    PROVE  /\ Settle(d, key, k, g) \in Seq(DatedBound)
           /\ Len(Settle(d, key, k, g)) \in {1, 2}
<1>1. key # NoKey => note_idempotency(d, key, k, g) \in DatedBound
  <2> SUFFICES ASSUME key # NoKey PROVE note_idempotency(d, key, k, g) \in DatedBound
    OBVIOUS
  <2> DEFINE e == note_idempotency(d, key, k, g)
  <2>1. d \in DurableState
    BY DEF DatedBound, Dated
  <2>2. e \in DurableState
    BY <2>1, NoteIdempotencyType
  <2>3. /\ e.epoch = d.epoch /\ e.policy = d.policy /\ e.topology = d.topology
        /\ e.attempts = d.attempts
    BY <2>1 DEF note_idempotency, DurableState
  <2> HIDE DEF e
  <2>4. EpochsWithin(e) /\ Bound(e)
    BY <2>3 DEF DatedBound, Dated, EpochsWithin, Bound, Holders
  <2>5. QED
    BY <2>2, <2>4 DEF DatedBound, Dated, e
<1>2. QED
  BY <1>1, SettleType

\* A fence record changes no attempt either.
LEMMA NoteFenceBound ==
    ASSUME NEW d \in DatedBound, NEW k \in AttemptKeys, NEW kind \in FenceKinds
    PROVE  note_fence(d, kind, k) \in DatedBound
<1> DEFINE e == note_fence(d, kind, k)
<1>1. d \in DurableState
  BY DEF DatedBound, Dated
<1>2. e \in DurableState
  BY <1>1, NoteFenceType
<1>3. /\ e.epoch = d.epoch /\ e.policy = d.policy /\ e.topology = d.topology
      /\ e.attempts = d.attempts
  BY <1>1 DEF note_fence, DurableState
<1> HIDE DEF e
<1>4. EpochsWithin(e) /\ Bound(e)
  BY <1>3 DEF DatedBound, Dated, EpochsWithin, Bound, Holders
<1>5. QED
  BY <1>2, <1>4 DEF DatedBound, Dated, e

\* Prefixing a chain with the state a handler found keeps its last state.
LEMMA Prefixed ==
    ASSUME NEW S, NEW p \in Seq(S), NEW q \in Seq(S), Len(q) >= 1
    PROVE  /\ p \o q \in Seq(S) /\ p \o q # <<>>
           /\ (p \o q)[Len(p \o q)] = q[Len(q)]
<1>1. /\ p \o q \in Seq(S) /\ Len(p \o q) = Len(p) + Len(q)
      /\ \A i \in 1..(Len(p) + Len(q)) :
            (p \o q)[i] = IF i <= Len(p) THEN p[i] ELSE q[i - Len(p)]
  BY ConcatProperties
<1>2. Len(p) \in Nat /\ Len(q) \in Nat
  OBVIOUS
<1>3. (p \o q)[Len(p) + Len(q)] = q[Len(q)]
  BY <1>1, <1>2
<1>4. Len(p \o q) # 0
  BY <1>1, <1>2
<1>5. QED
  BY <1>1, <1>3, <1>4

\* Two chains joined.
LEMMA Joined ==
    ASSUME NEW S, NEW p \in Seq(S), NEW q \in Seq(S), Len(q) \in {1, 2}
    PROVE  p \o q \in Seq(S) /\ Len(p \o q) >= 1
<1>1. p \o q \in Seq(S) /\ Len(p \o q) = Len(p) + Len(q)
  BY ConcatProperties
<1>2. Len(p) \in Nat
  OBVIOUS
<1>3. QED
  BY <1>1, <1>2

\* Every request that may append ends, if all its appends succeed, in a bound
\* state, and passes only through dated ones.
LEMMA LiveChain ==
    ASSUME LiveInv, Serves
    PROVE  ChainTo(Dated, DatedBound)
<1> DEFINE B == DatedBound
<1>1. CanAppend
  BY DEF Serves, GateRefuses, RefuseAttempt, Grant, Evaluates, Admitted, RecordApplication,
     RecordVerification, RequestRollback, ResolveInterrupted, SetPolicy, SetTopology,
     Redefine, Checkpoint, CanAppend
<1>2. mem \in B /\ mem \in DurableState /\ mem \in Dated
  BY <1>1 DEF LiveInv, TypeOK, CanAppend, DatedBound, Dated
<1>3. /\ \A k \in AttemptKeys : mem.attempts[k] \in Attempt /\ mem.attempts[k].epoch <= mem.epoch
      /\ mem.epoch \in Nat /\ mem.policy \in Nat /\ mem.topology \in Nat
  BY <1>2, PolicyAssumption, TopologyAssumption DEF DurableState, Dated, EpochsWithin
<1>4. \A l \in Links : LinkGen[mem.topology][l] \in Nat
  BY <1>2, Definitions
<1>5. \A q \in Seq(B) : q \in Seq(Dated)
  BY DEF DatedBound, B
<1>6. \A a \in Attempt, ph \in Phases :
         /\ [a EXCEPT !.phase = ph] \in Attempt
         /\ [a EXCEPT !.phase = ph].epoch = a.epoch /\ [a EXCEPT !.phase = ph].phase = ph
         /\ [a EXCEPT !.phase = ph].policy = a.policy
         /\ [a EXCEPT !.phase = ph].topology = a.topology
  BY DEF Attempt
<1> HIDE DEF B
\* A chain of bound states.
<1>7. ASSUME NEW c \in Seq(B), Len(c) >= 1, HandlerMayCompact(c)
      PROVE  ChainTo(Dated, B)
  <2>1. c \in Seq(Dated) /\ c # <<>> /\ c[Len(c)] \in B
    BY <1>5, <1>7
  <2>2. QED
    BY <1>7, <2>1 DEF ChainTo
\* A change of phase of one attempt that held authority, or that loses it.
<1>8. ASSUME NEW k \in AttemptKeys, NEW ph \in Phases,
             ph \in HoldsAuthority => mem.attempts[k].phase \in HoldsAuthority
      PROVE  note_attempt(mem, k, [mem.attempts[k] EXCEPT !.phase = ph]) \in B
  <2> DEFINE a == [mem.attempts[k] EXCEPT !.phase = ph]
  <2>1. /\ a \in Attempt /\ a.epoch = mem.attempts[k].epoch /\ a.phase = ph
        /\ a.policy = mem.attempts[k].policy /\ a.topology = mem.attempts[k].topology
    BY <1>3, <1>6
  <2> HIDE DEF a
  <2>2. a.epoch <= mem.epoch
    BY <1>3, <2>1
  <2>3. a.phase \in HoldsAuthority /\ a.epoch = mem.epoch =>
           a.policy = mem.policy /\ a.topology = mem.topology
    BY <1>2, <1>8, <2>1 DEF B, DatedBound, Bound, Holders
  <2>4. note_attempt(mem, k, a) \in B
    BY <1>2, <2>1, <2>2, <2>3, NoteAttemptKeepsBound DEF B
  <2>5. QED
    BY <2>4 DEF a
<1>9. ASSUME NEW l \in Links, NEW key \in Keys \cup {NoKey}, GateRefuses(l, key)
      PROVE  ChainTo(Dated, B)
  <2>1. PICK q \in Seqs : HandlerMayCompact(<<mem>> \o
                Settle(mem, key, <<l, q>>, LinkGen[mem.topology][l]))
    BY <1>9 DEF GateRefuses, interrupted_attempt, latest_attempt, Of
  <2>2. <<l, q>> \in AttemptKeys
    BY DEF AttemptKeys
  <2> DEFINE r == Settle(mem, key, <<l, q>>, LinkGen[mem.topology][l])
             p == <<mem>>
  <2>3. r \in Seq(B) /\ Len(r) \in {1, 2}
    BY <1>2, <1>4, <2>2, SettleBound DEF B
  <2>4. p \in Seq(B) /\ Len(p) = 1
    BY <1>2
  <2> HIDE DEF r, p
  <2>5. p \o r \in Seq(B) /\ Len(p \o r) >= 1
    BY <2>3, <2>4, Joined
  <2>6. QED
    BY <1>7, <2>1, <2>5 DEF r, p
<1>10. ASSUME NEW l \in Links, NEW key \in Keys \cup {NoKey},
               NEW phase \in {"Refused", "Indeterminate"}, RefuseAttempt(l, key, phase)
       PROVE  ChainTo(Dated, B)
  <2> DEFINE g == LinkGen[mem.topology][l]
             j == NextAttempt(l)
             a == [NoAttempt EXCEPT !.phase = phase, !.gen = g]
             d == note_attempt(mem, j, a)
             r == Settle(d, key, j, g)
             p == <<mem, d>>
  <2>1. j \in AttemptKeys
    BY <1>2, <1>10, NextAttemptType DEF RefuseAttempt
  <2>2. a \in Attempt /\ a.epoch = 0 /\ a.phase \notin HoldsAuthority
    BY <1>4 DEF Attempt, NoAttempt, Phases, Terminal, HoldsAuthority
  <2>3. HandlerMayCompact(p \o r)
    BY <1>10 DEF RefuseAttempt
  <2> HIDE DEF a, j
  <2>4. d \in B
    BY <1>2, <1>3, <2>1, <2>2, NoteAttemptKeepsBound DEF B
  <2> HIDE DEF d
  <2>5. r \in Seq(B) /\ Len(r) \in {1, 2}
    BY <1>4, <2>1, <2>4, SettleBound DEF B
  <2>6. p \in Seq(B) /\ Len(p) = 2
    BY <1>2, <2>4
  <2> HIDE DEF p, r
  <2>7. p \o r \in Seq(B) /\ Len(p \o r) >= 1
    BY <2>5, <2>6, Joined
  <2>8. QED
    BY <1>7, <2>3, <2>7
<1>11. ASSUME NEW l \in Links, NEW key \in Keys \cup {NoKey}, Grant(l, key)
       PROVE  ChainTo(Dated, B)
  <2> DEFINE g == LinkGen[mem.topology][l]
             j == NextAttempt(l)
             a == [phase |-> "Evaluated", gen |-> g, epoch |-> mem.epoch,
                   policy |-> mem.policy, topology |-> mem.topology,
                   revalidation |-> "None"]
             b == [a EXCEPT !.phase = "Authorized"]
             d1 == note_attempt(mem, j, a)
             d2 == note_attempt(d1, j, b)
             r == Settle(d2, key, j, g)
             p == <<mem, d1, d2>>
  <2>1. j \in AttemptKeys
    BY <1>2, <1>11, NextAttemptType DEF Grant
  <2>2. /\ a \in Attempt /\ a.epoch = mem.epoch
        /\ a.policy = mem.policy /\ a.topology = mem.topology
    BY <1>3, <1>4 DEF Attempt, Phases, InFlight
  <2>3. HandlerMayCompact(p \o r)
    BY <1>11 DEF Grant, GrantChain, HandlerMayCompact, Handler
  <2> HIDE DEF a, j
  <2>4. /\ b \in Attempt /\ b.epoch = mem.epoch
        /\ b.policy = mem.policy /\ b.topology = mem.topology
    BY <1>6, <2>2 DEF Phases, InFlight
  <2> HIDE DEF b
  <2>5. d1 \in B
    BY <1>2, <1>3, <2>1, <2>2, NoteAttemptKeepsBound DEF B
  <2>6. d1.epoch = mem.epoch /\ d1.policy = mem.policy /\ d1.topology = mem.topology
    BY <1>2, <1>3, <2>1, <2>2, NoteAttemptBound
  <2> HIDE DEF d1
  <2>7. d2 \in B
    BY <1>3, <2>1, <2>4, <2>5, <2>6, NoteAttemptKeepsBound DEF B
  <2> HIDE DEF d2
  <2>8. r \in Seq(B) /\ Len(r) \in {1, 2}
    BY <1>4, <2>1, <2>7, SettleBound DEF B
  <2>9. p \in Seq(B) /\ Len(p) = 3
    BY <1>2, <2>5, <2>7
  <2> HIDE DEF p, r
  <2>10. p \o r \in Seq(B) /\ Len(p \o r) >= 1
    BY <2>8, <2>9, Joined
  <2>11. QED
    BY <1>7, <2>3, <2>10
<1>12. ASSUME NEW k \in AttemptKeys, NEW yes \in BOOLEAN, RecordApplication(k, yes)
       PROVE  ChainTo(Dated, B)
  <2> DEFINE At(ph) == note_attempt(mem, k, [mem.attempts[k] EXCEPT !.phase = ph])
  <2>1. mem.attempts[k].phase \in HoldsAuthority
    BY <1>12 DEF RecordApplication, AwaitsApplication, HoldsAuthority
  <2>2. \A ph \in {"Aborted", "Acknowledged", "Committed"} : At(ph) \in B
    BY <1>8, <2>1 DEF Phases, Terminal, InFlight
  <2>3. PICK ph \in {"Aborted", "Acknowledged", "Committed"} :
           HandlerMayCompact(<<mem, At(ph), At(ph)>>)
    BY <1>12 DEF RecordApplication
  <2> HIDE DEF At
  <2>4. <<mem, At(ph), At(ph)>> \in Seq(B) /\ Len(<<mem, At(ph), At(ph)>>) >= 1
    BY <1>2, <2>2
  <2>5. QED
    BY <1>7, <2>3, <2>4
<1>13. ASSUME NEW k \in AttemptKeys, NEW yes \in BOOLEAN, RecordVerification(k, yes)
       PROVE  ChainTo(Dated, B)
  <2> DEFINE At(ph) == note_attempt(mem, k, [mem.attempts[k] EXCEPT !.phase = ph])
  <2>1. mem.attempts[k].phase \in HoldsAuthority
    BY <1>13 DEF RecordVerification, HoldsAuthority
  <2>2. At("Indeterminate") \in B /\ At("Verified") \in B /\ At("Committed") \in B
    BY <1>8, <2>1 DEF Phases, Terminal, InFlight
  <2>3. \/ HandlerMayCompact(<<mem, At("Indeterminate"), At("Indeterminate")>>)
        \/ HandlerMayCompact(<<mem, At("Verified"), At("Committed"), At("Committed")>>)
    BY <1>13 DEF RecordVerification, HandlerMayCompact
  <2> HIDE DEF At
  <2> DEFINE c1 == <<mem, At("Indeterminate"), At("Indeterminate")>>
             c2 == <<mem, At("Verified"), At("Committed"), At("Committed")>>
  <2>4. c1 \in Seq(B) /\ Len(c1) >= 1 /\ c2 \in Seq(B) /\ Len(c2) >= 1
    BY <1>2, <2>2
  <2> HIDE DEF c1, c2
  <2>5. QED
    BY <1>7, <2>3, <2>4 DEF c1, c2
<1>14. ASSUME NEW k \in AttemptKeys, NEW key \in Keys \cup {NoKey}, RequestRollback(k, key)
       PROVE  ChainTo(Dated, B)
  <2> DEFINE d1 == note_attempt(mem, k, [mem.attempts[k] EXCEPT !.phase = "RolledBack"])
             d2 == note_fence(d1, "RollbackRevoked", k)
             r == Settle(d2, key, k, mem.attempts[k].gen)
             p == <<mem, d1, d2>>
  <2>1. d1 \in B
    BY <1>8 DEF Phases, Terminal, HoldsAuthority
  <2>2. d2 \in B
    BY <2>1, NoteFenceBound DEF FenceKinds, B
  <2>3. mem.attempts[k].gen \in Nat
    BY <1>3 DEF Attempt
  <2>4. HandlerMayCompact(p \o r)
    BY <1>14 DEF RequestRollback, HandlerMayCompact
  <2> HIDE DEF d1, d2
  <2>5. r \in Seq(B) /\ Len(r) \in {1, 2}
    BY <2>2, <2>3, SettleBound DEF B
  <2>6. p \in Seq(B) /\ Len(p) = 3
    BY <1>2, <2>1, <2>2
  <2> HIDE DEF p, r
  <2>7. p \o r \in Seq(B) /\ Len(p \o r) >= 1
    BY <2>5, <2>6, Joined
  <2>8. QED
    BY <1>7, <2>4, <2>7
<1>15. ASSUME NEW k \in AttemptKeys, NEW verdict \in Verdicts, ResolveInterrupted(k, verdict)
       PROVE  ChainTo(Dated, B)
  <2> DEFINE b == Revalidated(mem, mem.attempts[k], verdict)
             d == note_attempt(mem, k, b)
             c == <<mem, d, d>>
  <2>1. mem.attempts[k].phase = "Interrupted" /\ HandlerMayCompact(c)
    BY <1>15 DEF ResolveInterrupted, HandlerMayCompact
  <2>2. /\ b \in Attempt /\ b.epoch <= mem.epoch
        /\ b.phase \in HoldsAuthority => b.policy = mem.policy /\ b.topology = mem.topology
    <3>1. CASE verdict = "Applied"
      <4>1. b = [[mem.attempts[k] EXCEPT !.revalidation = verdict] EXCEPT
                    !.phase = "Committed", !.epoch = mem.epoch, !.policy = mem.policy,
                    !.topology = mem.topology]
        BY <3>1 DEF Revalidated
      <4>2. /\ b \in Attempt /\ b.epoch = mem.epoch
            /\ b.policy = mem.policy /\ b.topology = mem.topology
        BY <1>3, <3>1, <4>1 DEF Attempt, Verdicts, Phases, Terminal
      <4>3. QED
        BY <1>3, <4>2
    <3>2. CASE verdict \in {"NotApplied", "Unknown"}
      <4>1. \/ b = [mem.attempts[k] EXCEPT !.revalidation = verdict]
            \/ b = [[mem.attempts[k] EXCEPT !.revalidation = verdict] EXCEPT !.phase = "Aborted"]
        BY <3>2 DEF Revalidated
      <4>2. /\ b \in Attempt /\ b.epoch = mem.attempts[k].epoch
            /\ b.phase \in {"Interrupted", "Aborted"}
        BY <1>3, <2>1, <3>2, <4>1 DEF Attempt, Verdicts, Phases, Terminal
      <4>3. QED
        BY <1>3, <4>2 DEF HoldsAuthority
    <3>3. QED
      BY <3>1, <3>2 DEF Verdicts
  <2> HIDE DEF b
  <2>3. d \in B
    BY <1>2, <2>2, NoteAttemptKeepsBound DEF B
  <2> HIDE DEF d
  <2>4. c \in Seq(B) /\ Len(c) >= 1
    BY <1>2, <2>3
  <2> HIDE DEF c
  <2>5. QED
    BY <1>7, <2>1, <2>4
<1>16. ASSUME NEW d \in Dated, Holders(d) = Holders(mem), NEW kind \in FenceKinds,
               Redefine(d, kind)
       PROVE  ChainTo(Dated, B)
  <2>1. Holders(mem) \in SUBSET AttemptKeys
    BY DEF Holders
  <2>2. PICK o \in Orders(Holders(mem)) :
           HandlerMayCompact(<<mem>> \o FencingPass(d, o, kind, "Aborted"))
    BY <1>16 DEF Redefine, HandlerMayCompact
  <2>3. /\ o \in Seq(AttemptKeys)
        /\ \A k \in Holders(d) : \E i \in 1..Len(o) : o[i] = k
    BY <1>16, <2>1, OrdersType
  <2>4. \A n \in 0..(2 * Len(o)) : Fenced(d, o, kind, "Aborted", n) \in Dated
    BY <1>16, <2>3, FencedDated DEF Phases, Terminal
  <2> DEFINE r == FencingPass(d, o, kind, "Aborted")
             p == <<mem>>
  <2>5. /\ r \in Seq(Dated) /\ Len(r) = 2 * Len(o) + 1
        /\ r[2 * Len(o) + 1] = Fenced(d, o, kind, "Aborted", 2 * Len(o))
    <3>1. o \in Seq(AttemptKeys)
      BY <2>3
    <3>2. r \in Seq(Dated)
      BY <3>1, <2>4, FencingPassType
    <3>3. QED
      BY <3>1, <3>2, FencingPassEnd
  <2>6. Fenced(d, o, kind, "Aborted", 2 * Len(o)) \in B
    BY <1>16, <2>3, FencedAllHolders DEF B
  <2>7. p \in Seq(Dated)
    BY <1>2
  <2> HIDE DEF p, r
  <2>8. Len(o) \in Nat
    BY <2>3
  <2>9. Len(r) >= 1 /\ r[Len(r)] \in B
    BY <2>5, <2>6, <2>8
  <2>10. p \o r \in Seq(Dated) /\ p \o r # <<>> /\ (p \o r)[Len(p \o r)] \in B
    BY <2>5, <2>7, <2>9, Prefixed
  <2>11. QED
    BY <2>2, <2>10 DEF ChainTo, p, r
<1>17. ASSUME NEW p \in DOMAIN PolicyOf, SetPolicy(p)
       PROVE  ChainTo(Dated, B)
  <2> DEFINE d == [mem EXCEPT !.policy = p]
  <2>1. d \in DurableState /\ d.attempts = mem.attempts /\ d.epoch = mem.epoch
    BY <1>2 DEF DurableState
  <2>2. Redefine(d, "PolicyChanged")
    BY <1>17 DEF SetPolicy
  <2> HIDE DEF d
  <2>3. d \in Dated /\ Holders(d) = Holders(mem)
    BY <1>2, <2>1 DEF Dated, EpochsWithin, Holders
  <2>4. QED
    BY <1>16, <2>2, <2>3 DEF FenceKinds
<1>18. ASSUME NEW t \in DOMAIN LinkGen, SetTopology(t)
       PROVE  ChainTo(Dated, B)
  <2> DEFINE d == [mem EXCEPT !.topology = t]
  <2>1. d \in DurableState /\ d.attempts = mem.attempts /\ d.epoch = mem.epoch
    BY <1>2 DEF DurableState
  <2>2. Redefine(d, "TopologyChanged")
    BY <1>18 DEF SetTopology
  <2> HIDE DEF d
  <2>3. d \in Dated /\ Holders(d) = Holders(mem)
    BY <1>2, <2>1 DEF Dated, EpochsWithin, Holders
  <2>4. QED
    BY <1>16, <2>2, <2>3 DEF FenceKinds
<1>19. ASSUME Checkpoint PROVE ChainTo(Dated, B)
  <2>1. HandlerMayCompact(<<mem>>)
    BY <1>19 DEF Checkpoint, HandlerMayCompact
  <2>2. <<mem>> \in Seq(Dated) /\ <<mem>> # <<>> /\ <<mem>>[Len(<<mem>>)] = mem
    BY <1>2
  <2>3. QED
    BY <1>2, <2>1, <2>2 DEF ChainTo
<1>20. ChainTo(Dated, B)
  BY <1>9, <1>10, <1>11, <1>12, <1>13, <1>14, <1>15, <1>17, <1>18, <1>19 DEF Serves
<1>21. QED
  BY <1>20 DEF B

\* A rotated journal changes no attempt.
LEMMA RotatedBound ==
    /\ \A d \in Dated : [d EXCEPT !.uncovered = FALSE] \in Dated
    /\ \A d \in DatedBound : [d EXCEPT !.uncovered = FALSE] \in DatedBound
    /\ Fresh \in DatedBound
<1>1. ASSUME NEW d \in Dated
      PROVE  /\ [d EXCEPT !.uncovered = FALSE] \in Dated
             /\ Bound(d) => Bound([d EXCEPT !.uncovered = FALSE])
  <2> DEFINE e == [d EXCEPT !.uncovered = FALSE]
  <2>1. d \in DurableState
    BY DEF Dated
  <2>2. /\ e \in DurableState /\ e.attempts = d.attempts
        /\ e.epoch = d.epoch /\ e.policy = d.policy /\ e.topology = d.topology
    BY <2>1 DEF DurableState
  <2> HIDE DEF e
  <2>3. e \in Dated /\ (Bound(d) => Bound(e))
    BY <2>2 DEF Dated, EpochsWithin, Bound, Holders
  <2>4. QED
    BY <2>3 DEF e
<1>2. Fresh \in Dated
  BY FreshType DEF Dated, EpochsWithin, Fresh, NoAttempt
<1>3. Bound(Fresh)
  BY DEF Bound, Holders, Fresh, NoAttempt, HoldsAuthority
<1>4. QED
  BY <1>1, <1>2, <1>3 DEF DatedBound

\* The invariant holds initially.
LEMMA LiveInit == Init => LiveInv
<1>1. EpochsWithin(Fresh)
  BY RotatedBound DEF DatedBound, Dated
<1>2. QED
  BY <1>1, TypeInit DEF Init, LiveInv

\* A boot dates every record of the lineage before its own epoch, so nothing a
\* predecessor granted counts as live.
LEMMA OpenLive ==
    ASSUME LiveInv, Open
    PROVE  /\ durable' \in Dated
           /\ status' = "up" => mem' \in DatedBound
<1> DEFINE boot == [durable EXCEPT !.epoch = @ + 1]
<1>1. /\ durable \in DurableState /\ EpochsWithin(durable) /\ status = "down"
      /\ durable \in Dated
  BY DEF LiveInv, TypeOK, Open, Dated
<1>2. /\ boot \in DurableState /\ boot.attempts = durable.attempts
      /\ boot.epoch = durable.epoch + 1
  BY <1>1 DEF DurableState
<1>3. \A k \in AttemptKeys :
         /\ durable.attempts[k] \in Attempt /\ durable.attempts[k].epoch \in Nat
         /\ durable.attempts[k].epoch <= durable.epoch /\ durable.epoch \in Nat
  BY <1>1 DEF DurableState, EpochsWithin, Attempt
<1> HIDE DEF boot
<1>4. boot \in Dated
  BY <1>2, <1>3 DEF Dated, EpochsWithin
<1> DEFINE Pass(o, n) == Fenced(boot, o, "PreRestartAuthority", "Interrupted", n)
<1>5. "PreRestartAuthority" \in FenceKinds /\ "Interrupted" \in Phases
  BY DEF FenceKinds, Phases, Terminal
<1>6. \A o \in Seq(AttemptKeys) : \A n \in 0..(2 * Len(o)) : Pass(o, n) \in Dated
  BY <1>4, <1>5, FencedDated
<1>7. /\ durable' \in Dated
      /\ \/ UNCHANGED <<status, mem>>
         \/ /\ mem' \in Dated
            /\ \E o \in Seq(AttemptKeys) : mem' = Pass(o, 2 * Len(o))
  BY <1>1, <1>6, OpenChain DEF boot
<1>8. ASSUME NEW o \in Seq(AttemptKeys) PROVE Bound(Pass(o, 2 * Len(o)))
  <2> DEFINE e == Pass(o, 2 * Len(o))
  <2>1. 2 * Len(o) \in 0..(2 * Len(o))
    <3>1. Len(o) \in Nat
      OBVIOUS
    <3>2. QED
      BY <3>1
  <2>2. /\ e.epoch = boot.epoch
        /\ \A k \in AttemptKeys :
              \/ e.attempts[k] = [boot.attempts[k] EXCEPT !.phase = "Interrupted"]
              \/ e.attempts[k] = boot.attempts[k]
    BY <1>2, <1>5, <2>1, FencedAttempts
  <2> HIDE DEF e
  <2>3. \A k \in AttemptKeys : e.attempts[k].epoch = durable.attempts[k].epoch
    <3> SUFFICES ASSUME NEW k \in AttemptKeys
                 PROVE  e.attempts[k].epoch = durable.attempts[k].epoch
      OBVIOUS
    <3> DEFINE a == durable.attempts[k]
    <3>1. a \in Attempt /\ boot.attempts[k] = a
      BY <1>2, <1>3
    <3>2. e.attempts[k] = a \/ e.attempts[k] = [a EXCEPT !.phase = "Interrupted"]
      BY <2>2, <3>1
    <3> HIDE DEF a
    <3>3. [a EXCEPT !.phase = "Interrupted"].epoch = a.epoch
      BY <3>1 DEF Attempt
    <3>4. QED
      BY <3>2, <3>3 DEF a
  <2>4. \A k \in AttemptKeys : e.attempts[k].epoch # e.epoch
    BY <1>2, <1>3, <2>2, <2>3
  <2>5. Bound(e)
    BY <2>4 DEF Bound, Holders
  <2>6. QED
    BY <2>5 DEF e
<1>9. QED
  BY <1>1, <1>7, <1>8 DEF DatedBound

\* Every step keeps the invariant.
LEMMA LiveNext == LiveInv /\ [Next]_vars => LiveInv'
<1> SUFFICES ASSUME LiveInv, [Next]_vars PROVE LiveInv'
  OBVIOUS
<1>1. TypeOK'
  BY TypeNext DEF LiveInv
<1>2. mem \in Dated /\ durable \in Dated
  BY DEF LiveInv, TypeOK, Dated
<1>3. CASE Serves
  <2>1. PICK c \in Seq(Dated) : c # <<>> /\ c[Len(c)] \in DatedBound /\ HandlerMayCompact(c)
    BY <1>3, LiveChain DEF ChainTo
  <2>2. Fresh \in Dated /\ \A d \in Dated : [d EXCEPT !.uncovered = FALSE] \in Dated
    BY RotatedBound DEF DatedBound
  <2>3. /\ mem' \in Dated /\ durable' \in Dated
        /\ status' = "up" /\ health' # "storeFailed" =>
              mem' \in {c[Len(c)], [c[Len(c)] EXCEPT !.uncovered = FALSE]}
    BY <2>1, <2>2, Outcomes
  <2>4. [c[Len(c)] EXCEPT !.uncovered = FALSE] \in DatedBound
    BY <2>1, RotatedBound
  <2>5. QED
    BY <1>1, <2>1, <2>3, <2>4 DEF LiveInv, Dated, DatedBound
<1>4. CASE Close \/ Crash
  <2>1. /\ mem' = Fresh /\ status' = "down"
        /\ durable' \in {durable, mem, [mem EXCEPT !.uncovered = FALSE]}
    BY <1>4 DEF Close, Crash
  <2>2. mem' \in Dated /\ durable' \in Dated
    BY <1>2, <2>1, RotatedBound DEF DatedBound
  <2>3. QED
    BY <1>1, <2>1, <2>2 DEF LiveInv, Dated
<1>5. CASE Open
  <2>1. durable' \in Dated /\ (status' = "up" => mem' \in DatedBound)
    BY <1>5, OpenLive
  <2>2. status' = "up" \/ mem' = mem
    BY <1>5 DEF Open
  <2>3. status = "down"
    BY <1>5 DEF Open
  <2>4. QED
    BY <1>1, <1>2, <2>1, <2>2 DEF LiveInv, Dated, DatedBound
<1>6. CASE UNCHANGED vars
  BY <1>1, <1>6 DEF vars, LiveInv, EpochsWithin, Bound, Holders
<1>7. QED
  BY <1>3, <1>4, <1>5, <1>6 DEF Next

\* README, invariant 9, for every number of links, policies, topologies and limits:
\* while the lineage accepts appends, every attempt that holds authority in the
\* current epoch is bound to the current policy and topology.
THEOREM LiveBindingHolds == Spec => []LiveBinding
<1>1. LiveInv => LiveBinding
  BY DEF LiveInv, LiveBinding, Bound, Holders
<1>2. QED
  BY <1>1, LiveInit, LiveNext, PTL DEF Spec

(***************************************************************************)
(* One winner, nothing lost, nothing revived.  These hold while the attempt *)
(* table evicts nothing and the generations of a link do not go back: the  *)
(* eviction run shows what becomes of the first without the one, and       *)
(* set_topology compares generations of topologies, not of links.          *)
(***************************************************************************)

\* No record is ever evicted.
Roomy == MaxAttempts >= Cardinality(AttemptKeys)

\* Where a link is in the topology its generation is not below an earlier one.
Advancing ==
    \A t, u \in DOMAIN LinkGen, l \in Links :
        t <= u /\ LinkGen[u][l] # 0 => LinkGen[t][l] <= LinkGen[u][l]

\* No entry of the idempotency index is ever evicted.
Ample == IsFiniteSet(Keys) /\ MaxIdempotency >= Cardinality(Keys)

Gen(d, l, q) == d.attempts[<<l, q>>].gen

\* A slot is empty or holds a generation some topology so far gave its link.
Generated(d) ==
    \A k \in AttemptKeys :
        \/ d.attempts[k] = NoAttempt
        \/ /\ d.attempts[k].phase # "Absent" /\ d.attempts[k].gen # 0
           /\ \E t \in 1..d.topology : d.attempts[k].gen = LinkGen[t][k[1]]

\* A new generation fills the slots of a link from the first one on.
Layered(d) ==
    \A l \in Links : \A q, r \in Seqs : q < r => Gen(d, l, r) <= Gen(d, l, q)

\* A claim is the latest attempt of its generation.
ClaimIsLatest(d) ==
    \A l \in Links : \A q, r \in Seqs :
        <<l, q>> \in Claims(d) /\ q < r => Gen(d, l, r) # Gen(d, l, q)

\* No key is indexed twice.
IndexedOnce(d) ==
    \A i, j \in DOMAIN d.idempotency : d.idempotency[i].key = d.idempotency[j].key => i = j

\* The states of a lineage.
Orderly ==
    {d \in Dated : Generated(d) /\ Layered(d) /\ ClaimIsLatest(d) /\ (Ample => IndexedOnce(d))}

\* Between requests no intent is left without its grant, and what is in flight is
\* the running coordinator's.
Ready(d) ==
    \A k \in AttemptKeys :
        /\ d.attempts[k].phase # "Evaluated"
        /\ d.attempts[k].phase \in InFlight => d.attempts[k].epoch = d.epoch

\* The phases of an attempt whose grant was answered.
PastGrant == HoldsAuthority \cup {"Interrupted", "Aborted", "RolledBack", "Indeterminate"}

\* What may become of a record while its slot keeps the generation.
Later(a, b) ==
    /\ a.phase \in Dead => b = a
    /\ a.phase \in PastGrant => b.phase \in PastGrant

\* What may become of a record at all.
Follows(a, b) == b.gen > a.gen \/ (b.gen = a.gen /\ Later(a, b))

\* A running coordinator takes the lineage from d to e, writing the attempts ks and
\* new ones, of generations nobody holds.
Continues(d, e, ks) ==
    /\ e.epoch = d.epoch
    /\ \A k \in AttemptKeys :
          LET a == d.attempts[k]
              b == e.attempts[k]
          IN  \/ b = a
              \/ /\ k \in ks /\ b.gen = a.gen /\ Later(a, b)
                 /\ b.phase \in HoldsAuthority =>
                       b.epoch = d.epoch \/ (a.phase \in HoldsAuthority /\ b.epoch = a.epoch)
              \/ /\ b.gen > a.gen /\ active_authority(d, k[1], b.gen) = {}
                 /\ b.phase \in HoldsAuthority => b.epoch = d.epoch
                 /\ \A q \in Seqs : Gen(d, k[1], q) <= b.gen
    /\ Ample => \A key : find_idempotency(d, key) => find_idempotency(e, key)

\* A grant the running coordinator stands by: its record is active, or a newer
\* generation has its slot, and no later attempt is of its generation.
Stands(d, r) ==
    /\ \/ d.attempts[r.attempt].gen > r.gen
       \/ Holding(d, r.attempt, r.gen) /\ d.attempts[r.attempt].epoch = d.epoch
    /\ \A q \in Seqs : q > r.attempt[2] => Gen(d, r.attempt[1], q) # r.gen

\* An answered grant is in the table, or a newer generation is.
Remembers(d, r) ==
    \/ d.attempts[r.attempt].gen > r.gen
    \/ d.attempts[r.attempt].gen = r.gen /\ d.attempts[r.attempt].phase \in PastGrant

\* The lineage on both sides, and the two agree while appends succeed.
LineageInv ==
    /\ TypeOK /\ mem \in Orderly /\ durable \in Orderly
    /\ CanAppend => Ready(mem) /\ durable = mem

\* What the running coordinator stands by.
StandingInv ==
    /\ status = "down" => standing = {}
    /\ \A r \in standing : Stands(mem, r)
    /\ SingleWinner

\* What callers were told: no attempt was granted twice, and no key that is indexed.
AckedInv ==
    /\ \A r \in acked : Remembers(durable, r)
    /\ \A r, s \in acked : r.attempt = s.attempt /\ r.gen = s.gen => r = s
    /\ Ample => /\ \A r \in acked : r.indexed => r.key # NoKey /\ find_idempotency(durable, r.key)
                /\ \A r, s \in acked : r.key = s.key /\ r.indexed /\ s.indexed => r = s

AuthorityInv == LineageInv /\ StandingInv /\ AckedInv

\* A table that is never full loses nothing.
LEMMA NoEviction ==
    ASSUME Roomy, NEW d \in DurableState, NEW k \in AttemptKeys, NEW a \in Attempt
    PROVE  note_attempt(d, k, a) = [d EXCEPT !.attempts = [d.attempts EXCEPT ![k] = a]]
<1> DEFINE t == [d.attempts EXCEPT ![k] = a]
           used == {j \in AttemptKeys : t[j].phase # "Absent"}
           final == {j \in used : t[j].phase \in Terminal}
           excess == Cardinality(used) - MaxAttempts
           victims == {j \in final : Cardinality({i \in final : Before(i, j)}) < excess}
<1>1. t \in [AttemptKeys -> Attempt]
  BY DEF DurableState
<1>2. Cardinality(used) \in Nat /\ Cardinality(used) <= Cardinality(AttemptKeys)
  <2>1. used \in SUBSET AttemptKeys
    OBVIOUS
  <2> HIDE DEF used
  <2>2. QED
    BY <2>1, KeysFinite, FS_Subset
<1>3. excess <= 0 /\ excess \in Int
  BY <1>2, KeysFinite, LimitsAssumption DEF Roomy
<1>4. victims = {}
  <2> SUFFICES ASSUME NEW j \in victims PROVE FALSE
    OBVIOUS
  <2> DEFINE before == {i \in final : Before(i, j)}
  <2>1. before \in SUBSET AttemptKeys /\ Cardinality(before) < excess
    OBVIOUS
  <2> HIDE DEF before
  <2>2. Cardinality(before) \in Nat
    BY <2>1, KeysFinite
  <2> HIDE DEF excess
  <2>3. QED
    BY <1>3, <2>1, <2>2
<1>5. evict_attempts(t) = [j \in AttemptKeys |-> IF j \in victims THEN NoAttempt ELSE t[j]]
  BY DEF evict_attempts
<1> HIDE DEF victims
<1>6. evict_attempts(t) = t
  BY <1>1, <1>4, <1>5
<1>7. QED
  BY <1>6 DEF note_attempt

\* What a record of the lineage is made of.
LEMMA OrderlyFacts ==
    ASSUME NEW d \in Orderly
    PROVE  /\ d \in Dated /\ d \in DurableState
           /\ d.attempts \in [AttemptKeys -> Attempt]
           /\ d.epoch \in Nat /\ d.topology \in Nat \ {0}
           /\ \A k \in AttemptKeys : /\ d.attempts[k] \in Attempt /\ d.attempts[k].gen \in Nat
                                     /\ d.attempts[k].epoch \in Nat
                                     /\ d.attempts[k].epoch <= d.epoch
           /\ \A l \in Links, q \in Seqs : <<l, q>> \in AttemptKeys /\ Gen(d, l, q) \in Nat
<1>1. d \in Dated /\ d \in DurableState /\ EpochsWithin(d)
  BY DEF Orderly, Dated
<1>2. d.attempts \in [AttemptKeys -> Attempt] /\ d.epoch \in Nat /\ d.topology \in DOMAIN LinkGen
  BY <1>1 DEF DurableState
<1>3. d.topology \in Nat \ {0}
  BY <1>2, TopologyAssumption
<1>4. \A k \in AttemptKeys : /\ d.attempts[k] \in Attempt /\ d.attempts[k].gen \in Nat
                             /\ d.attempts[k].epoch \in Nat
                             /\ d.attempts[k].epoch <= d.epoch
  BY <1>1, <1>2 DEF Attempt, EpochsWithin
<1>5. \A l \in Links, q \in Seqs : <<l, q>> \in AttemptKeys /\ Gen(d, l, q) \in Nat
  BY <1>4 DEF Gen, AttemptKeys
<1>6. QED
  BY <1>1, <1>2, <1>3, <1>4, <1>5

\* Changes that leave every record its generation and make no new claim.
LEMMA ChangedOrderly ==
    ASSUME NEW d \in Orderly, NEW e \in Dated, e.topology >= d.topology,
           Ample => IndexedOnce(e), Claims(e) \subseteq Claims(d),
           \A k \in AttemptKeys :
              /\ e.attempts[k].gen = d.attempts[k].gen
              /\ d.attempts[k] = NoAttempt => e.attempts[k] = NoAttempt
              /\ d.attempts[k].phase # "Absent" => e.attempts[k].phase # "Absent"
    PROVE  e \in Orderly
<1>1. /\ Generated(d) /\ Layered(d) /\ ClaimIsLatest(d)
      /\ \A l \in Links, q \in Seqs : <<l, q>> \in AttemptKeys
      /\ d.topology \in Nat
  BY OrderlyFacts DEF Orderly
<1>2. e.topology \in Nat
  BY TopologyAssumption DEF Dated, DurableState
<1>3. Generated(e)
  <2> SUFFICES ASSUME NEW k \in AttemptKeys
               PROVE  \/ e.attempts[k] = NoAttempt
                      \/ /\ e.attempts[k].phase # "Absent" /\ e.attempts[k].gen # 0
                         /\ \E t \in 1..e.topology : e.attempts[k].gen = LinkGen[t][k[1]]
    BY DEF Generated
  <2>1. CASE d.attempts[k] = NoAttempt
    BY <2>1
  <2>2. CASE d.attempts[k] # NoAttempt
    <3>1. PICK t \in 1..d.topology : d.attempts[k].gen = LinkGen[t][k[1]]
      BY <1>1, <2>2 DEF Generated
    <3>2. t \in 1..e.topology
      BY <1>1, <1>2
    <3>3. d.attempts[k].phase # "Absent" /\ d.attempts[k].gen # 0
      BY <1>1, <2>2 DEF Generated
    <3>4. QED
      BY <3>1, <3>2, <3>3
  <2>3. QED
    BY <2>1, <2>2
<1>4. \A l \in Links, q \in Seqs : Gen(e, l, q) = Gen(d, l, q)
  BY <1>1 DEF Gen
<1>5. Layered(e)
  BY <1>1, <1>4 DEF Layered
<1>6. ClaimIsLatest(e)
  BY <1>1, <1>4 DEF ClaimIsLatest
<1>7. QED
  BY <1>3, <1>5, <1>6 DEF Orderly

\* The current generation of a link is its latest.
LEMMA CurrentIsNewest ==
    ASSUME Advancing, NEW d \in Orderly, NEW l \in Links, LinkGen[d.topology][l] # 0,
           NEW q \in Seqs
    PROVE  Gen(d, l, q) <= LinkGen[d.topology][l]
<1> DEFINE k == <<l, q>>
<1>1. k \in AttemptKeys /\ d.topology \in Nat \ {0} /\ Generated(d)
  BY OrderlyFacts DEF Orderly
<1>2. d.topology \in DOMAIN LinkGen /\ LinkGen[d.topology][l] \in Nat
  BY OrderlyFacts, Definitions DEF DurableState
<1>3. CASE d.attempts[k] = NoAttempt
  BY <1>2, <1>3 DEF NoAttempt, Gen
<1>4. CASE d.attempts[k] # NoAttempt
  <2>1. PICK t \in 1..d.topology : d.attempts[k].gen = LinkGen[t][k[1]]
    BY <1>1, <1>4 DEF Generated
  <2>2. t \in DOMAIN LinkGen /\ t <= d.topology
    BY <1>1, <1>2, TopologyAssumption
  <2>3. LinkGen[t][l] <= LinkGen[d.topology][l]
    BY <1>2, <2>2 DEF Advancing
  <2>4. QED
    BY <2>1, <2>3 DEF Gen
<1>5. QED
  BY <1>3, <1>4

\* The attempts of the latest generation fill the first slots, so that their number
\* gives the next one.
LEMMA Filled ==
    ASSUME NEW d \in Orderly, NEW l \in Links, NEW g \in Nat \ {0},
           \A q \in Seqs : Gen(d, l, q) <= g
    PROVE  /\ count_attempts(d, l, g) \in Nat
           /\ \A q \in Seqs : q <= count_attempts(d, l, g) <=> Gen(d, l, q) = g
           /\ \A q \in Seqs : q \in Of(d, l, g) <=> Gen(d, l, q) = g
<1> DEFINE S == Of(d, l, g)
           n == Cardinality(S)
<1>1. \A q \in Seqs : Gen(d, l, q) \in Nat /\ <<l, q>> \in AttemptKeys
  BY OrderlyFacts
<1>2. \A q \in Seqs : q \in S <=> Gen(d, l, q) = g
  <2> SUFFICES ASSUME NEW q \in Seqs, Gen(d, l, q) = g PROVE q \in S
    BY DEF Of, Gen
  <2>1. d.attempts[<<l, q>>] # NoAttempt
    BY DEF NoAttempt, Gen
  <2>2. QED
    BY <1>1, <2>1 DEF Orderly, Generated, Of, Gen
<1>3. S \in SUBSET Seqs
  BY DEF Of
<1>4. IsFiniteSet(S) /\ n \in Nat
  BY <1>3, KeysFinite
<1>5. ASSUME NEW q \in S PROVE q <= n
  <2>1. q \in Seqs /\ q \in Nat \ {0}
    BY <1>3 DEF Seqs
  <2>2. 1..q \in SUBSET S
    <3> SUFFICES ASSUME NEW p \in 1..q PROVE p \in S
      OBVIOUS
    <3>1. p \in Seqs /\ p <= q
      BY <2>1, LimitsAssumption DEF Seqs
    <3>2. Gen(d, l, q) = g /\ Layered(d)
      BY <1>2, <2>1 DEF Orderly
    <3>3. CASE p = q
      BY <3>3
    <3>4. CASE p < q
      <4>1. Gen(d, l, q) <= Gen(d, l, p)
        BY <2>1, <3>1, <3>2, <3>4 DEF Layered
      <4>2. Gen(d, l, p) <= g /\ Gen(d, l, p) \in Nat
        BY <1>1, <3>1
      <4>3. Gen(d, l, p) = g
        BY <3>2, <4>1, <4>2
      <4>4. QED
        BY <1>2, <3>1, <4>3
    <3>5. QED
      BY <2>1, <3>1, <3>3, <3>4
  <2>3. Cardinality(1..q) = q
    BY <2>1, FS_Interval
  <2> HIDE DEF S
  <2>4. Cardinality(1..q) <= Cardinality(S)
    BY <1>4, <2>2, FS_Subset
  <2>5. QED
    BY <2>3, <2>4
<1> HIDE DEF S
<1>6. S \in SUBSET (1..n)
  BY <1>3, <1>4, <1>5 DEF Seqs
<1>7. IsFiniteSet(1..n) /\ Cardinality(1..n) = n
  BY <1>4, FS_Interval
<1> HIDE DEF n
<1>8. S = 1..n
  BY <1>6, <1>7, FS_Subset DEF n
<1>9. \A q \in Seqs : q <= n <=> q \in S
  BY <1>4, <1>8 DEF Seqs
<1>10. n = count_attempts(d, l, g)
  BY DEF n, S, count_attempts
<1>11. QED
  BY <1>2, <1>4, <1>9, <1>10 DEF S

\* Writing one record changes one record.
LEMMA NoteAttemptFacts ==
    ASSUME Roomy, NEW d \in Orderly, NEW k \in AttemptKeys, NEW a \in Attempt, a.epoch <= d.epoch
    PROVE  LET e == note_attempt(d, k, a) IN
           /\ e \in Dated /\ e \in DurableState
           /\ e.epoch = d.epoch /\ e.topology = d.topology /\ e.policy = d.policy
           /\ e.idempotency = d.idempotency
           /\ e.attempts[k] = a
           /\ \A j \in AttemptKeys : j # k => e.attempts[j] = d.attempts[j]
<1> DEFINE e == note_attempt(d, k, a)
<1>1. d \in Dated /\ d \in DurableState /\ d.attempts \in [AttemptKeys -> Attempt]
  BY OrderlyFacts
<1>2. e = [d EXCEPT !.attempts = [d.attempts EXCEPT ![k] = a]]
  BY <1>1, NoEviction
<1>3. e \in Dated
  BY <1>1, NoteAttemptBound
<1>4. e \in DurableState
  BY <1>3 DEF Dated
<1> DEFINE t == [d.attempts EXCEPT ![k] = a]
<1>5. t[k] = a /\ \A j \in AttemptKeys : j # k => t[j] = d.attempts[j]
  BY <1>1
<1>6. e = [d EXCEPT !.attempts = t]
  BY <1>2
<1> HIDE DEF t, e
<1>7. /\ e.epoch = d.epoch /\ e.topology = d.topology /\ e.policy = d.policy
      /\ e.idempotency = d.idempotency /\ e.attempts = t
  BY <1>1, <1>6 DEF DurableState
<1>8. QED
  BY <1>3, <1>4, <1>5, <1>7 DEF e

\* Past the gates nobody claims the current generation of the link.
LEMMA NoClaims ==
    ASSUME NEW d \in Orderly, Ready(d), NEW l \in Links, NEW g \in Nat \ {0},
           \A q \in Seqs : Gen(d, l, q) <= g,
           active_authority(d, l, g) = {}, interrupted_attempt(d, l, g) = {},
           NEW q \in Seqs, Gen(d, l, q) = g
    PROVE  <<l, q>> \notin Claims(d)
<1> SUFFICES ASSUME <<l, q>> \in Claims(d) PROVE FALSE
  OBVIOUS
<1> DEFINE a == d.attempts[<<l, q>>]
<1>1. <<l, q>> \in AttemptKeys /\ q \in Of(d, l, g)
  BY OrderlyFacts, Filled
<1>2. a.phase \in InFlight \cup {"Interrupted"} \/ (a.phase \in HoldsAuthority /\ a.epoch = d.epoch)
  BY DEF Claims, Undecided
<1>3. a.phase # "Evaluated" /\ (a.phase \in InFlight => a.epoch = d.epoch)
  BY <1>1 DEF Ready
<1>4. CASE a.phase \in HoldsAuthority /\ a.epoch = d.epoch
  BY <1>1, <1>4 DEF active_authority
<1>5. CASE a.phase = "Interrupted"
  <2>1. \A r \in Of(d, l, g) : r <= q
    <3> SUFFICES ASSUME NEW r \in Of(d, l, g), ~(r <= q) PROVE FALSE
      OBVIOUS
    <3>1. r \in Seqs /\ Gen(d, l, r) = g
      BY DEF Of, Gen
    <3>2. q < r
      BY <3>1 DEF Seqs
    <3>3. QED
      BY <3>1, <3>2 DEF Orderly, ClaimIsLatest
  <2>2. QED
    BY <1>1, <1>5, <2>1 DEF interrupted_attempt, latest_attempt
<1>6. QED
  BY <1>2, <1>3, <1>4, <1>5 DEF InFlight, HoldsAuthority

\* A new attempt, whatever phase it is recorded in: it takes the slot of an older
\* generation, and is the only claim of its own.
LEMMA NewAttempt ==
    ASSUME Roomy, Advancing, NEW d \in Orderly, Ready(d), NEW l \in Links,
           NEW g, g = LinkGen[d.topology][l], g # 0,
           active_authority(d, l, g) = {}, interrupted_attempt(d, l, g) = {},
           NEW k \in AttemptKeys, k = <<l, count_attempts(d, l, g) + 1>>,
           NEW a \in Attempt, a.gen = g, a.phase # "Absent", a.epoch <= d.epoch,
           a.phase \in HoldsAuthority => a.epoch = d.epoch
    PROVE  /\ note_attempt(d, k, a) \in Orderly
           /\ Continues(d, note_attempt(d, k, a), {})
           /\ d.attempts[k].gen < g
           /\ note_attempt(d, k, a).attempts[k] = a
<1> DEFINE e == note_attempt(d, k, a)
           n == count_attempts(d, l, g)
<1>1. g \in Nat \ {0} /\ d.topology \in Nat \ {0}
  BY OrderlyFacts, Definitions
<1>2. \A q \in Seqs : Gen(d, l, q) <= g
  BY CurrentIsNewest
<1>3. /\ n \in Nat
      /\ \A q \in Seqs : q <= n <=> Gen(d, l, q) = g
  BY <1>1, <1>2, Filled
<1>4. /\ e \in Dated /\ e.epoch = d.epoch /\ e.topology = d.topology
      /\ e.idempotency = d.idempotency /\ e.attempts[k] = a
      /\ \A j \in AttemptKeys : j # k => e.attempts[j] = d.attempts[j]
  BY NoteAttemptFacts
<1>5. \A q \in Seqs : Gen(d, l, q) = g => <<l, q>> \notin Claims(d)
  BY <1>1, <1>2, NoClaims
<1> HIDE DEF e, n
<1>6. k = <<l, n + 1>> /\ k[1] = l /\ n + 1 \in Seqs
  BY DEF n, AttemptKeys
<1>7. \A i \in Links, q \in Seqs : Gen(d, i, q) \in Nat /\ <<i, q>> \in AttemptKeys
  BY OrderlyFacts
<1>8. Gen(d, l, n + 1) < g /\ d.attempts[k].gen = Gen(d, l, n + 1)
  <2>1. Gen(d, l, n + 1) # g
    BY <1>3, <1>6
  <2>2. QED
    BY <1>1, <1>2, <1>6, <1>7, <2>1 DEF Gen
<1>9. \A i \in Links, q \in Seqs :
         Gen(e, i, q) = IF i = l /\ q = n + 1 THEN g ELSE Gen(d, i, q)
  <2> SUFFICES ASSUME NEW i \in Links, NEW q \in Seqs
               PROVE  Gen(e, i, q) = IF i = l /\ q = n + 1 THEN g ELSE Gen(d, i, q)
    OBVIOUS
  <2>1. <<i, q>> = k <=> i = l /\ q = n + 1
    BY <1>6
  <2>2. QED
    BY <1>4, <1>7, <2>1 DEF Gen
<1>10. Layered(e)
  <2> SUFFICES ASSUME NEW i \in Links, NEW q \in Seqs, NEW r \in Seqs, q < r
               PROVE  Gen(e, i, r) <= Gen(e, i, q)
    BY DEF Layered
  <2>1. Gen(d, i, r) <= Gen(d, i, q)
    BY DEF Orderly, Layered
  <2>2. CASE i # l \/ (q # n + 1 /\ r # n + 1)
    BY <1>9, <2>1, <2>2
  <2>3. CASE i = l /\ q = n + 1
    <3>1. Gen(e, i, q) = g /\ Gen(e, i, r) = Gen(d, l, r)
      BY <1>9, <2>3 DEF Seqs
    <3>2. QED
      BY <1>2, <3>1
  <2>4. CASE i = l /\ r = n + 1
    <3>1. q <= n
      BY <1>3, <2>4 DEF Seqs
    <3>2. Gen(e, i, r) = g /\ Gen(e, i, q) = Gen(d, l, q) /\ Gen(d, l, q) = g
      BY <1>3, <1>9, <2>4, <3>1 DEF Seqs
    <3>3. QED
      BY <1>1, <3>2
  <2>5. QED
    BY <2>2, <2>3, <2>4
<1>11. \A j \in AttemptKeys : j # k /\ j \in Claims(e) => j \in Claims(d)
  BY <1>4 DEF Claims, Undecided
<1>12. ClaimIsLatest(e)
  <2> SUFFICES ASSUME NEW i \in Links, NEW q \in Seqs, NEW r \in Seqs,
                      <<i, q>> \in Claims(e), q < r, Gen(e, i, r) = Gen(e, i, q)
               PROVE  FALSE
    BY DEF ClaimIsLatest
  <2>1. CASE i = l /\ q = n + 1
    <3>1. Gen(d, l, r) = g
      BY <1>9, <2>1 DEF Seqs
    <3>2. r <= n
      BY <1>3, <3>1
    <3>3. QED
      BY <1>3, <2>1, <3>2 DEF Seqs
  <2>2. CASE ~(i = l /\ q = n + 1)
    <3>1. <<i, q>> # k /\ <<i, q>> \in Claims(d) /\ Gen(e, i, q) = Gen(d, i, q)
      BY <1>6, <1>7, <1>9, <1>11, <2>2
    <3>2. CASE i = l /\ r = n + 1
      <4>1. Gen(d, l, q) = g
        BY <1>9, <3>1, <3>2
      <4>2. QED
        BY <1>5, <3>1, <3>2, <4>1
    <3>3. CASE ~(i = l /\ r = n + 1)
      <4>1. Gen(d, i, r) = Gen(d, i, q)
        BY <1>9, <3>1, <3>3
      <4>2. QED
        BY <3>1, <4>1 DEF Orderly, ClaimIsLatest
    <3>4. QED
      BY <3>2, <3>3
  <2>3. QED
    BY <2>1, <2>2
<1>13. Generated(e)
  <2> SUFFICES ASSUME NEW j \in AttemptKeys
               PROVE  \/ e.attempts[j] = NoAttempt
                      \/ /\ e.attempts[j].phase # "Absent" /\ e.attempts[j].gen # 0
                         /\ \E t \in 1..e.topology : e.attempts[j].gen = LinkGen[t][j[1]]
    BY DEF Generated
  <2>1. CASE j = k
    <3>1. d.topology \in 1..d.topology
      BY <1>1
    <3>2. QED
      BY <1>4, <1>6, <2>1, <3>1
  <2>2. CASE j # k
    BY <1>4, <2>2 DEF Orderly, Generated
  <2>3. QED
    BY <2>1, <2>2
<1>14. e \in Orderly
  BY <1>4, <1>10, <1>12, <1>13 DEF Orderly, IndexedOnce
<1>15. Continues(d, e, {})
  <2>1. \A key : find_idempotency(d, key) => find_idempotency(e, key)
    BY <1>4 DEF find_idempotency
  <2>2. ASSUME NEW j \in AttemptKeys
        PROVE  \/ e.attempts[j] = d.attempts[j]
               \/ /\ e.attempts[j].gen > d.attempts[j].gen
                  /\ active_authority(d, j[1], e.attempts[j].gen) = {}
                  /\ e.attempts[j].phase \in HoldsAuthority => e.attempts[j].epoch = d.epoch
                  /\ \A q \in Seqs : Gen(d, j[1], q) <= e.attempts[j].gen
    <3>1. CASE j = k
      <4>1. e.attempts[j].gen = g /\ j[1] = l
        BY <1>4, <1>6, <3>1
      <4>2. g > d.attempts[j].gen
        BY <1>1, <1>6, <1>7, <1>8, <3>1
      <4>3. QED
        BY <1>2, <1>4, <3>1, <4>1, <4>2
    <3>2. CASE j # k
      BY <1>4, <3>2
    <3>3. QED
      BY <3>1, <3>2
  <2>3. QED
    BY <1>4, <2>1, <2>2 DEF Continues
<1>16. QED
  BY <1>4, <1>8, <1>14, <1>15 DEF e

\* A change of one record that keeps its generation and claims nothing new.
LEMMA ChangedAttempt ==
    ASSUME Roomy, NEW d \in Orderly, NEW k \in AttemptKeys, d.attempts[k].phase # "Absent",
           NEW a \in Attempt, a.epoch <= d.epoch, a.gen = d.attempts[k].gen, a.phase # "Absent",
           Undecided(a) \/ (a.phase \in HoldsAuthority /\ a.epoch = d.epoch) => k \in Claims(d),
           Later(d.attempts[k], a),
           a.phase \in HoldsAuthority =>
              \/ a.epoch = d.epoch
              \/ d.attempts[k].phase \in HoldsAuthority /\ a.epoch = d.attempts[k].epoch
    PROVE  /\ note_attempt(d, k, a) \in Orderly
           /\ Continues(d, note_attempt(d, k, a), {k})
           /\ note_attempt(d, k, a).attempts[k] = a
<1> DEFINE e == note_attempt(d, k, a)
<1>1. /\ e \in Dated /\ e.epoch = d.epoch /\ e.topology = d.topology
      /\ e.idempotency = d.idempotency /\ e.attempts[k] = a
      /\ \A j \in AttemptKeys : j # k => e.attempts[j] = d.attempts[j]
  BY NoteAttemptFacts
<1> HIDE DEF e
<1>2. Claims(e) \subseteq Claims(d)
  BY <1>1 DEF Claims, Undecided
<1>3. d.attempts[k] # NoAttempt /\ d.topology \in Nat
  BY OrderlyFacts DEF NoAttempt
<1>4. e \in Orderly
  <2>1. e.topology >= d.topology
    BY <1>1, <1>3
  <2>2. Ample => IndexedOnce(e)
    BY <1>1 DEF Orderly, IndexedOnce
  <2>3. \A j \in AttemptKeys :
           /\ e.attempts[j].gen = d.attempts[j].gen
           /\ d.attempts[j] = NoAttempt => e.attempts[j] = NoAttempt
           /\ d.attempts[j].phase # "Absent" => e.attempts[j].phase # "Absent"
    BY <1>1, <1>3
  <2>4. QED
    BY <1>1, <1>2, <2>1, <2>2, <2>3, ChangedOrderly
<1>5. Continues(d, e, {k})
  <2>1. \A key : find_idempotency(d, key) => find_idempotency(e, key)
    BY <1>1 DEF find_idempotency
  <2>2. QED
    BY <1>1, <2>1 DEF Continues
<1>6. QED
  BY <1>1, <1>4, <1>5 DEF e

\* Nothing but epoch-preserving additions: the table of attempts is as it was.
LEMMA SameTable ==
    ASSUME NEW d \in Orderly, NEW e \in DurableState, e.attempts = d.attempts, e.epoch = d.epoch,
           e.topology >= d.topology, Ample => IndexedOnce(e)
    PROVE  e \in Orderly
<1>1. e \in Dated
  BY OrderlyFacts DEF Dated, EpochsWithin
<1>2. Claims(e) = Claims(d)
  BY DEF Claims
<1>3. QED
  BY <1>1, <1>2, ChangedOrderly

\* An index with room keeps all entries.
LEMMA Indexed ==
    ASSUME NEW d \in Orderly, NEW key \in Keys, ~find_idempotency(d, key),
           NEW k \in AttemptKeys, NEW g \in Nat
    PROVE  /\ note_idempotency(d, key, k, g) \in Orderly
           /\ note_idempotency(d, key, k, g).attempts = d.attempts
           /\ note_idempotency(d, key, k, g).epoch = d.epoch
           /\ Ample =>
                 /\ find_idempotency(note_idempotency(d, key, k, g), key)
                 /\ \A other : find_idempotency(d, other) =>
                                  find_idempotency(note_idempotency(d, key, k, g), other)
<1> DEFINE e == note_idempotency(d, key, k, g)
           x == [key |-> key, attempt |-> k, gen |-> g]
           s == d.idempotency
           n == Len(s)
           t == KeepLast(Append(s, x), MaxIdempotency)
<1>1. d \in DurableState /\ e \in DurableState /\ d.topology \in Nat
  BY OrderlyFacts, NoteIdempotencyType
<1>2. s \in Seq(Entry) /\ n \in Nat /\ x \in Entry /\ x.key = key
  BY <1>1 DEF DurableState, AtMost, Entry
<1>3. e = [d EXCEPT !.idempotency = t]
  BY DEF note_idempotency
<1> HIDE DEF t, e
<1>4. /\ e.attempts = d.attempts /\ e.epoch = d.epoch /\ e.topology = d.topology
      /\ e.idempotency = t
  BY <1>1, <1>3 DEF DurableState
<1>5. \A i \in 1..n : s[i].key \in Keys /\ s[i].key # key
  <2> SUFFICES ASSUME NEW i \in 1..n PROVE s[i].key \in Keys /\ s[i].key # key
    OBVIOUS
  <2>1. s[i] \in Entry /\ i \in DOMAIN s
    BY <1>2
  <2>2. s[i].key \in Keys
    BY <2>1 DEF Entry
  <2>3. QED
    BY <2>1, <2>2 DEF find_idempotency
<1>6. ASSUME Ample
      PROVE  /\ IndexedOnce(e) /\ find_idempotency(e, key)
             /\ \A other : find_idempotency(d, other) => find_idempotency(e, other)
  <2> DEFINE others == Keys \ {key}
             f == [i \in 1..n |-> s[i].key]
  <2>1. IsFiniteSet(others) /\ Cardinality(others) = Cardinality(Keys) - 1
    BY <1>6, FS_RemoveElement DEF Ample
  <2>2. \A i, j \in 1..n : s[i].key = s[j].key => i = j
    BY <1>2, <1>6 DEF Orderly, IndexedOnce
  <2>3. f \in Injection(1..n, others)
    BY <1>5, <2>2 DEF Injection, IsInjective
  <2> HIDE DEF f, others
  <2>4. Cardinality(1..n) <= Cardinality(others) /\ Cardinality(1..n) = n
    BY <1>2, <2>1, <2>3, FS_Injection, FS_Interval
  <2>5. n + 1 <= MaxIdempotency
    <3>1. Cardinality(Keys) \in Nat /\ MaxIdempotency \in Nat /\ MaxIdempotency >= Cardinality(Keys)
      BY <1>6, LimitsAssumption, FS_CardinalityType DEF Ample
    <3>2. QED
      BY <1>2, <2>1, <2>4, <3>1
  <2>6. /\ Append(s, x) \in Seq(Entry) /\ Len(Append(s, x)) = n + 1
        /\ \A i \in 1..n : Append(s, x)[i] = s[i]
        /\ Append(s, x)[n + 1] = x
    BY <1>2
  <2>7. t = Append(s, x)
    BY <2>5, <2>6 DEF KeepLast, t
  <2>8. /\ DOMAIN e.idempotency = 1..(n + 1)
        /\ \A i \in 1..n : e.idempotency[i] = s[i]
        /\ e.idempotency[n + 1] = x
    BY <1>4, <2>6, <2>7
  <2>9. IndexedOnce(e)
    <3> SUFFICES ASSUME NEW i \in 1..(n + 1), NEW j \in 1..(n + 1),
                        e.idempotency[i].key = e.idempotency[j].key
                 PROVE  i = j
      BY <2>8 DEF IndexedOnce
    <3>1. CASE i = n + 1 /\ j # n + 1
      BY <1>2, <1>5, <2>8, <3>1
    <3>2. CASE i # n + 1 /\ j = n + 1
      BY <1>2, <1>5, <2>8, <3>2
    <3>3. CASE i # n + 1 /\ j # n + 1
      <4>1. i \in 1..n /\ j \in 1..n
        BY <1>2, <3>3
      <4>2. s[i].key = s[j].key
        BY <2>8, <4>1
      <4>3. QED
        BY <2>2, <4>1, <4>2
    <3>4. CASE i = n + 1 /\ j = n + 1
      BY <3>4
    <3>5. QED
      BY <3>1, <3>2, <3>3, <3>4
  <2>10. find_idempotency(e, key)
    <3>1. n + 1 \in DOMAIN e.idempotency
      BY <1>2, <2>8
    <3>2. QED
      BY <1>2, <2>8, <3>1 DEF find_idempotency
  <2>11. ASSUME NEW other, find_idempotency(d, other) PROVE find_idempotency(e, other)
    <3>1. PICK i \in DOMAIN s : s[i].key = other
      BY <2>11 DEF find_idempotency
    <3>2. i \in DOMAIN e.idempotency /\ e.idempotency[i] = s[i]
      BY <1>2, <2>8
    <3>3. QED
      BY <3>1, <3>2 DEF find_idempotency
  <2>12. QED
    BY <2>9, <2>10, <2>11
<1>7. e.topology >= d.topology
  BY <1>1, <1>4
<1>8. e \in Orderly
  BY <1>1, <1>4, <1>6, <1>7, SameTable
<1>9. QED
  BY <1>4, <1>6, <1>8 DEF e

\* The states a running coordinator may take its lineage to from d.
From(d, ks) == {e \in Orderly : Continues(d, e, ks)}

\* Staying is one of them, and so is any that differs in the index alone.
LEMMA FromSame ==
    ASSUME NEW d \in Orderly, NEW ks
    PROVE  d \in From(d, ks)
  BY DEF From, Continues

\* What is reached without touching an attempt is as good as where it started.
LEMMA FromTable ==
    ASSUME NEW d, NEW ks, NEW e \in From(d, ks), NEW f \in Orderly,
           f.attempts = e.attempts, f.epoch = e.epoch,
           Ample => \A key : find_idempotency(e, key) => find_idempotency(f, key)
    PROVE  f \in From(d, ks)
  BY DEF From, Continues

\* More attempts may be named.
LEMMA FromMore ==
    ASSUME NEW d, NEW ks, NEW more, ks \subseteq more, NEW e \in From(d, ks)
    PROVE  e \in From(d, more)
  BY DEF From, Continues

\* Settling a decision.
LEMMA FromSettle ==
    ASSUME NEW d, NEW ks, NEW e \in From(d, ks), NEW key \in Keys \cup {NoKey},
           ~find_idempotency(e, key), NEW k \in AttemptKeys, NEW g \in Nat
    PROVE  /\ Settle(e, key, k, g) \in Seq(From(d, ks))
           /\ Len(Settle(e, key, k, g)) \in {1, 2}
           /\ \A i \in 1..Len(Settle(e, key, k, g)) :
                 Settle(e, key, k, g)[i].attempts = e.attempts /\ Settle(e, key, k, g)[i].epoch = e.epoch
           /\ key # NoKey /\ Ample =>
                 find_idempotency(Settle(e, key, k, g)[Len(Settle(e, key, k, g))], key)
<1> DEFINE f == note_idempotency(e, key, k, g)
<1>1. e \in Orderly
  BY DEF From
<1>2. CASE key = NoKey
  BY <1>2 DEF Settle
<1>3. CASE key # NoKey
  <2>1. /\ f \in Orderly /\ f.attempts = e.attempts /\ f.epoch = e.epoch
        /\ Ample => /\ find_idempotency(f, key)
                    /\ \A other : find_idempotency(e, other) => find_idempotency(f, other)
    BY <1>1, <1>3, Indexed
  <2>2. Settle(e, key, k, g) = <<e, f>>
    BY <1>3 DEF Settle
  <2> HIDE DEF f
  <2>3. f \in From(d, ks)
    BY <2>1, FromTable
  <2>4. <<e, f>> \in Seq(From(d, ks)) /\ Len(<<e, f>>) = 2
    BY <2>3
  <2>5. QED
    BY <2>1, <2>2, <2>4
<1>4. QED
  BY <1>2, <1>3

\* A fence record touches no attempt.
LEMMA FromFence ==
    ASSUME NEW d, NEW ks, NEW e \in From(d, ks), NEW k \in AttemptKeys, NEW kind \in FenceKinds
    PROVE  /\ note_fence(e, kind, k) \in From(d, ks)
           /\ note_fence(e, kind, k).attempts = e.attempts
           /\ note_fence(e, kind, k).epoch = e.epoch
           /\ note_fence(e, kind, k).idempotency = e.idempotency
<1> DEFINE f == note_fence(e, kind, k)
<1>1. e \in Orderly /\ e \in DurableState /\ e.topology \in Nat
  BY OrderlyFacts DEF From
<1>2. f \in DurableState
  BY <1>1, NoteFenceType
<1>3. /\ f.attempts = e.attempts /\ f.epoch = e.epoch /\ f.topology = e.topology
      /\ f.idempotency = e.idempotency
  BY <1>1 DEF note_fence, DurableState
<1> HIDE DEF f
<1>4. f.topology >= e.topology
  BY <1>1, <1>3
<1>5. Ample => IndexedOnce(f)
  BY <1>1, <1>3 DEF Orderly, IndexedOnce
<1>6. f \in Orderly
  BY <1>1, <1>2, <1>3, <1>4, <1>5, SameTable
<1>7. \A key : find_idempotency(e, key) => find_idempotency(f, key)
  BY <1>3 DEF find_idempotency
<1>8. QED
  BY <1>3, <1>6, <1>7, FromTable DEF f

\* Rotating the journal touches none either.
LEMMA FromRotated ==
    ASSUME NEW e \in Orderly
    PROVE  /\ [e EXCEPT !.uncovered = FALSE] \in Orderly
           /\ [e EXCEPT !.uncovered = FALSE].attempts = e.attempts
           /\ [e EXCEPT !.uncovered = FALSE].epoch = e.epoch
           /\ [e EXCEPT !.uncovered = FALSE].idempotency = e.idempotency
           /\ \A d, ks : e \in From(d, ks) => [e EXCEPT !.uncovered = FALSE] \in From(d, ks)
<1> DEFINE f == [e EXCEPT !.uncovered = FALSE]
<1>1. e \in DurableState /\ e.topology \in Nat
  BY OrderlyFacts
<1>2. f \in DurableState
  BY <1>1, RotatedType
<1>3. /\ f.attempts = e.attempts /\ f.epoch = e.epoch /\ f.topology = e.topology
      /\ f.idempotency = e.idempotency
  BY <1>1 DEF DurableState
<1> HIDE DEF f
<1>4. f.topology >= e.topology
  BY <1>1, <1>3
<1>5. Ample => IndexedOnce(f)
  BY <1>3 DEF Orderly, IndexedOnce
<1>6. f \in Orderly
  BY <1>1, <1>2, <1>3, <1>4, <1>5, SameTable
<1>7. \A key : find_idempotency(e, key) => find_idempotency(f, key)
  BY <1>3 DEF find_idempotency
<1>8. \A d, ks : e \in From(d, ks) => f \in From(d, ks)
  BY <1>3, <1>6, <1>7, FromTable
<1>9. QED
  BY <1>3, <1>6, <1>8 DEF f

\* A pass that aborts holders.
LEMMA FencedFrom ==
    ASSUME NEW d \in Orderly, NEW b \in DurableState, b.attempts = d.attempts, b.epoch = d.epoch,
           b.topology >= d.topology, b.idempotency = d.idempotency,
           NEW o \in Seq(AttemptKeys), \A i \in 1..Len(o) : o[i] \in Holders(d),
           NEW kind \in FenceKinds, NEW n \in 0..(2 * Len(o))
    PROVE  Fenced(b, o, kind, "Aborted", n) \in From(d, Holders(d))
<1> DEFINE e == Fenced(b, o, kind, "Aborted", n)
<1>1. /\ d \in Dated /\ d \in DurableState /\ d.topology \in Nat
      /\ \A k \in AttemptKeys : d.attempts[k] \in Attempt
  BY OrderlyFacts
<1>2. b \in Dated
  BY <1>1 DEF Dated, EpochsWithin
<1>3. "Aborted" \in Phases
  BY DEF Phases, Terminal
<1>4. e \in Dated
  BY <1>2, <1>3, FencedDated
<1>5. /\ e.epoch = d.epoch /\ e.topology = b.topology
      /\ \A k \in AttemptKeys :
            \/ /\ \E j \in 1..Len(o) : o[j] = k /\ 2 * j - 1 <= n
               /\ e.attempts[k] = [d.attempts[k] EXCEPT !.phase = "Aborted"]
            \/ e.attempts[k] = d.attempts[k]
  BY <1>3, FencedAttempts
<1>6. e.idempotency = d.idempotency
  BY DEF Fenced, DurableState
<1> HIDE DEF e
<1>7. ASSUME NEW k \in AttemptKeys
      PROVE  \/ e.attempts[k] = d.attempts[k]
             \/ /\ k \in Holders(d) /\ e.attempts[k].gen = d.attempts[k].gen
                /\ e.attempts[k].phase = "Aborted" /\ d.attempts[k].phase \in HoldsAuthority
  <2>1. CASE e.attempts[k] = d.attempts[k]
    BY <2>1
  <2>2. CASE /\ \E j \in 1..Len(o) : o[j] = k /\ 2 * j - 1 <= n
             /\ e.attempts[k] = [d.attempts[k] EXCEPT !.phase = "Aborted"]
    <3>1. k \in Holders(d)
      BY <2>2
    <3>2. e.attempts[k].gen = d.attempts[k].gen /\ e.attempts[k].phase = "Aborted"
      BY <1>1, <2>2 DEF Attempt
    <3>3. QED
      BY <3>1, <3>2 DEF Holders
  <2>3. QED
    BY <1>5, <2>1, <2>2
<1>8. Claims(e) \subseteq Claims(d)
  BY <1>5, <1>7 DEF Claims, Undecided, InFlight, HoldsAuthority
<1>9. e \in Orderly
  <2>1. Ample => IndexedOnce(e)
    BY <1>6 DEF Orderly, IndexedOnce
  <2>2. \A k \in AttemptKeys :
           /\ e.attempts[k].gen = d.attempts[k].gen
           /\ d.attempts[k] = NoAttempt => e.attempts[k] = NoAttempt
           /\ d.attempts[k].phase # "Absent" => e.attempts[k].phase # "Absent"
    BY <1>7 DEF HoldsAuthority, NoAttempt
  <2>3. QED
    BY <1>4, <1>5, <1>8, <2>1, <2>2, ChangedOrderly
<1>10. Continues(d, e, Holders(d))
  <2>1. \A key : find_idempotency(d, key) => find_idempotency(e, key)
    BY <1>6 DEF find_idempotency
  <2>2. ASSUME NEW k \in AttemptKeys
        PROVE  \/ e.attempts[k] = d.attempts[k]
               \/ /\ k \in Holders(d) /\ e.attempts[k].gen = d.attempts[k].gen
                  /\ Later(d.attempts[k], e.attempts[k])
                  /\ e.attempts[k].phase \notin HoldsAuthority
    BY <1>7 DEF Later, HoldsAuthority, Dead, PastGrant
  <2>3. QED
    BY <1>5, <2>1, <2>2 DEF Continues
<1>11. QED
  BY <1>9, <1>10 DEF From, e

\* When the pass is through nothing that held authority is in flight.
LEMMA FencedReady ==
    ASSUME NEW d \in DurableState, Ready(d), NEW b \in DurableState, b.attempts = d.attempts,
           b.epoch = d.epoch, NEW o \in Seq(AttemptKeys), NEW kind \in FenceKinds
    PROVE  Ready(Fenced(b, o, kind, "Aborted", 2 * Len(o)))
<1> DEFINE e == Fenced(b, o, kind, "Aborted", 2 * Len(o))
<1>1. 2 * Len(o) \in 0..(2 * Len(o)) /\ "Aborted" \in Phases
  <2>1. Len(o) \in Nat
    OBVIOUS
  <2>2. QED
    BY <2>1 DEF Phases, Terminal
<1>2. \A k \in AttemptKeys : d.attempts[k] \in Attempt
  BY DEF DurableState
<1>3. /\ e.epoch = d.epoch
      /\ \A k \in AttemptKeys :
            \/ e.attempts[k] = [d.attempts[k] EXCEPT !.phase = "Aborted"]
            \/ e.attempts[k] = d.attempts[k]
  BY <1>1, FencedAttempts
<1> HIDE DEF e
<1>4. \A k \in AttemptKeys : e.attempts[k].phase = "Aborted" \/ e.attempts[k] = d.attempts[k]
  BY <1>2, <1>3 DEF Attempt
<1>5. Ready(e)
  BY <1>3, <1>4 DEF Ready, InFlight
<1>6. QED
  BY <1>5 DEF e

\* The states of a boot: its record, and the interruption of what was in flight.
LEMMA BootStates ==
    ASSUME NEW d \in Orderly, NEW o \in Seq(AttemptKeys),
           \A i \in 1..Len(o) : d.attempts[o[i]].phase \in InFlight, NEW n \in 0..(2 * Len(o))
    PROVE  LET e == Fenced([d EXCEPT !.epoch = @ + 1], o, "PreRestartAuthority", "Interrupted", n) IN
           /\ e \in Orderly /\ e.idempotency = d.idempotency
           /\ \A k \in AttemptKeys : Follows(d.attempts[k], e.attempts[k])
           /\ \A k \in AttemptKeys :
                 e.attempts[k] = d.attempts[k] \/ e.attempts[k].phase = "Interrupted"
           /\ n = 2 * Len(o) => \A i \in 1..Len(o) : e.attempts[o[i]].phase = "Interrupted"
<1> DEFINE b == [d EXCEPT !.epoch = @ + 1]
           e == Fenced(b, o, "PreRestartAuthority", "Interrupted", n)
<1>1. /\ d \in Dated /\ d \in DurableState /\ d.topology \in Nat /\ d.epoch \in Nat
      /\ \A k \in AttemptKeys : /\ d.attempts[k] \in Attempt /\ d.attempts[k].epoch \in Nat
                                /\ d.attempts[k].epoch <= d.epoch
  BY OrderlyFacts
<1>2. /\ b \in DurableState /\ b.attempts = d.attempts /\ b.epoch = d.epoch + 1
      /\ b.topology = d.topology /\ b.idempotency = d.idempotency
  <2> DEFINE n1 == d.epoch + 1
  <2>1. n1 \in Nat /\ b = [d EXCEPT !.epoch = n1]
    BY <1>1
  <2> HIDE DEF n1, b
  <2>2. b \in DurableState /\ b.epoch = n1
    BY <1>1, <2>1 DEF DurableState
  <2>3. b.attempts = d.attempts /\ b.topology = d.topology /\ b.idempotency = d.idempotency
    BY <1>1, <2>1 DEF DurableState
  <2>4. QED
    BY <2>2, <2>3 DEF n1
<1> HIDE DEF b
<1>3. b \in Dated
  BY <1>1, <1>2 DEF Dated, EpochsWithin
<1>4. "Interrupted" \in Phases /\ "PreRestartAuthority" \in FenceKinds
  BY DEF Phases, Terminal, FenceKinds
<1>5. e \in Dated
  BY <1>3, <1>4, FencedDated
<1>6. /\ e.epoch = b.epoch /\ e.topology = b.topology
      /\ \A k \in AttemptKeys :
            \/ /\ \E j \in 1..Len(o) : o[j] = k /\ 2 * j - 1 <= n
               /\ e.attempts[k] = [b.attempts[k] EXCEPT !.phase = "Interrupted"]
            \/ /\ ~ \E j \in 1..Len(o) : o[j] = k /\ 2 * j - 1 <= n
               /\ e.attempts[k] = b.attempts[k]
  BY <1>2, <1>4, FencedAttempts
<1>7. e.idempotency = d.idempotency
  BY <1>2 DEF Fenced, DurableState
<1> HIDE DEF e
<1>8. ASSUME NEW k \in AttemptKeys
      PROVE  \/ e.attempts[k] = d.attempts[k]
             \/ /\ d.attempts[k].phase \in InFlight /\ e.attempts[k].phase = "Interrupted"
                /\ e.attempts[k].gen = d.attempts[k].gen
                /\ e.attempts[k].epoch = d.attempts[k].epoch
  <2>1. CASE e.attempts[k] = b.attempts[k]
    BY <1>2, <2>1
  <2>2. CASE /\ \E j \in 1..Len(o) : o[j] = k /\ 2 * j - 1 <= n
             /\ e.attempts[k] = [b.attempts[k] EXCEPT !.phase = "Interrupted"]
    <3>1. d.attempts[k].phase \in InFlight
      BY <2>2
    <3>2. QED
      BY <1>1, <1>2, <2>2, <3>1 DEF Attempt
  <2>3. QED
    BY <1>6, <2>1, <2>2
<1>9. Claims(e) \subseteq Claims(d)
  <2> SUFFICES ASSUME NEW k \in Claims(e) PROVE k \in Claims(d)
    OBVIOUS
  <2>1. k \in AttemptKeys
    BY DEF Claims
  <2>2. e.attempts[k].epoch # e.epoch
    BY <1>1, <1>2, <1>6, <1>8, <2>1
  <2>3. QED
    BY <1>8, <2>1, <2>2 DEF Claims, Undecided
<1>10. e \in Orderly
  <2>1. Ample => IndexedOnce(e)
    BY <1>7 DEF Orderly, IndexedOnce
  <2>2. \A k \in AttemptKeys :
           /\ e.attempts[k].gen = d.attempts[k].gen
           /\ d.attempts[k] = NoAttempt => e.attempts[k] = NoAttempt
           /\ d.attempts[k].phase # "Absent" => e.attempts[k].phase # "Absent"
    BY <1>8 DEF InFlight, NoAttempt
  <2>3. e.topology >= d.topology
    BY <1>1, <1>2, <1>6
  <2>4. QED
    BY <1>5, <1>9, <2>1, <2>2, <2>3, ChangedOrderly
<1>11. \A k \in AttemptKeys : Follows(d.attempts[k], e.attempts[k])
  BY <1>8 DEF Follows, Later, InFlight, Dead, PastGrant
<1>12. ASSUME n = 2 * Len(o), NEW i \in 1..Len(o) PROVE e.attempts[o[i]].phase = "Interrupted"
  <2>1. Len(o) \in Nat /\ o[i] \in AttemptKeys
    OBVIOUS
  <2>2. 2 * i - 1 <= n
    BY <1>12, <2>1
  <2>3. e.attempts[o[i]] = [b.attempts[o[i]] EXCEPT !.phase = "Interrupted"]
    BY <1>6, <2>1, <2>2
  <2>4. QED
    BY <1>1, <1>2, <2>1, <2>3 DEF Attempt
<1>13. QED
  BY <1>7, <1>8, <1>10, <1>11, <1>12 DEF e, b

\* How a handler ends, for what its chain goes through.
LEMMA Endings ==
    ASSUME NEW d, NEW ks, NEW c \in Seq(From(d, ks)), c # <<>>, HandlerMayCompact(c), CanAppend
    PROVE  /\ durable' \in From(d, ks)
           /\ \/ status' = "down" /\ mem' = Fresh
              \/ /\ status' = "up" /\ mem' \in From(d, ks)
                 /\ health' # "storeFailed" =>
                       /\ durable' = mem'
                       /\ mem' \in {c[Len(c)], [c[Len(c)] EXCEPT !.uncovered = FALSE]}
<1> DEFINE S == From(d, ks)
<1>1. Len(c) \in Nat \ {0} /\ DOMAIN c = 1..Len(c) /\ \A i \in 1..Len(c) : c[i] \in S
  OBVIOUS
<1>2. c[Len(c)] \in S
  BY <1>1
<1>3. [c[Len(c)] EXCEPT !.uncovered = FALSE] \in S
  <2>1. c[Len(c)] \in Orderly
    BY <1>2 DEF From
  <2>2. QED
    BY <1>2, <2>1, FromRotated
<1> HIDE DEF S
<1>4. CASE Written(c)
  BY <1>2, <1>4 DEF Written, CanAppend, S
<1>5. CASE Dies(c)
  BY <1>1, <1>5 DEF Dies, S
<1>6. CASE \E i \in DOMAIN c : AppendFails(c, i)
  <2>1. PICK i \in DOMAIN c : AppendFails(c, i)
    BY <1>6
  <2>2. c[i] \in S /\ c[i + 1] \in S
    BY <1>1, <2>1 DEF AppendFails
  <2>3. QED
    BY <2>1, <2>2 DEF AppendFails, CanAppend, S
<1>7. CASE Compacts(c[Len(c)])
  BY <1>2, <1>3, <1>7 DEF Compacts, CanAppend, S
<1>8. CASE CompactDies(c[Len(c)])
  BY <1>2, <1>3, <1>8 DEF CompactDies, S
<1>9. QED
  BY <1>4, <1>5, <1>6, <1>7, <1>8 DEF HandlerMayCompact, Handler

\* What a handler that found the lineage at mem, and may have written the attempts
\* ks, leaves behind.
Outcome(ks) ==
    /\ durable' \in From(mem, ks)
    /\ \/ status' = "down" /\ mem' = Fresh
       \/ /\ status' = "up" /\ mem' \in From(mem, ks)
          /\ health' # "storeFailed" => Ready(mem') /\ durable' = mem'

\* A chain whose last state is ready for the next request has such an outcome.
LEMMA ReadyEnding ==
    ASSUME NEW ks, NEW c \in Seq(From(mem, ks)), Len(c) >= 1, Ready(c[Len(c)]),
           HandlerMayCompact(c), CanAppend
    PROVE  Outcome(ks)
<1> DEFINE last == c[Len(c)]
           rotated == [last EXCEPT !.uncovered = FALSE]
<1>1. c # <<>> /\ last \in Orderly
  BY DEF From
<1>2. /\ durable' \in From(mem, ks)
      /\ \/ status' = "down" /\ mem' = Fresh
         \/ /\ status' = "up" /\ mem' \in From(mem, ks)
            /\ health' # "storeFailed" => durable' = mem' /\ mem' \in {last, rotated}
  BY <1>1, Endings
<1>3. Ready(last)
  OBVIOUS
<1> HIDE DEF last
<1>4. rotated.attempts = last.attempts /\ rotated.epoch = last.epoch
  BY <1>1, FromRotated
<1> HIDE DEF rotated
<1>5. Ready(rotated)
  BY <1>3, <1>4 DEF Ready
<1>6. QED
  BY <1>2, <1>3, <1>5 DEF Outcome

\* Readiness is a matter of the attempt table and the epoch.
LEMMA ReadyTable ==
    ASSUME NEW d, NEW e, Ready(d), e.attempts = d.attempts, e.epoch = d.epoch
    PROVE  Ready(e)
BY DEF Ready

\* One record written leaves the table ready if the record is.
LEMMA ReadyRecord ==
    ASSUME NEW d, Ready(d), NEW e, e.epoch = d.epoch, NEW k \in AttemptKeys,
           \A j \in AttemptKeys : j # k => e.attempts[j] = d.attempts[j],
           e.attempts[k].phase # "Evaluated",
           e.attempts[k].phase \in InFlight => e.attempts[k].epoch = d.epoch
    PROVE  Ready(e)
BY DEF Ready

\* A chain that settles a decision in state d.
LEMMA SettledEnding ==
    ASSUME NEW ks, CanAppend, NEW p \in Seq(From(mem, ks)), NEW d \in From(mem, ks), Ready(d),
           NEW key \in Keys \cup {NoKey}, ~find_idempotency(d, key),
           NEW k \in AttemptKeys, NEW g \in Nat, HandlerMayCompact(p \o Settle(d, key, k, g))
    PROVE  Outcome(ks)
<1> DEFINE S == From(mem, ks)
           r == Settle(d, key, k, g)
           c == p \o r
<1>1. /\ r \in Seq(S) /\ Len(r) \in {1, 2}
      /\ \A i \in 1..Len(r) : r[i].attempts = d.attempts /\ r[i].epoch = d.epoch
  BY FromSettle
<1> HIDE DEF S, r
<1> HIDE DEF c
<1>2. p \in Seq(S) /\ Len(r) >= 1 /\ Len(r) \in 1..Len(r)
  <2>1. p \in Seq(S)
    BY DEF S
  <2>2. Len(r) = 1 \/ Len(r) = 2
    BY <1>1
  <2>3. Len(r) >= 1 /\ Len(r) \in 1..Len(r)
    <3>1. \A n : n = 1 \/ n = 2 => n >= 1 /\ n \in 1..n
      OBVIOUS
    <3>2. QED
      BY ONLY <2>2, <3>1
  <2>4. QED
    BY <2>1, <2>3
<1>3. c \in Seq(S) /\ c # <<>> /\ c[Len(c)] = r[Len(r)]
  BY <1>1, <1>2, Prefixed DEF c
<1>4. HandlerMayCompact(c)
  BY DEF r, c
<1>5. Ready(r[Len(r)])
  BY <1>1, <1>2, ReadyTable
<1>6. Len(c) >= 1
  BY <1>3
<1>7. QED
  BY <1>3, <1>4, <1>5, <1>6, ReadyEnding DEF S

\* What a request finds.
LEMMA RequestFinds ==
    ASSUME LineageInv, CanAppend
    PROVE  /\ mem \in Orderly /\ Ready(mem) /\ durable = mem /\ mem \in DurableState
           /\ \A ks : mem \in From(mem, ks)
           /\ mem.epoch \in Nat /\ mem.policy \in Nat /\ mem.topology \in Nat
           /\ \A k \in AttemptKeys : /\ mem.attempts[k] \in Attempt
                                     /\ mem.attempts[k].gen \in Nat
                                     /\ mem.attempts[k].epoch \in Nat
                                     /\ mem.attempts[k].epoch <= mem.epoch
           /\ \A l \in Links : LinkGen[mem.topology][l] \in Nat
<1>1. mem \in Orderly /\ Ready(mem) /\ durable = mem
  BY DEF LineageInv
<1>2. mem \in DurableState
  BY <1>1, OrderlyFacts
<1>3. mem.policy \in Nat /\ mem.topology \in Nat
  BY <1>2, PolicyAssumption, TopologyAssumption DEF DurableState
<1>4. \A l \in Links : LinkGen[mem.topology][l] \in Nat
  BY <1>2, Definitions
<1>5. \A ks : mem \in From(mem, ks)
  BY <1>1, FromSame
<1>6. QED
  BY <1>1, <1>2, <1>3, <1>4, <1>5, OrderlyFacts

\* The gate answers without touching an attempt.
LEMMA GateOutcome ==
    ASSUME LineageInv, NEW l \in Links, NEW key \in Keys \cup {NoKey}, GateRefuses(l, key)
    PROVE  CanAppend /\ Outcome({})
<1> DEFINE g == LinkGen[mem.topology][l]
           p == <<mem>>
<1>1. CanAppend /\ ~find_idempotency(mem, key)
  BY DEF GateRefuses, Admitted, CanAppend
<1>2. PICK q \in Seqs : HandlerMayCompact(p \o Settle(mem, key, <<l, q>>, g))
  BY DEF GateRefuses, interrupted_attempt, latest_attempt, Of
<1>3. <<l, q>> \in AttemptKeys
  BY DEF AttemptKeys
<1>4. mem \in From(mem, {}) /\ Ready(mem) /\ g \in Nat
  BY <1>1, RequestFinds
<1>5. p \in Seq(From(mem, {}))
  BY <1>4
<1> HIDE DEF p, g
<1>6. Outcome({})
  BY <1>1, <1>2, <1>3, <1>4, <1>5, SettledEnding
<1>7. QED
  BY <1>1, <1>6

\* The attempt a request past the gates writes, whatever its phase.
LEMMA Evaluated ==
    ASSUME Roomy, Advancing, LineageInv, NEW l \in Links, NEW key, Evaluates(l, key),
           NEW a \in Attempt, a.gen = LinkGen[mem.topology][l], a.phase # "Absent",
           a.epoch <= mem.epoch, a.phase \in HoldsAuthority => a.epoch = mem.epoch
    PROVE  LET k == NextAttempt(l)
               d == note_attempt(mem, k, a)
           IN  /\ CanAppend /\ k \in AttemptKeys /\ k[1] = l
               /\ a.gen # 0 /\ mem.attempts[k].gen < a.gen
               /\ d \in From(mem, {}) /\ d.epoch = mem.epoch /\ d.attempts[k] = a
               /\ d.idempotency = mem.idempotency
               /\ \A j \in AttemptKeys : j # k => d.attempts[j] = mem.attempts[j]
<1> DEFINE k == NextAttempt(l)
           d == note_attempt(mem, k, a)
           g == LinkGen[mem.topology][l]
<1>1. /\ CanAppend /\ g # 0
      /\ active_authority(mem, l, g) = {} /\ interrupted_attempt(mem, l, g) = {}
  BY DEF Evaluates, Admitted, CanAppend
<1>2. mem \in Orderly /\ Ready(mem) /\ mem \in DurableState
  BY <1>1, RequestFinds
<1>3. k \in AttemptKeys
  BY <1>2, NextAttemptType
<1>4. k = <<l, count_attempts(mem, l, g) + 1>>
  BY DEF NextAttempt
<1>5. k[1] = l
  BY <1>4
<1> HIDE DEF k
<1>6. a.gen = g
  OBVIOUS
<1> HIDE DEF g
<1>7. /\ d \in Orderly /\ Continues(mem, d, {}) /\ mem.attempts[k].gen < g
      /\ d.attempts[k] = a
  BY <1>1, <1>2, <1>3, <1>4, <1>6, NewAttempt DEF g
<1>8. /\ d.epoch = mem.epoch /\ d.idempotency = mem.idempotency
      /\ \A j \in AttemptKeys : j # k => d.attempts[j] = mem.attempts[j]
  BY <1>2, <1>3, NoteAttemptFacts
<1> HIDE DEF d
<1>9. d \in From(mem, {})
  BY <1>7 DEF From
<1>10. QED
  BY <1>1, <1>3, <1>5, <1>6, <1>7, <1>8, <1>9 DEF d, k

\* A refusal past the gates records an attempt that holds nothing.
LEMMA RefuseOutcome ==
    ASSUME Roomy, Advancing, LineageInv, NEW l \in Links, NEW key \in Keys \cup {NoKey},
           NEW phase \in {"Refused", "Indeterminate"}, RefuseAttempt(l, key, phase)
    PROVE  CanAppend /\ Outcome({})
<1> DEFINE g == LinkGen[mem.topology][l]
           k == NextAttempt(l)
           a == [NoAttempt EXCEPT !.phase = phase, !.gen = g]
           d == note_attempt(mem, k, a)
           p == <<mem, d>>
<1>1. /\ Evaluates(l, key) /\ HandlerMayCompact(p \o Settle(d, key, k, g))
  BY DEF RefuseAttempt
<1>2. CanAppend /\ ~find_idempotency(mem, key)
  BY <1>1 DEF Evaluates, Admitted, CanAppend
<1>3. g \in Nat /\ mem.epoch \in Nat /\ Ready(mem) /\ mem \in From(mem, {})
  BY <1>2, RequestFinds
<1>4. /\ a \in Attempt /\ a.gen = g /\ a.phase = phase /\ a.epoch = 0
  BY <1>3 DEF Attempt, NoAttempt, Phases, Terminal
<1>5. /\ a.phase # "Absent" /\ a.phase \notin HoldsAuthority /\ a.phase # "Evaluated"
      /\ a.phase \notin InFlight /\ a.epoch <= mem.epoch
  BY <1>3, <1>4 DEF HoldsAuthority, InFlight
<1> HIDE DEF a
<1>6. /\ k \in AttemptKeys /\ d \in From(mem, {}) /\ d.epoch = mem.epoch /\ d.attempts[k] = a
      /\ d.idempotency = mem.idempotency
      /\ \A j \in AttemptKeys : j # k => d.attempts[j] = mem.attempts[j]
  BY <1>1, <1>4, <1>5, Evaluated
<1> HIDE DEF k, d, g
<1>7. Ready(d)
  BY <1>3, <1>5, <1>6, ReadyRecord
<1>8. ~find_idempotency(d, key)
  BY <1>2, <1>6 DEF find_idempotency
<1>9. p \in Seq(From(mem, {}))
  BY <1>3, <1>6
<1> HIDE DEF p
<1>10. Outcome({})
  BY <1>1, <1>2, <1>3, <1>6, <1>7, <1>8, <1>9, SettledEnding
<1>11. QED
  BY <1>2, <1>10

\* A holder changes phase: forward if it is in flight, or out of authority.
LEMMA Rephased ==
    ASSUME Roomy, LineageInv, CanAppend, NEW k \in AttemptKeys,
           mem.attempts[k].phase \in HoldsAuthority,
           NEW ph \in {"Acknowledged", "Verified", "Committed", "Aborted", "RolledBack", "Indeterminate"},
           ph \in HoldsAuthority => mem.attempts[k].phase \in InFlight
    PROVE  LET d == note_attempt(mem, k, [mem.attempts[k] EXCEPT !.phase = ph])
           IN  d \in From(mem, {k}) /\ Ready(d) /\ d.idempotency = mem.idempotency
<1> DEFINE a == mem.attempts[k]
           b == [a EXCEPT !.phase = ph]
           d == note_attempt(mem, k, b)
<1>1. /\ mem \in Orderly /\ Ready(mem) /\ a \in Attempt /\ a.epoch <= mem.epoch
  BY RequestFinds
<1>2. a.phase \in HoldsAuthority /\ (ph \in HoldsAuthority => a.phase \in InFlight)
  OBVIOUS
<1>3. a.phase \in InFlight => k \in Claims(mem) /\ a.epoch = mem.epoch
  BY <1>1 DEF Claims, Undecided, Ready
<1>4. a = mem.attempts[k]
  OBVIOUS
<1> HIDE DEF a
<1>5. b \in Attempt /\ b.phase = ph /\ b.epoch = a.epoch /\ b.gen = a.gen
  BY <1>1 DEF Attempt, Phases, Terminal, InFlight
<1> HIDE DEF b
<1>6. Later(a, b)
  BY <1>2, <1>5 DEF Later, Dead, PastGrant, HoldsAuthority
<1>7. Undecided(b) \/ (b.phase \in HoldsAuthority /\ b.epoch = mem.epoch) => k \in Claims(mem)
  BY <1>2, <1>3, <1>5 DEF Undecided, InFlight, HoldsAuthority
<1>8. /\ b.phase # "Absent" /\ a.phase # "Absent" /\ b.phase # "Evaluated"
      /\ b.phase \in InFlight => b.epoch = mem.epoch
  BY <1>2, <1>3, <1>5 DEF HoldsAuthority, InFlight
<1>9. /\ d \in Orderly /\ Continues(mem, d, {k}) /\ d.attempts[k] = b
  BY <1>1, <1>2, <1>4, <1>5, <1>6, <1>7, <1>8, ChangedAttempt
<1>10. /\ d.epoch = mem.epoch /\ d.idempotency = mem.idempotency
       /\ \A j \in AttemptKeys : j # k => d.attempts[j] = mem.attempts[j]
  BY <1>1, <1>5, NoteAttemptFacts
<1> HIDE DEF d
<1>11. Ready(d)
  BY <1>1, <1>8, <1>9, <1>10, ReadyRecord
<1>12. d \in From(mem, {k})
  BY <1>9 DEF From
<1>13. QED
  BY <1>10, <1>11, <1>12 DEF d, b, a

\* The applier's report of an application.
LEMMA ApplicationOutcome ==
    ASSUME Roomy, LineageInv, NEW k \in AttemptKeys, NEW yes \in BOOLEAN,
           RecordApplication(k, yes)
    PROVE  CanAppend /\ Outcome({k})
<1> DEFINE At(ph) == note_attempt(mem, k, [mem.attempts[k] EXCEPT !.phase = ph])
<1>1. CanAppend /\ mem.attempts[k].phase = "Authorized"
  BY DEF RecordApplication, AwaitsApplication, CanAppend
<1>2. mem.attempts[k].phase \in HoldsAuthority /\ mem.attempts[k].phase \in InFlight
  BY <1>1 DEF HoldsAuthority, InFlight
<1>3. PICK ph \in {"Aborted", "Acknowledged", "Committed"} :
         HandlerMayCompact(<<mem, At(ph), At(ph)>>)
  BY DEF RecordApplication
<1>4. At(ph) \in From(mem, {k}) /\ Ready(At(ph))
  BY <1>1, <1>2, Rephased
<1>5. mem \in From(mem, {k})
  BY <1>1, RequestFinds
<1> DEFINE d == At(ph)
           c == <<mem, d, d>>
<1>6. HandlerMayCompact(c) /\ d \in From(mem, {k}) /\ Ready(d)
  BY <1>3, <1>4
<1> HIDE DEF d
<1>7. c \in Seq(From(mem, {k})) /\ Len(c) >= 1 /\ c[Len(c)] = d
  BY <1>5, <1>6
<1> HIDE DEF c
<1>8. Outcome({k})
  BY <1>1, <1>6, <1>7, ReadyEnding
<1>9. QED
  BY <1>1, <1>8

\* The applier's report of a verification.
LEMMA VerificationOutcome ==
    ASSUME Roomy, LineageInv, NEW k \in AttemptKeys, NEW yes \in BOOLEAN,
           RecordVerification(k, yes)
    PROVE  CanAppend /\ Outcome({k})
<1> DEFINE At(ph) == note_attempt(mem, k, [mem.attempts[k] EXCEPT !.phase = ph])
           u == At("Indeterminate")
           v == At("Verified")
           w == At("Committed")
           c1 == <<mem, u, u>>
           c2 == <<mem, v, w, w>>
<1>1. CanAppend /\ mem.attempts[k].phase = "Acknowledged"
  BY DEF RecordVerification, CanAppend
<1>2. mem.attempts[k].phase \in HoldsAuthority /\ mem.attempts[k].phase \in InFlight
  BY <1>1 DEF HoldsAuthority, InFlight
<1>3. HandlerMayCompact(c1) \/ HandlerMayCompact(c2)
  BY DEF RecordVerification, HandlerMayCompact
<1>4. /\ u \in From(mem, {k}) /\ Ready(u)
      /\ v \in From(mem, {k})
      /\ w \in From(mem, {k}) /\ Ready(w)
  BY <1>1, <1>2, Rephased
<1>5. mem \in From(mem, {k})
  BY <1>1, RequestFinds
<1> HIDE DEF At, u, v, w
<1>6. c1 \in Seq(From(mem, {k})) /\ Len(c1) >= 1 /\ c1[Len(c1)] = u
  BY <1>4, <1>5
<1>7. c2 \in Seq(From(mem, {k})) /\ Len(c2) >= 1 /\ c2[Len(c2)] = w
  BY <1>4, <1>5
<1> HIDE DEF c1, c2
<1>8. CASE HandlerMayCompact(c1)
  BY <1>1, <1>4, <1>6, <1>8, ReadyEnding
<1>9. CASE HandlerMayCompact(c2)
  BY <1>1, <1>4, <1>7, <1>9, ReadyEnding
<1>10. QED
  BY <1>1, <1>3, <1>8, <1>9

\* A rollback.
LEMMA RollbackOutcome ==
    ASSUME Roomy, LineageInv, NEW k \in AttemptKeys, NEW key \in Keys \cup {NoKey},
           RequestRollback(k, key)
    PROVE  CanAppend /\ Outcome({k})
<1> DEFINE d1 == note_attempt(mem, k, [mem.attempts[k] EXCEPT !.phase = "RolledBack"])
           d2 == note_fence(d1, "RollbackRevoked", k)
           g == mem.attempts[k].gen
           p == <<mem, d1, d2>>
<1>1. /\ CanAppend /\ ~find_idempotency(mem, key) /\ mem.attempts[k].phase \in HoldsAuthority
      /\ HandlerMayCompact(p \o Settle(d2, key, k, g))
  BY DEF RequestRollback, HandlerMayCompact
<1>2. d1 \in From(mem, {k}) /\ Ready(d1) /\ d1.idempotency = mem.idempotency
  <2>1. "RolledBack" \notin HoldsAuthority
    BY DEF HoldsAuthority
  <2>2. QED
    BY <1>1, <2>1, Rephased
<1> HIDE DEF d1
<1>3. /\ d2 \in From(mem, {k}) /\ d2.attempts = d1.attempts /\ d2.epoch = d1.epoch
      /\ d2.idempotency = d1.idempotency
  BY <1>2, FromFence DEF FenceKinds
<1> HIDE DEF d2
<1>4. Ready(d2) /\ ~find_idempotency(d2, key)
  BY <1>1, <1>2, <1>3, ReadyTable DEF find_idempotency
<1>5. g \in Nat /\ mem \in From(mem, {k})
  BY <1>1, RequestFinds
<1> HIDE DEF g
<1>6. p \in Seq(From(mem, {k}))
  BY <1>2, <1>3, <1>5
<1> HIDE DEF p
<1>7. Outcome({k})
  BY <1>1, <1>3, <1>4, <1>5, <1>6, SettledEnding
<1>8. QED
  BY <1>1, <1>7

\* A revalidation.
LEMMA RevalidationOutcome ==
    ASSUME Roomy, LineageInv, NEW k \in AttemptKeys, NEW verdict \in Verdicts,
           ResolveInterrupted(k, verdict)
    PROVE  CanAppend /\ Outcome({k})
<1> DEFINE a == mem.attempts[k]
           b == Revalidated(mem, a, verdict)
           d == note_attempt(mem, k, b)
           c == <<mem, d, d>>
<1>1. CanAppend /\ a.phase = "Interrupted" /\ HandlerMayCompact(c)
  BY DEF ResolveInterrupted, HandlerMayCompact
<1>2. /\ mem \in Orderly /\ Ready(mem) /\ a \in Attempt /\ a.epoch <= mem.epoch
      /\ mem.epoch \in Nat /\ mem.policy \in Nat /\ mem.topology \in Nat /\ mem \in From(mem, {k})
  BY <1>1, RequestFinds
<1>3. k \in Claims(mem) /\ a = mem.attempts[k]
  BY <1>1 DEF Claims, Undecided
<1> HIDE DEF a
<1>4. /\ b \in Attempt /\ b.gen = a.gen /\ b.epoch <= mem.epoch
      /\ b.phase \in {"Interrupted", "Aborted", "Committed"}
      /\ b.phase = "Committed" => b.epoch = mem.epoch
  <2>1. CASE verdict = "Applied"
    <3>1. b = [[a EXCEPT !.revalidation = verdict] EXCEPT !.phase = "Committed",
                  !.epoch = mem.epoch, !.policy = mem.policy, !.topology = mem.topology]
      BY <2>1 DEF Revalidated
    <3>2. b \in Attempt /\ b.epoch = mem.epoch /\ b.gen = a.gen /\ b.phase = "Committed"
      BY <1>2, <2>1, <3>1 DEF Attempt, Verdicts, Phases, Terminal
    <3>3. QED
      BY <1>2, <3>2
  <2>2. CASE verdict \in {"NotApplied", "Unknown"}
    <3>1. \/ b = [a EXCEPT !.revalidation = verdict]
          \/ b = [[a EXCEPT !.revalidation = verdict] EXCEPT !.phase = "Aborted"]
      BY <2>2 DEF Revalidated
    <3>2. /\ b \in Attempt /\ b.epoch = a.epoch /\ b.gen = a.gen
          /\ b.phase \in {"Interrupted", "Aborted"}
      BY <1>1, <1>2, <2>2, <3>1 DEF Attempt, Verdicts, Phases, Terminal
    <3>3. QED
      BY <1>2, <3>2
  <2>3. QED
    BY <2>1, <2>2 DEF Verdicts
<1> HIDE DEF b
<1>5. Later(a, b) /\ a.phase # "Absent" /\ b.phase # "Absent"
  BY <1>1, <1>4 DEF Later, Dead, PastGrant, HoldsAuthority
<1>6. b.phase \in HoldsAuthority => b.epoch = mem.epoch
  BY <1>4 DEF HoldsAuthority
<1>7. /\ d \in Orderly /\ Continues(mem, d, {k}) /\ d.attempts[k] = b
  BY <1>2, <1>3, <1>4, <1>5, <1>6, ChangedAttempt
<1>8. /\ d.epoch = mem.epoch
      /\ \A j \in AttemptKeys : j # k => d.attempts[j] = mem.attempts[j]
  BY <1>2, <1>4, NoteAttemptFacts
<1> HIDE DEF d
<1>9. Ready(d)
  <2>1. b.phase # "Evaluated" /\ b.phase \notin InFlight
    BY <1>4 DEF InFlight
  <2>2. QED
    BY <1>2, <1>7, <1>8, <2>1, ReadyRecord
<1>10. d \in From(mem, {k})
  BY <1>7 DEF From
<1>11. c \in Seq(From(mem, {k})) /\ Len(c) >= 1 /\ c[Len(c)] = d
  BY <1>2, <1>10
<1> HIDE DEF c
<1>12. Outcome({k})
  BY <1>1, <1>9, <1>11, ReadyEnding
<1>13. QED
  BY <1>1, <1>12

\* A change of policy or topology.
LEMMA RedefineOutcome ==
    ASSUME LineageInv, NEW b \in DurableState, b.attempts = mem.attempts, b.epoch = mem.epoch,
           b.topology >= mem.topology, b.idempotency = mem.idempotency,
           NEW kind \in FenceKinds, Redefine(b, kind)
    PROVE  CanAppend /\ Outcome(Holders(mem))
<1> DEFINE hs == Holders(mem)
<1>1. CanAppend
  BY DEF Redefine
<1>2. mem \in Orderly /\ Ready(mem) /\ mem \in From(mem, hs) /\ mem \in DurableState
  BY <1>1, RequestFinds
<1>3. PICK o \in Orders(hs) : HandlerMayCompact(<<mem>> \o FencingPass(b, o, kind, "Aborted"))
  BY DEF Redefine, HandlerMayCompact
<1>4. o \in Seq(AttemptKeys) /\ \A i \in 1..Len(o) : o[i] \in hs
  <2>1. hs \in SUBSET AttemptKeys
    BY DEF Holders
  <2>2. QED
    BY <2>1, OrdersType
<1>5. \A n \in 0..(2 * Len(o)) : Fenced(b, o, kind, "Aborted", n) \in From(mem, hs)
  BY <1>2, <1>4, FencedFrom
<1>6. Ready(Fenced(b, o, kind, "Aborted", 2 * Len(o)))
  BY <1>2, <1>4, FencedReady
<1> DEFINE r == FencingPass(b, o, kind, "Aborted")
           p == <<mem>>
           c == p \o r
<1>7. /\ r \in Seq(From(mem, hs)) /\ Len(r) = 2 * Len(o) + 1
      /\ r[2 * Len(o) + 1] = Fenced(b, o, kind, "Aborted", 2 * Len(o))
  <2>1. r \in Seq(From(mem, hs))
    BY <1>4, <1>5, FencingPassType
  <2>2. QED
    BY <1>4, <2>1, FencingPassEnd
<1>8. p \in Seq(From(mem, hs)) /\ HandlerMayCompact(c)
  BY <1>2, <1>3
<1> HIDE DEF p, r, c
<1>9. Len(r) >= 1 /\ Ready(r[Len(r)])
  <2>1. Len(o) \in Nat
    BY <1>4
  <2>2. QED
    BY <1>6, <1>7, <2>1
<1>10. c \in Seq(From(mem, hs)) /\ c # <<>> /\ c[Len(c)] = r[Len(r)]
  BY <1>7, <1>8, <1>9, Prefixed DEF c
<1>11. Len(c) >= 1 /\ Ready(c[Len(c)])
  BY <1>9, <1>10
<1>12. Outcome(hs)
  BY <1>1, <1>8, <1>10, <1>11, ReadyEnding
<1>13. QED
  BY <1>1, <1>12

\* ... of a policy,
LEMMA PolicyOutcome ==
    ASSUME LineageInv, NEW p \in DOMAIN PolicyOf, SetPolicy(p)
    PROVE  CanAppend /\ Outcome(Holders(mem))
<1> DEFINE b == [mem EXCEPT !.policy = p]
<1>1. Redefine(b, "PolicyChanged") /\ CanAppend
  BY DEF SetPolicy, Redefine
<1>2. mem \in DurableState /\ mem.topology \in Nat
  BY <1>1, RequestFinds
<1>3. /\ b \in DurableState /\ b.attempts = mem.attempts /\ b.epoch = mem.epoch
      /\ b.topology = mem.topology /\ b.idempotency = mem.idempotency
  BY <1>2 DEF DurableState
<1> HIDE DEF b
<1>4. b.topology >= mem.topology
  BY <1>2, <1>3
<1>5. QED
  BY <1>1, <1>3, <1>4, RedefineOutcome DEF FenceKinds

\* ... and of a topology.
LEMMA TopologyOutcome ==
    ASSUME LineageInv, NEW t \in DOMAIN LinkGen, SetTopology(t)
    PROVE  CanAppend /\ Outcome(Holders(mem))
<1> DEFINE b == [mem EXCEPT !.topology = t]
<1>1. Redefine(b, "TopologyChanged") /\ CanAppend /\ t > mem.topology
  BY DEF SetTopology, Redefine
<1>2. mem \in DurableState /\ mem.topology \in Nat /\ t \in Nat
  BY <1>1, RequestFinds, TopologyAssumption
<1>3. /\ b \in DurableState /\ b.attempts = mem.attempts /\ b.epoch = mem.epoch
      /\ b.topology = t /\ b.idempotency = mem.idempotency
  BY <1>2 DEF DurableState
<1> HIDE DEF b
<1>4. b.topology >= mem.topology
  BY <1>1, <1>2, <1>3
<1>5. QED
  BY <1>1, <1>3, <1>4, RedefineOutcome DEF FenceKinds

\* A compaction.
LEMMA CheckpointOutcome ==
    ASSUME LineageInv, Checkpoint
    PROVE  CanAppend /\ Outcome({})
<1> DEFINE c == <<mem>>
<1>1. CanAppend /\ HandlerMayCompact(c)
  BY DEF Checkpoint, HandlerMayCompact
<1>2. Ready(mem) /\ mem \in From(mem, {})
  BY <1>1, RequestFinds
<1>3. c \in Seq(From(mem, {})) /\ Len(c) >= 1 /\ c[Len(c)] = mem
  BY <1>2
<1> HIDE DEF c
<1>4. Outcome({})
  BY <1>1, <1>2, <1>3, ReadyEnding
<1>5. QED
  BY <1>1, <1>4

\* The chain of a grant: the attempt is new, and from the third state on Authorized.
LEMMA GrantStates ==
    ASSUME Roomy, Advancing, LineageInv, NEW l \in Links, NEW key \in Keys \cup {NoKey},
           Evaluates(l, key)
    PROVE  LET c == GrantChain(l, key)
               k == NextAttempt(l)
               g == LinkGen[mem.topology][l]
           IN  /\ CanAppend /\ k \in AttemptKeys /\ g \in Nat /\ mem.attempts[k].gen < g
               /\ ~find_idempotency(mem, key)
               /\ c \in Seq(From(mem, {})) /\ Len(c) >= 3
               /\ \A i \in 3..Len(c) : /\ c[i].attempts[k].gen = g
                                       /\ c[i].attempts[k].phase = "Authorized"
               /\ Ready(c[Len(c)])
               /\ key # NoKey /\ Ample => find_idempotency(c[Len(c)], key)
<1> DEFINE g == LinkGen[mem.topology][l]
           k == NextAttempt(l)
           a == [phase |-> "Evaluated", gen |-> g, epoch |-> mem.epoch,
                 policy |-> mem.policy, topology |-> mem.topology,
                 revalidation |-> "None"]
           b == [a EXCEPT !.phase = "Authorized"]
           d1 == note_attempt(mem, k, a)
           d2 == note_attempt(d1, k, b)
           r == Settle(d2, key, k, g)
           p == <<mem, d1, d2>>
           c == GrantChain(l, key)
           S == From(mem, {})
<1>1. c = p \o r
  BY DEF GrantChain
<1>2. CanAppend /\ ~find_idempotency(mem, key)
  BY DEF Evaluates, Admitted, CanAppend
<1>3. /\ g \in Nat /\ mem \in S /\ Ready(mem) /\ mem \in DurableState
      /\ mem.epoch \in Nat /\ mem.policy \in Nat /\ mem.topology \in Nat
  BY <1>2, RequestFinds
<1>4. a \in Attempt /\ a.gen = g /\ a.epoch = mem.epoch /\ a.phase = "Evaluated"
  BY <1>3 DEF Attempt, Phases, InFlight
<1> HIDE DEF a, S, c
<1>5. b \in Attempt /\ b.gen = g /\ b.epoch = mem.epoch /\ b.phase = "Authorized"
  BY <1>4 DEF Attempt, Phases, InFlight
<1> HIDE DEF b
<1>6. k \in AttemptKeys /\ mem.attempts[k].gen < g /\ d1 \in S
  BY <1>3, <1>4, Evaluated DEF S
<1> DEFINE d == note_attempt(mem, k, b)
<1>7. /\ d \in S /\ d.epoch = mem.epoch /\ d.attempts[k] = b /\ d.idempotency = mem.idempotency
      /\ \A j \in AttemptKeys : j # k => d.attempts[j] = mem.attempts[j]
  BY <1>3, <1>5, Evaluated DEF S
<1>8. d2 = d
  <2> DEFINE m == mem
             t1 == [m.attempts EXCEPT ![k] = a]
             t2 == [m.attempts EXCEPT ![k] = b]
  <2>1. m.attempts \in [AttemptKeys -> Attempt]
    BY <1>3 DEF DurableState
  <2>2. d1 = [m EXCEPT !.attempts = t1] /\ d = [m EXCEPT !.attempts = t2]
    BY <1>3, <1>4, <1>5, <1>6, NoEviction
  <2>3. d1 \in DurableState
    BY <1>6, OrderlyFacts DEF S, From
  <2>4. d2 = [d1 EXCEPT !.attempts = [d1.attempts EXCEPT ![k] = b]]
    BY <1>5, <1>6, <2>3, NoEviction
  <2>5. [t1 EXCEPT ![k] = b] = t2
    BY <1>6, <2>1
  <2> HIDE DEF t1, t2, d1, d, d2
  <2>6. d1.attempts = t1
    BY <1>3, <2>2 DEF DurableState
  <2>7. d2 = [d1 EXCEPT !.attempts = t2]
    BY <2>4, <2>5, <2>6
  <2>8. QED
    BY <1>3, <2>2, <2>7 DEF DurableState
<1> HIDE DEF d, d1, k
<1>9. d2 \in S /\ d2.attempts[k] = b /\ Ready(d2) /\ ~find_idempotency(d2, key)
  <2>1. Ready(d)
    <3>1. b.phase # "Evaluated"
      BY <1>5
    <3>2. QED
      BY <1>3, <1>5, <1>6, <1>7, <3>1, ReadyRecord
  <2>2. ~find_idempotency(d, key)
    BY <1>2, <1>7 DEF find_idempotency
  <2>3. QED
    BY <1>7, <1>8, <2>1, <2>2
<1> HIDE DEF d2
<1>10. /\ r \in Seq(S) /\ Len(r) \in {1, 2}
       /\ \A i \in 1..Len(r) : r[i].attempts = d2.attempts /\ r[i].epoch = d2.epoch
       /\ key # NoKey /\ Ample => find_idempotency(r[Len(r)], key)
  BY <1>3, <1>6, <1>9, FromSettle DEF S
<1> HIDE DEF g
<1>11. p \in Seq(S) /\ Len(p) = 3 /\ p[3] = d2
  BY <1>3, <1>6, <1>9
<1> HIDE DEF p, r
<1>12. Len(r) = 1 \/ Len(r) = 2
  BY <1>10
<1>13. /\ c \in Seq(S) /\ Len(c) = 3 + Len(r)
       /\ \A i \in 1..(3 + Len(r)) : c[i] = IF i <= 3 THEN p[i] ELSE r[i - 3]
  <2>1. /\ p \o r \in Seq(S) /\ Len(p \o r) = Len(p) + Len(r)
        /\ \A i \in 1..(Len(p) + Len(r)) :
              (p \o r)[i] = IF i <= Len(p) THEN p[i] ELSE r[i - Len(p)]
    BY <1>10, <1>11, ConcatProperties
  <2>2. QED
    BY <1>1, <1>11, <2>1
<1>14. ASSUME NEW i \in 3..Len(c) PROVE c[i].attempts[k] = b
  <2>1. CASE i = 3
    <3>1. c[3] = d2
      BY <1>11, <1>12, <1>13
    <3>2. QED
      BY <1>9, <2>1, <3>1
  <2>2. CASE i > 3
    <3>1. c[i] = r[i - 3] /\ i - 3 \in 1..Len(r)
      BY <1>12, <1>13, <2>2
    <3>2. QED
      BY <1>9, <1>10, <3>1
  <2>3. QED
    BY <2>1, <2>2
<1>15. c[Len(c)] = r[Len(r)] /\ Len(c) >= 3 /\ Len(r) \in 1..Len(r)
  <2>1. CASE Len(r) = 1
    BY <1>13, <2>1
  <2>2. CASE Len(r) = 2
    BY <1>13, <2>2
  <2>3. QED
    BY <1>12, <2>1, <2>2
<1>16. Ready(c[Len(c)])
  BY <1>9, <1>10, <1>15, ReadyTable
<1>17. QED
  BY <1>2, <1>3, <1>5, <1>6, <1>10, <1>13, <1>14, <1>15, <1>16 DEF S, k, g, c

\* A grant, and the answer its caller may be given.
LEMMA GrantOutcome ==
    ASSUME Roomy, Advancing, LineageInv, NEW l \in Links, NEW key \in Keys \cup {NoKey},
           Grant(l, key)
    PROVE  LET k == NextAttempt(l)
               g == LinkGen[mem.topology][l]
           IN  /\ CanAppend /\ Outcome({}) /\ Granted(k, g)
               /\ k \in AttemptKeys /\ g \in Nat /\ mem.attempts[k].gen < g
               /\ ~find_idempotency(mem, key)
               /\ \/ acked' = acked
                  \/ \E x : /\ acked' = acked \cup {x}
                            /\ x.attempt = k /\ x.gen = g /\ x.key = key
                            /\ Remembers(durable', x)
                            /\ x.indexed => key # NoKey
                            /\ x.indexed /\ Ample => find_idempotency(durable', key)
<1> DEFINE k == NextAttempt(l)
           g == LinkGen[mem.topology][l]
           c == GrantChain(l, key)
           last == c[Len(c)]
           rotated == [last EXCEPT !.uncovered = FALSE]
           answer(b) == [attempt |-> k, gen |-> g, epoch |-> mem.epoch, key |-> key, indexed |-> b]
           New(x) == /\ acked' = acked \cup {x}
                     /\ x.attempt = k /\ x.gen = g /\ x.key = key
                     /\ Remembers(durable', x)
                     /\ x.indexed => key # NoKey
                     /\ x.indexed /\ Ample => find_idempotency(durable', key)
<1>1. Evaluates(l, key) /\ Granted(k, g)
  BY DEF Grant
<1>2. /\ CanAppend /\ k \in AttemptKeys /\ g \in Nat /\ mem.attempts[k].gen < g
      /\ ~find_idempotency(mem, key)
      /\ c \in Seq(From(mem, {})) /\ Len(c) >= 3
      /\ \A i \in 3..Len(c) : c[i].attempts[k].gen = g /\ c[i].attempts[k].phase = "Authorized"
      /\ Ready(last)
      /\ key # NoKey /\ Ample => find_idempotency(last, key)
  BY <1>1, GrantStates
<1>3. \/ (Written(c) \/ Compacts(last)) /\ acked' = acked \cup {answer(key # NoKey)}
      \/ (Dies(c) \/ CompactDies(last)) /\ acked' = acked
      \/ \E i \in DOMAIN c : AppendFails(c, i) /\ i < 4 /\ acked' = acked
      \/ \E i \in DOMAIN c : AppendFails(c, i) /\ i >= 4 /\ acked' = acked \cup {answer(FALSE)}
  <2>1. \A i \in DOMAIN c : i \in Nat
    BY <1>2
  <2>2. \/ (Written(c) \/ Compacts(last)) /\ acked' = acked \cup {answer(key # NoKey)}
        \/ (Dies(c) \/ CompactDies(last)) /\ acked' = acked
        \/ \E i \in DOMAIN c :
              /\ AppendFails(c, i)
              /\ acked' = IF i >= 4 THEN acked \cup {answer(FALSE)} ELSE acked
    BY DEF Grant
  <2>3. ASSUME NEW i \in DOMAIN c, AppendFails(c, i),
               acked' = IF i >= 4 THEN acked \cup {answer(FALSE)} ELSE acked
        PROVE  \/ i < 4 /\ acked' = acked
               \/ i >= 4 /\ acked' = acked \cup {answer(FALSE)}
    <3> HIDE DEF c, answer, k
    <3>1. CASE i >= 4
      BY <2>3, <3>1, Zenon
    <3>2. CASE ~(i >= 4)
      <4>1. i \in Nat
        BY <2>1
      <4>2. i < 4
        BY <3>2, <4>1
      <4>3. acked' = acked
        BY <2>3, <3>2, Zenon
      <4>4. QED
        BY <4>2, <4>3
    <3>3. QED
      BY <3>1, <3>2
  <2> HIDE DEF c, last, answer, k
  <2>4. QED
    BY <2>2, <2>3, Zenon
<1>4. /\ \A b \in BOOLEAN : /\ answer(b).attempt = k /\ answer(b).gen = g /\ answer(b).key = key
                            /\ answer(b).indexed = b
  OBVIOUS
<1> HIDE DEF c, k, g, answer
<1>5. HandlerMayCompact(c)
  BY <1>3 DEF HandlerMayCompact, Handler
<1>6. Len(c) \in 3..Len(c) /\ last \in Orderly /\ Len(c) \in Nat /\ DOMAIN c = 1..Len(c)
  BY <1>2 DEF From
<1>7. Outcome({})
  <2>1. Len(c) >= 1
    BY <1>6
  <2>2. QED
    BY <1>2, <1>5, <2>1, ReadyEnding
<1>8. last.attempts[k].gen = g /\ last.attempts[k].phase = "Authorized"
  BY <1>2, <1>6
<1>9. \A d : d.attempts[k].gen = g /\ d.attempts[k].phase = "Authorized" =>
         \A b \in BOOLEAN : Remembers(d, answer(b))
  BY <1>4 DEF Remembers, PastGrant, HoldsAuthority
<1>10. CASE (Written(c) \/ Compacts(last)) /\ acked' = acked \cup {answer(key # NoKey)}
  <2> HIDE DEF last
  <2>1. rotated.attempts = last.attempts /\ rotated.idempotency = last.idempotency
    BY <1>6, FromRotated
  <2>2. durable' \in {last, rotated}
    BY <1>10 DEF Written, Compacts, last
  <2> HIDE DEF rotated
  <2>3. durable'.attempts = last.attempts /\ durable'.idempotency = last.idempotency
    BY <2>1, <2>2
  <2>4. Remembers(durable', answer(key # NoKey))
    <3>1. Remembers(last, answer(key # NoKey))
      BY <1>8, <1>9
    <3>2. QED
      BY <2>3, <3>1 DEF Remembers
  <2>5. key # NoKey /\ Ample => find_idempotency(durable', key)
    BY <1>2, <2>3 DEF find_idempotency
  <2>6. New(answer(key # NoKey))
    BY <1>4, <1>10, <2>4, <2>5
  <2>7. QED
    BY <1>1, <1>2, <1>7, <2>6 DEF k, g
<1>11. CASE \E i \in DOMAIN c : AppendFails(c, i) /\ i >= 4 /\ acked' = acked \cup {answer(FALSE)}
  <2>1. PICK i \in DOMAIN c : AppendFails(c, i) /\ i >= 4 /\ acked' = acked \cup {answer(FALSE)}
    BY <1>11
  <2>2. i \in 3..Len(c) /\ i + 1 \in 3..Len(c) /\ durable' \in {c[i], c[i + 1]}
    BY <1>6, <2>1 DEF AppendFails
  <2>3. durable'.attempts[k].gen = g /\ durable'.attempts[k].phase = "Authorized"
    BY <1>2, <2>2
  <2>4. Remembers(durable', answer(FALSE))
    BY <1>9, <2>3
  <2>5. New(answer(FALSE))
    BY <1>4, <2>1, <2>4
  <2>6. QED
    BY <1>1, <1>2, <1>7, <2>5 DEF k, g
<1>12. CASE acked' = acked
  BY <1>1, <1>2, <1>7, <1>12 DEF k, g
<1>13. QED
  BY <1>3, <1>10, <1>11, <1>12

(***************************************************************************)
(* What callers were told, from one lineage state to the next.             *)
(***************************************************************************)

Standings == [attempt: AttemptKeys, gen: Nat]

\* Running on, records follow one another.
LEMMA ContinuesFollows ==
    ASSUME NEW d \in Orderly, NEW ks, NEW e \in From(d, ks), NEW k \in AttemptKeys
    PROVE  Follows(d.attempts[k], e.attempts[k])
<1>1. d.attempts[k].gen \in Nat /\ e.attempts[k].gen \in Nat
  BY OrderlyFacts DEF From
<1>2. CASE e.attempts[k] = d.attempts[k]
  BY <1>2 DEF Follows, Later
<1>3. CASE e.attempts[k] # d.attempts[k]
  BY <1>1, <1>3 DEF From, Continues, Follows
<1>4. QED
  BY <1>2, <1>3

\* A grant that is remembered stays so.
LEMMA RemembersOn ==
    ASSUME NEW d \in Orderly, NEW e \in Orderly,
           \A k \in AttemptKeys : Follows(d.attempts[k], e.attempts[k]),
           NEW r, r.attempt \in AttemptKeys, r.gen \in Nat, Remembers(d, r)
    PROVE  Remembers(e, r)
<1> DEFINE a == d.attempts[r.attempt]
           b == e.attempts[r.attempt]
<1>1. a.gen \in Nat /\ b.gen \in Nat
  BY OrderlyFacts
<1>2. Follows(a, b)
  OBVIOUS
<1>3. a.gen > r.gen \/ (a.gen = r.gen /\ a.phase \in PastGrant)
  BY DEF Remembers
<1> HIDE DEF a, b
<1>4. b.gen > r.gen \/ (b.gen = r.gen /\ b.phase \in PastGrant)
  BY <1>1, <1>2, <1>3 DEF Follows, Later
<1>5. QED
  BY <1>4 DEF Remembers, b

\* Where no authority is active for a generation nobody has passed, no grant of it
\* stands.
LEMMA NoneStands ==
    ASSUME NEW d \in Orderly, NEW r \in Standings, Stands(d, r), NEW g \in Nat,
           active_authority(d, r.attempt[1], g) = {},
           \A q \in Seqs : Gen(d, r.attempt[1], q) <= g
    PROVE  r.gen # g
<1> SUFFICES ASSUME r.gen = g PROVE FALSE
  OBVIOUS
<1> DEFINE l == r.attempt[1]
           q == r.attempt[2]
           a == d.attempts[r.attempt]
<1>1. l \in Links /\ q \in Seqs /\ r.attempt = <<l, q>> /\ r.attempt \in AttemptKeys /\ r.gen \in Nat
  BY DEF Standings, AttemptKeys
<1>2. a.gen \in Nat /\ a.gen <= g
  <2>1. Gen(d, l, q) = a.gen
    BY <1>1 DEF Gen
  <2>2. QED
    BY <1>1, <2>1, OrderlyFacts
<1>3. a.gen = g /\ a.phase \in HoldsAuthority /\ a.epoch = d.epoch
  BY <1>1, <1>2 DEF Stands, Holding
<1>4. q \in active_authority(d, l, g)
  <2>1. a.phase # "Absent"
    BY <1>3 DEF HoldsAuthority
  <2>2. QED
    BY <1>1, <1>3, <2>1 DEF active_authority, Of
<1>5. QED
  BY <1>4

\* A standing grant goes on standing unless a handler wrote its attempt out of
\* authority.
LEMMA StandsOn ==
    ASSUME NEW d \in Orderly, NEW ks, NEW e \in From(d, ks), NEW r \in Standings, Stands(d, r),
           r.attempt \in ks => \/ Holding(e, r.attempt, r.gen)
                               \/ d.attempts[r.attempt].gen > r.gen
    PROVE  Stands(e, r)
<1> DEFINE l == r.attempt[1]
           a == d.attempts[r.attempt]
           b == e.attempts[r.attempt]
<1>1. /\ l \in Links /\ r.attempt[2] \in Seqs /\ r.attempt \in AttemptKeys /\ r.gen \in Nat
      /\ e \in Orderly /\ e.epoch = d.epoch
  BY DEF Standings, AttemptKeys, From, Continues
<1>2. a.gen \in Nat /\ b.gen \in Nat
  BY <1>1, OrderlyFacts
<1>3. \/ a.gen > r.gen
      \/ a.gen = r.gen /\ a.phase \in HoldsAuthority /\ a.epoch = d.epoch
  BY DEF Stands, Holding
<1>4. \/ b = a
      \/ /\ r.attempt \in ks /\ b.gen = a.gen
         /\ b.phase \in HoldsAuthority =>
               b.epoch = d.epoch \/ (a.phase \in HoldsAuthority /\ b.epoch = a.epoch)
      \/ b.gen > a.gen
  BY <1>1 DEF From, Continues
<1>5. r.attempt \in ks => \/ b.gen = r.gen /\ b.phase \in HoldsAuthority
                          \/ a.gen > r.gen
  BY DEF Holding
<1> HIDE DEF a, b
<1>6. \/ b.gen > r.gen
      \/ b.gen = r.gen /\ b.phase \in HoldsAuthority /\ b.epoch = e.epoch
  <2>1. CASE a.gen > r.gen
    BY <1>1, <1>2, <1>4, <2>1
  <2>2. CASE a.gen = r.gen /\ a.phase \in HoldsAuthority /\ a.epoch = d.epoch
    <3>1. CASE b = a
      BY <1>1, <2>2, <3>1
    <3>2. CASE b.gen > a.gen
      BY <1>1, <1>2, <2>2, <3>2
    <3>3. CASE /\ r.attempt \in ks /\ b.gen = a.gen
               /\ b.phase \in HoldsAuthority =>
                     b.epoch = d.epoch \/ (a.phase \in HoldsAuthority /\ b.epoch = a.epoch)
      BY <1>1, <1>2, <1>5, <2>2, <3>3
    <3>4. QED
      BY <1>4, <3>1, <3>2, <3>3
  <2>3. QED
    BY <1>3, <2>1, <2>2
<1>7. ASSUME NEW q \in Seqs, q > r.attempt[2], Gen(e, l, q) = r.gen PROVE FALSE
  <2>1. Gen(d, l, q) # r.gen
    BY <1>7 DEF Stands
  <2> DEFINE j == <<l, q>>
  <2>2. j \in AttemptKeys /\ j[1] = l /\ Gen(d, l, q) = d.attempts[j].gen /\ Gen(e, l, q) = e.attempts[j].gen
    BY <1>1 DEF AttemptKeys, Gen
  <2> HIDE DEF j
  <2>3. /\ active_authority(d, j[1], e.attempts[j].gen) = {}
        /\ \A s \in Seqs : Gen(d, j[1], s) <= e.attempts[j].gen
    BY <1>7, <2>1, <2>2 DEF From, Continues
  <2>4. active_authority(d, l, r.gen) = {} /\ \A s \in Seqs : Gen(d, l, s) <= r.gen
    BY <1>7, <2>2, <2>3
  <2>5. QED
    BY <1>1, <2>4, NoneStands
<1>8. QED
  BY <1>6, <1>7 DEF Stands, Holding, b

\* A grant or a revalidation leaves its attempt standing and no other of the link
\* generation.
LEMMA StandsNew ==
    ASSUME NEW d \in Orderly, NEW k \in AttemptKeys, NEW g \in Nat, NEW e \in From(d, {k}),
           Holding(e, k, g),
           \/ d.attempts[k].gen < g
           \/ d.attempts[k].gen = g /\ d.attempts[k].phase = "Interrupted"
    PROVE  /\ Stands(e, [attempt |-> k, gen |-> g])
           /\ \A r \in Standings :
                 Stands(d, r) /\ r.attempt[1] = k[1] /\ r.gen = g => r.attempt = k
<1> DEFINE l == k[1]
           a == d.attempts[k]
           b == e.attempts[k]
<1>1. /\ l \in Links /\ k[2] \in Seqs /\ k = <<l, k[2]>> /\ e \in Orderly /\ e.epoch = d.epoch
  BY DEF AttemptKeys, From, Continues
<1>2. a.gen \in Nat /\ b.gen \in Nat
  BY <1>1, OrderlyFacts
<1>3. b.gen = g /\ b.phase \in HoldsAuthority
  BY DEF Holding
<1>4. \/ b = a
      \/ /\ b.gen = a.gen
         /\ b.epoch = d.epoch \/ (a.phase \in HoldsAuthority /\ b.epoch = a.epoch)
      \/ /\ b.gen > a.gen /\ active_authority(d, l, b.gen) = {} /\ b.epoch = d.epoch
         /\ \A q \in Seqs : Gen(d, l, q) <= b.gen
  BY <1>3 DEF From, Continues
<1>5. a.gen < g \/ (a.gen = g /\ a.phase = "Interrupted")
  OBVIOUS
<1>6. a = d.attempts[k] /\ b = e.attempts[k]
  OBVIOUS
<1> HIDE DEF a, b
<1>7. b.epoch = d.epoch
  BY <1>2, <1>3, <1>4, <1>5 DEF HoldsAuthority
<1>8. k \in Claims(e)
  BY <1>1, <1>3, <1>6, <1>7 DEF Claims
<1>9. \A q \in Seqs : q > k[2] => Gen(e, l, q) # g
  <2>1. Gen(e, l, k[2]) = g /\ <<l, k[2]>> \in Claims(e)
    BY <1>1, <1>3, <1>6, <1>8 DEF Gen
  <2>2. ASSUME NEW q \in Seqs, q > k[2] PROVE k[2] < q
    BY <1>1, <2>2 DEF Seqs
  <2>3. QED
    BY <1>1, <2>1, <2>2 DEF Orderly, ClaimIsLatest
<1>10. Stands(e, [attempt |-> k, gen |-> g])
  BY <1>1, <1>3, <1>6, <1>7, <1>9 DEF Stands, Holding
<1>11. ASSUME NEW r \in Standings, Stands(d, r), r.attempt[1] = l, r.gen = g, r.attempt # k
       PROVE  FALSE
  <2> DEFINE p == r.attempt[2]
             q == k[2]
  <2>1. p \in Seqs /\ r.attempt = <<l, p>> /\ p # q /\ r.attempt \in AttemptKeys
    BY <1>1, <1>11 DEF Standings, AttemptKeys
  <2>2. CASE a.gen < g
    <3>1. active_authority(d, l, g) = {} /\ \A s \in Seqs : Gen(d, l, s) <= g
      BY <1>2, <1>3, <1>4, <2>2
    <3>2. QED
      BY <1>11, <3>1, NoneStands
  <2>3. CASE a.gen = g /\ a.phase = "Interrupted"
    <3>1. k \in Claims(d) /\ Gen(d, l, q) = g
      BY <1>1, <1>6, <2>3 DEF Claims, Undecided, Gen
    <3>2. p \in Nat /\ q \in Nat /\ q \in Seqs
      BY <1>1, <2>1 DEF Seqs
    <3>3. ~(q > p)
      BY <1>11, <3>1, <3>2 DEF Stands
    <3>4. q < p
      BY <2>1, <3>2, <3>3
    <3>5. Gen(d, l, p) <= Gen(d, l, q)
      BY <1>1, <2>1, <3>2, <3>4 DEF Orderly, Layered
    <3>6. Gen(d, l, p) # Gen(d, l, q)
      BY <1>1, <2>1, <3>1, <3>2, <3>4 DEF Orderly, ClaimIsLatest
    <3>7. d.attempts[r.attempt].gen = Gen(d, l, p)
      BY <2>1 DEF Gen
    <3>8. Gen(d, l, p) \in Nat
      BY <1>1, <2>1, OrderlyFacts
    <3>9. QED
      BY <1>11, <3>1, <3>5, <3>6, <3>7, <3>8 DEF Stands, Holding
  <2>4. QED
    BY <1>5, <2>2, <2>3
<1>12. QED
  BY <1>10, <1>11

\* A caller is told of a new grant of attempt k for generation g.
Tells(k, g) ==
    \E x : /\ acked' = acked \cup {x}
           /\ x.attempt = k /\ x.gen = g /\ mem.attempts[k].gen < g
           /\ ~find_idempotency(mem, x.key)
           /\ Remembers(durable', x)
           /\ x.indexed => x.key # NoKey
           /\ x.indexed /\ Ample => find_idempotency(durable', x.key)

\* The two kinds of requests: those that may take authority away, and those that give it.
Takes == \E ks : Outcome(ks) /\ Revoked(ks) /\ acked' = acked
Gives ==
    \E k \in AttemptKeys, g \in Nat, ks \in SUBSET AttemptKeys :
        /\ Outcome(ks) /\ Granted(k, g)
        /\ \/ ks = {} /\ mem.attempts[k].gen < g
           \/ ks = {k} /\ mem.attempts[k].gen = g /\ mem.attempts[k].phase = "Interrupted"
        /\ acked' = acked \/ Tells(k, g)

\* Every request is of one of the two kinds.
LEMMA ServesKinds ==
    ASSUME Roomy, Advancing, LineageInv, Serves
    PROVE  CanAppend /\ (Takes \/ Gives)
<1>1. ASSUME NEW l \in Links, NEW key \in Keys \cup {NoKey}, GateRefuses(l, key)
      PROVE  CanAppend /\ Takes
  <2>1. CanAppend /\ Outcome({})
    BY <1>1, GateOutcome
  <2>2. Revoked({}) /\ acked' = acked
    BY <1>1 DEF GateRefuses
  <2>3. QED
    BY <2>1, <2>2 DEF Takes
<1>2. ASSUME NEW l \in Links, NEW key \in Keys \cup {NoKey},
             NEW phase \in {"Refused", "Indeterminate"}, RefuseAttempt(l, key, phase)
      PROVE  CanAppend /\ Takes
  <2>1. CanAppend /\ Outcome({})
    BY <1>2, RefuseOutcome
  <2>2. Revoked({}) /\ acked' = acked
    BY <1>2 DEF RefuseAttempt
  <2>3. QED
    BY <2>1, <2>2 DEF Takes
<1>3. ASSUME NEW l \in Links, NEW key \in Keys \cup {NoKey}, Grant(l, key)
      PROVE  CanAppend /\ Gives
  <2> DEFINE k == NextAttempt(l)
             g == LinkGen[mem.topology][l]
  <2>1. /\ CanAppend /\ Outcome({}) /\ Granted(k, g)
        /\ k \in AttemptKeys /\ g \in Nat /\ mem.attempts[k].gen < g
        /\ ~find_idempotency(mem, key)
        /\ \/ acked' = acked
           \/ \E x : /\ acked' = acked \cup {x}
                     /\ x.attempt = k /\ x.gen = g /\ x.key = key
                     /\ Remembers(durable', x)
                     /\ x.indexed => key # NoKey
                     /\ x.indexed /\ Ample => find_idempotency(durable', key)
    BY <1>3, GrantOutcome
  <2> HIDE DEF k, g
  <2>2. acked' = acked \/ Tells(k, g)
    <3>1. CASE acked' = acked
      BY <3>1
    <3>2. CASE \E x : /\ acked' = acked \cup {x}
                      /\ x.attempt = k /\ x.gen = g /\ x.key = key
                      /\ Remembers(durable', x)
                      /\ x.indexed => key # NoKey
                      /\ x.indexed /\ Ample => find_idempotency(durable', key)
      BY <2>1, <3>2, Zenon DEF Tells
    <3>3. QED
      BY <2>1, <3>1, <3>2
  <2>3. QED
    BY <2>1, <2>2 DEF Gives
<1>4. ASSUME NEW k \in AttemptKeys, NEW yes \in BOOLEAN,
             RecordApplication(k, yes) \/ RecordVerification(k, yes)
      PROVE  CanAppend /\ Takes
  <2>1. CanAppend /\ Outcome({k})
    BY <1>4, ApplicationOutcome, VerificationOutcome
  <2>2. Revoked({k}) /\ acked' = acked
    BY <1>4 DEF RecordApplication, RecordVerification
  <2>3. QED
    BY <2>1, <2>2 DEF Takes
<1>5. ASSUME NEW k \in AttemptKeys, NEW key \in Keys \cup {NoKey}, RequestRollback(k, key)
      PROVE  CanAppend /\ Takes
  <2>1. CanAppend /\ Outcome({k})
    BY <1>5, RollbackOutcome
  <2>2. Revoked({k}) /\ acked' = acked
    BY <1>5 DEF RequestRollback
  <2>3. QED
    BY <2>1, <2>2 DEF Takes
<1>6. ASSUME NEW k \in AttemptKeys, NEW verdict \in Verdicts, ResolveInterrupted(k, verdict)
      PROVE  CanAppend /\ Gives
  <2>1. CanAppend /\ Outcome({k})
    BY <1>6, RevalidationOutcome
  <2>2. /\ mem.attempts[k].phase = "Interrupted" /\ Granted(k, mem.attempts[k].gen)
        /\ acked' = acked
    BY <1>6 DEF ResolveInterrupted
  <2>3. mem.attempts[k].gen \in Nat
    BY <2>1, RequestFinds
  <2>4. QED
    BY <2>1, <2>2, <2>3 DEF Gives
<1>7. ASSUME NEW p \in DOMAIN PolicyOf, SetPolicy(p)
      PROVE  CanAppend /\ Takes
  <2>1. CanAppend /\ Outcome(Holders(mem))
    BY <1>7, PolicyOutcome
  <2>2. Revoked(Holders(mem)) /\ acked' = acked
    BY <1>7 DEF SetPolicy, Redefine
  <2>3. QED
    BY <2>1, <2>2 DEF Takes
<1>8. ASSUME NEW t \in DOMAIN LinkGen, SetTopology(t)
      PROVE  CanAppend /\ Takes
  <2>1. CanAppend /\ Outcome(Holders(mem))
    BY <1>8, TopologyOutcome
  <2>2. Revoked(Holders(mem)) /\ acked' = acked
    BY <1>8 DEF SetTopology, Redefine
  <2>3. QED
    BY <2>1, <2>2 DEF Takes
<1>9. CASE Checkpoint
  <2>1. CanAppend /\ Outcome({})
    BY <1>9, CheckpointOutcome
  <2>2. Revoked({}) /\ acked' = acked
    BY <1>9 DEF Checkpoint
  <2>3. QED
    BY <2>1, <2>2 DEF Takes
<1>10. QED
  BY <1>1, <1>2, <1>3, <1>4, <1>5, <1>6, <1>7, <1>8, <1>9 DEF Serves

\* What the medium holds is followed by what it comes to hold.
Kept(d, e) ==
    /\ \A k \in AttemptKeys : Follows(d.attempts[k], e.attempts[k])
    /\ Ample => \A key : find_idempotency(d, key) => find_idempotency(e, key)

\* The initial state of a lineage is in order.
LEMMA FreshOrderly == Fresh \in Orderly
<1>1. Fresh \in Dated
  BY RotatedBound DEF DatedBound
<1>2. \A k \in AttemptKeys : Fresh.attempts[k] = NoAttempt
  BY DEF Fresh
<1>3. \A l \in Links, q \in Seqs : Gen(Fresh, l, q) = 0
  <2>1. \A l \in Links, q \in Seqs : <<l, q>> \in AttemptKeys
    BY DEF AttemptKeys
  <2>2. NoAttempt.gen = 0
    BY DEF NoAttempt
  <2>3. QED
    BY <1>2, <2>1, <2>2 DEF Gen
<1>4. Generated(Fresh) /\ Layered(Fresh)
  BY <1>2, <1>3 DEF Generated, Layered
<1>5. Claims(Fresh) = {}
  BY <1>2 DEF Claims, Undecided, NoAttempt, InFlight, HoldsAuthority
<1>6. ClaimIsLatest(Fresh)
  BY <1>5 DEF ClaimIsLatest
<1>7. IndexedOnce(Fresh)
  BY DEF IndexedOnce, Fresh
<1>8. QED
  BY <1>1, <1>4, <1>6, <1>7 DEF Orderly

\* Nothing is lost where nothing changes.
LEMMA KeptSame ==
    ASSUME NEW d, NEW e, e.attempts = d.attempts, e.idempotency = d.idempotency
    PROVE  Kept(d, e)
BY DEF Kept, Follows, Later, find_idempotency

\* A request leaves the lineage in order on both sides.
LEMMA OutcomeLineage ==
    ASSUME LineageInv, CanAppend, NEW ks, Outcome(ks)
    PROVE  /\ mem' \in Orderly /\ durable' \in Orderly /\ Kept(durable, durable')
           /\ CanAppend' => Ready(mem') /\ durable' = mem'
<1>1. mem \in Orderly /\ durable = mem
  BY RequestFinds
<1>2. durable' \in From(mem, ks) /\ (mem' = Fresh \/ mem' \in From(mem, ks))
  BY DEF Outcome
<1>3. mem' \in Orderly /\ durable' \in Orderly
  BY <1>2, FreshOrderly DEF From
<1>4. \A k \in AttemptKeys : Follows(mem.attempts[k], durable'.attempts[k])
  BY <1>1, <1>2, ContinuesFollows
<1>5. Ample => \A key : find_idempotency(mem, key) => find_idempotency(durable', key)
  BY <1>2 DEF From, Continues
<1>6. CanAppend' => Ready(mem') /\ durable' = mem'
  BY DEF Outcome, CanAppend
<1>7. QED
  BY <1>1, <1>3, <1>4, <1>5, <1>6 DEF Kept

\* When the pass of a boot is through nothing is in flight.
LEMMA BootReady ==
    ASSUME NEW d \in DurableState, NEW o \in Seq(AttemptKeys),
           \A k \in AttemptKeys : d.attempts[k].phase \in InFlight => \E i \in 1..Len(o) : o[i] = k
    PROVE  Ready(Fenced([d EXCEPT !.epoch = @ + 1], o, "PreRestartAuthority", "Interrupted",
                        2 * Len(o)))
<1> DEFINE boot == [d EXCEPT !.epoch = @ + 1]
           e == Fenced(boot, o, "PreRestartAuthority", "Interrupted", 2 * Len(o))
<1>1. Len(o) \in Nat /\ 2 * Len(o) \in 0..(2 * Len(o))
  <2>1. Len(o) \in Nat
    OBVIOUS
  <2>2. QED
    BY <2>1
<1>2. boot \in DurableState /\ boot.attempts = d.attempts
  <2> DEFINE n == d.epoch + 1
  <2>1. n \in Nat /\ boot = [d EXCEPT !.epoch = n]
    BY DEF DurableState
  <2> HIDE DEF n, boot
  <2>2. QED
    BY <2>1 DEF DurableState
<1> HIDE DEF boot
<1>3. "PreRestartAuthority" \in FenceKinds /\ "Interrupted" \in Phases
  BY DEF FenceKinds, Phases, Terminal
<1>4. \A k \in AttemptKeys :
         \/ e.attempts[k] = [boot.attempts[k] EXCEPT !.phase = "Interrupted"]
         \/ /\ ~ \E j \in 1..Len(o) : o[j] = k /\ 2 * j - 1 <= 2 * Len(o)
            /\ e.attempts[k] = boot.attempts[k]
  BY <1>1, <1>2, <1>3, FencedAttempts
<1> HIDE DEF e
<1>5. ASSUME NEW k \in AttemptKeys PROVE e.attempts[k].phase \notin InFlight
  <2>1. CASE e.attempts[k] = [boot.attempts[k] EXCEPT !.phase = "Interrupted"]
    <3>1. boot.attempts[k] \in Attempt
      BY <1>2 DEF DurableState
    <3>2. e.attempts[k].phase = "Interrupted"
      BY <2>1, <3>1 DEF Attempt
    <3>3. QED
      BY <3>2 DEF InFlight
  <2>2. CASE /\ ~ \E j \in 1..Len(o) : o[j] = k /\ 2 * j - 1 <= 2 * Len(o)
             /\ e.attempts[k] = boot.attempts[k]
    <3>1. \A j \in 1..Len(o) : 2 * j - 1 <= 2 * Len(o)
      BY <1>1
    <3>2. d.attempts[k].phase \notin InFlight
      BY <2>2, <3>1
    <3>3. QED
      BY <1>2, <2>2, <3>2
  <2>3. QED
    BY <1>4, <2>1, <2>2
<1>6. Ready(e)
  BY <1>5 DEF Ready, InFlight
<1>7. QED
  BY <1>6 DEF e, boot

\* A boot leaves the lineage in order, and if it completes nothing is in flight.
LEMMA OpenLineage ==
    ASSUME LineageInv, Open
    PROVE  /\ mem' \in Orderly /\ durable' \in Orderly /\ Kept(durable, durable')
           /\ CanAppend' => Ready(mem') /\ durable' = mem'
<1> DEFINE boot == [durable EXCEPT !.epoch = @ + 1]
           Pass(o, n) == Fenced(boot, o, "PreRestartAuthority", "Interrupted", n)
           S == {e \in Orderly : Kept(durable, e)}
           InPass(o) == \A i \in 1..Len(o) : durable.attempts[o[i]].phase \in InFlight
<1>1. durable \in Orderly /\ mem \in Orderly /\ durable \in DurableState /\ status = "down"
  BY OrderlyFacts DEF LineageInv, Open
<1>2. durable \in S
  BY <1>1, KeptSame
<1>3. ASSUME NEW o \in Seq(AttemptKeys), InPass(o), NEW n \in 0..(2 * Len(o))
      PROVE  /\ Pass(o, n) \in Orderly /\ Kept(durable, Pass(o, n))
             /\ \A k \in AttemptKeys : \/ Pass(o, n).attempts[k] = durable.attempts[k]
                                       \/ Pass(o, n).attempts[k].phase = "Interrupted"
             /\ n = 2 * Len(o) => \A i \in 1..Len(o) : Pass(o, n).attempts[o[i]].phase = "Interrupted"
  <2> DEFINE e == Pass(o, n)
  <2>1. /\ e \in Orderly /\ e.idempotency = durable.idempotency
        /\ \A k \in AttemptKeys : Follows(durable.attempts[k], e.attempts[k])
        /\ \A k \in AttemptKeys :
              e.attempts[k] = durable.attempts[k] \/ e.attempts[k].phase = "Interrupted"
        /\ n = 2 * Len(o) => \A i \in 1..Len(o) : e.attempts[o[i]].phase = "Interrupted"
    BY <1>1, <1>3, BootStates
  <2> HIDE DEF e
  <2>2. Kept(durable, e)
    BY <2>1 DEF Kept, find_idempotency
  <2>3. QED
    BY <2>1, <2>2 DEF e
<1>4. \A o \in Seq(AttemptKeys) : InPass(o) => \A n \in 0..(2 * Len(o)) : Pass(o, n) \in S
  BY <1>3
<1> HIDE DEF S
<1>5. /\ durable' \in S
      /\ \/ UNCHANGED <<status, mem>>
         \/ /\ status' = "up" /\ mem' = durable' /\ mem' \in S
            /\ \E o \in Seq(AttemptKeys) :
                  /\ \A k \in AttemptKeys : durable.attempts[k].phase \in InFlight =>
                        \E i \in 1..Len(o) : o[i] = k
                  /\ mem' = Pass(o, 2 * Len(o))
  BY <1>1, <1>2, <1>4, OpenChain
<1>6. durable' \in Orderly /\ Kept(durable, durable') /\ (mem' = mem \/ mem' \in Orderly)
  BY <1>5 DEF S
<1>7. CASE UNCHANGED <<status, mem>>
  BY <1>1, <1>6, <1>7 DEF CanAppend
<1>8. CASE /\ status' = "up" /\ mem' = durable' /\ mem' \in S
           /\ \E o \in Seq(AttemptKeys) :
                 /\ \A k \in AttemptKeys : durable.attempts[k].phase \in InFlight =>
                       \E i \in 1..Len(o) : o[i] = k
                 /\ mem' = Pass(o, 2 * Len(o))
  <2>1. PICK o \in Seq(AttemptKeys) :
           /\ \A k \in AttemptKeys : durable.attempts[k].phase \in InFlight =>
                 \E i \in 1..Len(o) : o[i] = k
           /\ mem' = Pass(o, 2 * Len(o))
    BY <1>8
  <2>2. Ready(mem')
    BY <1>1, <2>1, BootReady
  <2>3. QED
    BY <1>6, <1>8, <2>2 DEF S
<1>9. QED
  BY <1>5, <1>7, <1>8

\* Every step leaves the lineage in order and keeps what the medium holds.
LEMMA LineageNext ==
    ASSUME Roomy, Advancing, LineageInv, [Next]_vars
    PROVE  LineageInv' /\ Kept(durable, durable')
<1>1. TypeOK'
  BY TypeNext DEF LineageInv
<1>2. mem \in Orderly /\ durable \in Orderly
  BY DEF LineageInv
<1>3. CASE Serves
  <2>1. CanAppend /\ \E ks : Outcome(ks)
    BY <1>3, ServesKinds DEF Takes, Gives
  <2>2. /\ mem' \in Orderly /\ durable' \in Orderly /\ Kept(durable, durable')
        /\ CanAppend' => Ready(mem') /\ durable' = mem'
    BY <2>1, OutcomeLineage
  <2>3. QED
    BY <1>1, <2>2 DEF LineageInv
<1>4. CASE Close \/ Crash
  <2> DEFINE rotated == [mem EXCEPT !.uncovered = FALSE]
  <2>1. /\ mem' = Fresh /\ ~CanAppend'
        /\ durable' = durable \/ (CanAppend /\ durable' \in {mem, rotated})
    BY <1>4 DEF Close, Crash, CanAppend
  <2>2. /\ rotated \in Orderly /\ rotated.attempts = mem.attempts
        /\ rotated.idempotency = mem.idempotency
    BY <1>2, FromRotated
  <2> HIDE DEF rotated
  <2>3. CanAppend => durable = mem
    BY DEF LineageInv
  <2>4. /\ durable' \in Orderly /\ durable'.attempts = durable.attempts
        /\ durable'.idempotency = durable.idempotency
    BY <1>2, <2>1, <2>2, <2>3
  <2>5. Kept(durable, durable')
    BY <2>4, KeptSame
  <2>6. QED
    BY <1>1, <2>1, <2>4, <2>5, FreshOrderly DEF LineageInv
<1>5. CASE Open
  <2>1. /\ mem' \in Orderly /\ durable' \in Orderly /\ Kept(durable, durable')
        /\ CanAppend' => Ready(mem') /\ durable' = mem'
    BY <1>5, OpenLineage
  <2>2. QED
    BY <1>1, <2>1 DEF LineageInv
<1>6. CASE UNCHANGED vars
  <2>1. durable' = durable /\ mem' = mem /\ (CanAppend' <=> CanAppend)
    BY <1>6 DEF vars, CanAppend
  <2>2. Kept(durable, durable')
    BY <2>1, KeptSame
  <2>3. QED
    BY <1>1, <1>2, <2>1, <2>2 DEF LineageInv
<1>7. QED
  BY <1>3, <1>4, <1>5, <1>6 DEF Next

\* Every step leaves one winner standing for a link generation.
LEMMA StandingNext ==
    ASSUME Roomy, Advancing, LineageInv, StandingInv, [Next]_vars
    PROVE  StandingInv'
<1>1. standing \in SUBSET Standings
  BY DEF LineageInv, TypeOK, Standings
<1>2. /\ \A r \in standing : Stands(mem, r)
      /\ \A r, s \in standing : r.attempt[1] = s.attempt[1] /\ r.gen = s.gen => r = s
  BY DEF StandingInv, SingleWinner
<1>3. CASE status' = "down" /\ standing' = {}
  BY <1>3 DEF StandingInv, SingleWinner
<1>4. CASE Serves /\ status' # "down"
  <2>1. CanAppend /\ (Takes \/ Gives)
    BY <1>4, ServesKinds
  <2>2. mem \in Orderly
    BY <2>1, RequestFinds
  <2>3. CASE Takes
    <3>1. PICK ks : Outcome(ks) /\ Revoked(ks)
      BY <2>3 DEF Takes
    <3>2. mem' \in From(mem, ks)
      BY <1>4, <3>1 DEF Outcome
    <3>3. standing' = {r \in standing : r.attempt \in ks => Holding(mem', r.attempt, r.gen)}
      BY <1>4, <3>1 DEF Revoked
    <3>4. \A r \in standing' : Stands(mem', r)
      <4> SUFFICES ASSUME NEW r \in standing' PROVE Stands(mem', r)
        OBVIOUS
      <4>1. r \in Standings /\ Stands(mem, r) /\ (r.attempt \in ks => Holding(mem', r.attempt, r.gen))
        BY <1>1, <1>2, <3>3
      <4>2. QED
        BY <2>2, <3>2, <4>1, StandsOn
    <3>5. \A r, s \in standing' : r.attempt[1] = s.attempt[1] /\ r.gen = s.gen => r = s
      BY <1>2, <3>3
    <3>6. QED
      BY <1>4, <3>4, <3>5 DEF StandingInv, SingleWinner
  <2>4. CASE Gives
    <3>1. PICK k \in AttemptKeys, g \in Nat, ks \in SUBSET AttemptKeys :
             /\ Outcome(ks) /\ Granted(k, g)
             /\ \/ ks = {} /\ mem.attempts[k].gen < g
                \/ ks = {k} /\ mem.attempts[k].gen = g /\ mem.attempts[k].phase = "Interrupted"
      BY <2>4 DEF Gives
    <3> DEFINE x == [attempt |-> k, gen |-> g]
    <3>2. mem' \in From(mem, ks) /\ mem' \in From(mem, {k})
      <4>1. mem' \in From(mem, ks)
        BY <1>4, <3>1 DEF Outcome
      <4>2. ks \subseteq {k}
        BY <3>1
      <4>3. QED
        BY <4>1, <4>2, FromMore
    <3>3. standing' = standing \cup {r \in {x} : Holding(mem', k, g)}
      BY <1>4, <3>1 DEF Granted
    <3>4. x.attempt = k /\ x.gen = g /\ x \in Standings
      BY DEF Standings
    <3> HIDE DEF x
    <3>5. ASSUME Holding(mem', k, g)
          PROVE  /\ Stands(mem', x)
                 /\ \A r \in standing : r.attempt[1] = k[1] /\ r.gen = g => r.attempt = k
      BY <1>1, <1>2, <2>2, <3>1, <3>2, <3>5, StandsNew DEF x
    <3>6. ASSUME NEW r \in standing PROVE Stands(mem', r)
      <4>1. r \in Standings /\ Stands(mem, r) /\ r.gen \in Nat /\ r.attempt \in AttemptKeys
        BY <1>1, <1>2 DEF Standings
      <4>2. ASSUME r.attempt \in ks
            PROVE  Holding(mem', r.attempt, r.gen) \/ mem.attempts[r.attempt].gen > r.gen
        <5>1. r.attempt = k /\ mem.attempts[k].phase = "Interrupted"
          BY <3>1, <4>2
        <5>2. "Interrupted" \notin HoldsAuthority
          BY DEF HoldsAuthority
        <5>3. QED
          BY <4>1, <5>1, <5>2 DEF Stands, Holding
      <4>3. QED
        BY <2>2, <3>2, <4>1, <4>2, StandsOn
    <3>7. \A r \in standing' : Stands(mem', r)
      BY <3>3, <3>5, <3>6
    <3>8. \A r, s \in standing' : r.attempt[1] = s.attempt[1] /\ r.gen = s.gen => r = s
      <4>1. \A r \in standing : Holding(mem', k, g) /\ r.attempt[1] = k[1] /\ r.gen = g => r = x
        BY <1>1, <3>4, <3>5 DEF Standings, x
      <4>2. QED
        BY <1>2, <3>3, <3>4, <4>1
    <3>9. QED
      BY <1>4, <3>7, <3>8 DEF StandingInv, SingleWinner
  <2>5. QED
    BY <2>1, <2>3, <2>4
<1>5. CASE Serves /\ status' = "down"
  <2>1. Takes \/ Gives
    BY <1>5, ServesKinds
  <2>2. standing' = {}
    BY <1>5, <2>1 DEF Takes, Gives, Revoked, Granted
  <2>3. QED
    BY <1>3, <1>5, <2>2
<1>6. CASE Close \/ Crash
  BY <1>3, <1>6 DEF Close, Crash
<1>7. CASE Open
  <2>1. standing' = {}
    BY <1>7 DEF Open, StandingInv
  <2>2. QED
    BY <2>1 DEF StandingInv, SingleWinner
<1>8. CASE UNCHANGED vars
  BY <1>8 DEF vars, StandingInv, SingleWinner
<1>9. QED
  BY <1>4, <1>5, <1>6, <1>7, <1>8 DEF Next

\* Every step remembers every answer, and answers nothing twice.
LEMMA AckedNext ==
    ASSUME Roomy, Advancing, LineageInv, AckedInv, [Next]_vars
    PROVE  AckedInv'
<1>1. acked \in SUBSET Answer
  BY DEF LineageInv, TypeOK
<1>2. LineageInv' /\ Kept(durable, durable')
  BY LineageNext
<1>3. durable \in Orderly /\ durable' \in Orderly
  BY <1>2 DEF LineageInv
<1>4. \A r \in acked : r.attempt \in AttemptKeys /\ r.gen \in Nat
  BY <1>1 DEF Answer
<1>5. \A r \in acked : Remembers(durable, r) /\ Remembers(durable', r)
  <2>1. \A r \in acked : Remembers(durable, r)
    BY DEF AckedInv
  <2>2. QED
    BY <1>2, <1>3, <1>4, <2>1, RemembersOn DEF Kept
<1>6. Ample => \A r \in acked : r.indexed =>
         r.key # NoKey /\ find_idempotency(durable, r.key) /\ find_idempotency(durable', r.key)
  BY <1>2 DEF AckedInv, Kept
<1>7. /\ \A r, s \in acked : r.attempt = s.attempt /\ r.gen = s.gen => r = s
      /\ Ample => \A r, s \in acked : r.key = s.key /\ r.indexed /\ s.indexed => r = s
  BY DEF AckedInv
<1>8. CASE acked' = acked
  BY <1>5, <1>6, <1>7, <1>8 DEF AckedInv
<1>9. CASE /\ CanAppend
           /\ \E k \in AttemptKeys, g \in Nat : Tells(k, g)
  <2>1. durable = mem
    BY <1>9, RequestFinds
  <2> PICK k \in AttemptKeys, g \in Nat : Tells(k, g)
    BY <1>9
  <2>2. PICK x :
           /\ acked' = acked \cup {x}
           /\ x.attempt = k /\ x.gen = g /\ mem.attempts[k].gen < g
           /\ ~find_idempotency(mem, x.key)
           /\ Remembers(durable', x)
           /\ x.indexed => x.key # NoKey
           /\ x.indexed /\ Ample => find_idempotency(durable', x.key)
    BY DEF Tells
  <2>3. mem.attempts[k].gen \in Nat
    BY <1>9, RequestFinds
  <2>4. \A r \in acked : ~(r.attempt = x.attempt /\ r.gen = x.gen)
    BY <1>5, <2>1, <2>2, <2>3 DEF Remembers
  <2>5. Ample => \A r \in acked : ~(r.key = x.key /\ r.indexed)
    BY <1>6, <2>1, <2>2
  <2>6. \A r \in acked' : r \in acked \/ r = x
    BY <2>2
  <2>7. \A r \in acked' : Remembers(durable', r)
    BY <1>5, <2>2, <2>6
  <2>8. \A r, s \in acked' : r.attempt = s.attempt /\ r.gen = s.gen => r = s
    BY <1>7, <2>4, <2>6
  <2>9. Ample => \A r \in acked' : r.indexed => r.key # NoKey /\ find_idempotency(durable', r.key)
    BY <1>6, <2>2, <2>6
  <2>10. Ample => \A r, s \in acked' : r.key = s.key /\ r.indexed /\ s.indexed => r = s
    BY <1>7, <2>5, <2>6
  <2>11. QED
    BY <2>7, <2>8, <2>9, <2>10 DEF AckedInv
<1>10. CASE Serves
  <2>1. CanAppend /\ (Takes \/ Gives)
    BY <1>10, ServesKinds
  <2>2. acked' = acked \/ \E k \in AttemptKeys, g \in Nat : Tells(k, g)
    BY <2>1 DEF Takes, Gives
  <2>3. QED
    BY <1>8, <1>9, <2>1, <2>2
<1>11. CASE Close \/ Crash \/ Open \/ UNCHANGED vars
  BY <1>8, <1>11 DEF Close, Crash, Open, vars
<1>12. QED
  BY <1>10, <1>11 DEF Next

\* A lineage starts in order, and nobody has been told anything.
LEMMA AuthorityInit == Init => AuthorityInv
<1> SUFFICES ASSUME Init PROVE AuthorityInv
  OBVIOUS
<1>1. LineageInv
  BY TypeInit, FreshOrderly DEF Init, LineageInv, CanAppend
<1>2. StandingInv /\ AckedInv
  BY DEF Init, StandingInv, SingleWinner, AckedInv
<1>3. QED
  BY <1>1, <1>2 DEF AuthorityInv

\* Every step keeps the invariant.
LEMMA AuthorityNext ==
    Roomy /\ Advancing /\ AuthorityInv /\ [Next]_vars => AuthorityInv'
BY LineageNext, StandingNext, AckedNext DEF AuthorityInv

\* While no record is evicted and the generations of a link do not go back, the
\* invariant holds.
LEMMA AuthorityHolds ==
    ASSUME Roomy, Advancing
    PROVE  Spec => []AuthorityInv
<1>1. AuthorityInv /\ [Next]_vars => AuthorityInv'
  BY AuthorityNext
<1>2. QED
  BY <1>1, AuthorityInit, PTL DEF Spec

\* README, invariant 2, for every number of links, policies, topologies, keys and
\* boots: of the attempts the running process granted or re-bound and did not revoke,
\* no two are for the same link generation.
THEOREM SingleWinnerHolds ==
    ASSUME Roomy, Advancing
    PROVE  Spec => []SingleWinner
<1>1. AuthorityInv => SingleWinner
  BY DEF AuthorityInv, StandingInv
<1>2. Spec => []AuthorityInv
  BY AuthorityHolds
<1>3. QED
  BY <1>1, <1>2, PTL

\* What stands is what active_authority finds, so the table the code looks at is
\* never behind what callers were promised.
THEOREM StandingIsActiveHolds ==
    ASSUME Roomy, Advancing
    PROVE  Spec => []StandingIsActive
<1>1. AuthorityInv => StandingIsActive
  BY DEF AuthorityInv, StandingInv, Stands, StandingIsActive
<1>2. Spec => []AuthorityInv
  BY AuthorityHolds
<1>3. QED
  BY <1>1, <1>2, PTL

\* A link generation never has two open claims, across restarts and revalidations.
THEOREM OneClaimHolds ==
    ASSUME Roomy, Advancing
    PROVE  Spec => []OneClaim
<1>1. AuthorityInv => OneClaim
  <2> SUFFICES ASSUME AuthorityInv, NEW j \in Claims(mem), NEW k \in Claims(mem),
                      j[1] = k[1], mem.attempts[j].gen = mem.attempts[k].gen, j # k
               PROVE  FALSE
    BY DEF OneClaim
  <2>1. ClaimIsLatest(mem)
    BY DEF AuthorityInv, LineageInv, Orderly
  <2>2. j \in AttemptKeys /\ k \in AttemptKeys
    BY DEF Claims
  <2> DEFINE l == j[1]
             q == j[2]
             r == k[2]
  <2>3. /\ l \in Links /\ q \in Seqs /\ r \in Seqs /\ j = <<l, q>> /\ k = <<l, r>>
        /\ q \in Nat /\ r \in Nat
    BY <2>2 DEF AttemptKeys, Seqs
  <2>4. Gen(mem, l, q) = Gen(mem, l, r)
    BY <2>3 DEF Gen
  <2> HIDE DEF l, q, r
  <2>5. q < r \/ r < q
    BY <2>3
  <2>6. QED
    BY <2>1, <2>3, <2>4, <2>5 DEF ClaimIsLatest
<1>2. Spec => []AuthorityInv
  BY AuthorityHolds
<1>3. QED
  BY <1>1, <1>2, PTL

\* A grant answered as durable is found by every later replay, whatever crashes,
\* failed appends and compactions came between.
THEOREM AckedDurableHolds ==
    ASSUME Roomy, Advancing
    PROVE  Spec => []AckedDurable
<1>1. AuthorityInv => AckedDurable
  BY DEF AuthorityInv, AckedInv, Remembers, AckedDurable, PastGrant
<1>2. Spec => []AuthorityInv
  BY AuthorityHolds
<1>3. QED
  BY <1>1, <1>2, PTL

\* An attempt identity is granted once, and an indexed key too while the index has
\* room for every key.
THEOREM GrantedOnceHolds ==
    ASSUME Roomy, Advancing, Ample
    PROVE  Spec => []GrantedOnce
<1>1. AuthorityInv => GrantedOnce
  BY DEF AuthorityInv, AckedInv, GrantedOnce
<1>2. Spec => []AuthorityInv
  BY AuthorityHolds
<1>3. QED
  BY <1>1, <1>2, PTL

\* README, invariants 8 and 9: what the medium records as revoked, refused or
\* unverified is never revived.
THEOREM NoResurrectionHolds ==
    ASSUME Roomy, Advancing
    PROVE  Spec => NoResurrection
<1>1. AuthorityInv /\ [Next]_vars =>
         [\A k \in AttemptKeys :
             LET a == durable.attempts[k]
                 b == durable'.attempts[k]
             IN  a.phase \in Dead => b = a \/ b.gen > a.gen]_vars
  <2> SUFFICES ASSUME AuthorityInv, [Next]_vars, NEW k \in AttemptKeys,
                      durable.attempts[k].phase \in Dead
               PROVE  \/ durable'.attempts[k] = durable.attempts[k]
                      \/ durable'.attempts[k].gen > durable.attempts[k].gen
    OBVIOUS
  <2>1. Follows(durable.attempts[k], durable'.attempts[k])
    BY LineageNext DEF AuthorityInv, Kept
  <2>2. QED
    BY <2>1 DEF Follows, Later
<1>2. Spec => []AuthorityInv
  BY AuthorityHolds
<1>3. QED
  BY <1>1, <1>2, PTL DEF Spec, NoResurrection

(***************************************************************************)
(* The attempt table keeps its bound although evict_attempts gives up when *)
(* every record is in flight: a link has at most one attempt in flight,    *)
(* and the table has room for one attempt per link.  No hypotheses.        *)
(***************************************************************************)

Used(t) == {k \in AttemptKeys : t[k].phase # "Absent"}
Flying(t) == {k \in AttemptKeys : t[k].phase \in InFlight}

\* At most one attempt in flight per link.
OneFlying(t) == \A j, k \in Flying(t) : j[1] = k[1] => j = k

\* What is in flight was granted for a generation of the topology it names.
FlyingBound(t) == \A k \in Flying(t) : t[k].gen = LinkGen[t[k].topology][k[1]]

Sparse ==
    {d \in Dated : /\ OneFlying(d.attempts) /\ FlyingBound(d.attempts)
                   /\ Cardinality(Used(d.attempts)) <= MaxAttempts}

\* A set of naturals has a least element.
LEMMA LeastNatural ==
    ASSUME NEW S \in SUBSET Nat, S # {}
    PROVE  \E x \in S : \A y \in S : x <= y
<1>1. PICK x \in S : \A y \in S : ~(<<y, x>> \in OpToRel(<, Nat))
  BY NatLessThanWellFounded, WFMin
<1>2. \A y \in S : ~(y < x)
  BY <1>1, Zenon DEF OpToRel
<1>3. \A y \in S : x <= y
  BY <1>2
<1>4. QED
  BY <1>3

\* Records in flight, one per link, are no more than the table has room for.
LEMMA FlyingFit ==
    ASSUME NEW t \in [AttemptKeys -> Attempt], OneFlying(t), NEW S \in SUBSET Flying(t)
    PROVE  Cardinality(S) <= MaxAttempts
<1> DEFINE f == [k \in S |-> k[1]]
<1>1. \A k \in S : k \in AttemptKeys /\ k[1] \in Links /\ k \in Flying(t)
  BY DEF Flying, AttemptKeys
<1>2. f \in Injection(S, Links)
  <2>1. f \in [S -> Links]
    BY <1>1
  <2>2. \A j, k \in S : f[j] = f[k] => j = k
    BY <1>1 DEF OneFlying
  <2>3. QED
    BY <2>1, <2>2 DEF Injection, IsInjective
<1>3. Cardinality(S) <= Cardinality(Links)
  BY <1>2, LinksAssumption, FS_Injection
<1>4. Cardinality(S) \in Nat /\ Cardinality(Links) \in Nat
  <2>1. S \in SUBSET AttemptKeys
    BY <1>1
  <2>2. QED
    BY <2>1, KeysFinite, LinksAssumption, FS_CardinalityType
<1>5. QED
  BY <1>3, <1>4, LimitsAssumption

\* The order of the attempts is one.
LEMMA BeforeOrder ==
    \A i, j, k \in AttemptKeys : ~Before(j, j) /\ (Before(i, j) /\ Before(j, k) => Before(i, k))
<1>1. \A l \in Links, q \in Seqs : l \in Nat /\ q \in Nat
  BY LinksAssumption DEF Seqs
<1>2. \A x \in AttemptKeys : x[1] \in Nat /\ x[2] \in Nat
  BY <1>1 DEF AttemptKeys
<1>3. \A a, b, c, d, f, g \in Nat :
         LET Lt(x1, x2, y1, y2) == x1 < y1 \/ (x1 = y1 /\ x2 < y2)
         IN  ~Lt(a, b, a, b) /\ (Lt(a, b, c, d) /\ Lt(c, d, f, g) => Lt(a, b, f, g))
  OBVIOUS
<1>4. QED
  BY <1>2, <1>3 DEF Before

\* The arithmetic of the next proof.
LEMMA Arithmetic ==
    /\ \A x, y \in Nat : x - y \in Int
    /\ \A x, y \in Nat : x <= y /\ y <= x => y = x
    /\ \A x \in Nat, y \in Int : ~(x < y) => x >= y
OBVIOUS

\* Eviction stops at the bound, or when only what is in flight is left.
LEMMA EvictionFits ==
    ASSUME NEW t \in [AttemptKeys -> Attempt], OneFlying(t)
    PROVE  Cardinality(Used(evict_attempts(t))) <= MaxAttempts
<1> DEFINE used == Used(t)
           final == {k \in used : t[k].phase \in Terminal}
           excess == Cardinality(used) - MaxAttempts
           Ahead(k) == {j \in final : Before(j, k)}
           victims == {k \in final : Cardinality(Ahead(k)) < excess}
           e == evict_attempts(t)
           kept == used \ victims
<1>1. e = [k \in AttemptKeys |-> IF k \in victims THEN NoAttempt ELSE t[k]]
  BY DEF evict_attempts, Used
<1>2. /\ used \in SUBSET AttemptKeys /\ final \in SUBSET used /\ victims \in SUBSET final
      /\ \A k : Ahead(k) \in SUBSET final
  BY DEF Used
<1>3. /\ IsFiniteSet(used) /\ Cardinality(used) \in Nat
      /\ IsFiniteSet(victims) /\ Cardinality(victims) \in Nat
      /\ \A k : IsFiniteSet(Ahead(k)) /\ Cardinality(Ahead(k)) \in Nat
  BY <1>2, KeysFinite, Zenon
<1>4. excess \in Int
  <2>1. Cardinality(used) \in Nat /\ MaxAttempts \in Nat
    BY <1>3, LimitsAssumption
  <2> HIDE DEF used
  <2>2. QED
    BY ONLY <2>1, Arithmetic
<1>5. NoAttempt.phase = "Absent"
  BY DEF NoAttempt
<1>6. Used(e) = kept
  BY <1>1, <1>2, <1>5 DEF Used
<1>7. \A k \in used \ final : k \in Flying(t)
  <2> SUFFICES ASSUME NEW k \in used, t[k].phase \notin Terminal PROVE k \in Flying(t)
    OBVIOUS
  <2>1. k \in AttemptKeys /\ t[k] \in Attempt /\ t[k].phase # "Absent"
    BY DEF Used
  <2>2. t[k].phase \in Phases \cup {"Absent"}
    BY <2>1 DEF Attempt
  <2>3. QED
    BY <2>1, <2>2 DEF Phases, Flying
<1>8. CASE final \subseteq victims
  <2>1. kept \in SUBSET Flying(t)
    BY <1>7, <1>8
  <2> HIDE DEF kept, used, final, victims, excess
  <2>2. QED
    BY <1>6, <2>1, FlyingFit DEF e
<1>9. CASE ~(final \subseteq victims)
  <2> DEFINE rest == final \ victims
             ranks == {Cardinality(Ahead(k)) : k \in rest}
  <2>1. ranks \in SUBSET Nat /\ ranks # {}
    BY <1>3, <1>9
  <2>2. PICK n \in ranks : \A m \in ranks : n <= m
    BY <2>1, LeastNatural
  <2>3. PICK k \in rest : n = Cardinality(Ahead(k))
    BY <2>2
  <2>4. k \in final /\ k \in AttemptKeys /\ Cardinality(Ahead(k)) >= excess
    <3>1. k \in final /\ ~(Cardinality(Ahead(k)) < excess)
      BY <2>3
    <3>2. k \in AttemptKeys
      BY <1>2, <3>1
    <3> DEFINE c == Cardinality(Ahead(k))
    <3>3. c \in Nat /\ ~(c < excess)
      BY <1>3, <3>1
    <3> HIDE DEF c, excess
    <3>4. c >= excess
      BY ONLY <1>4, <3>3, Arithmetic
    <3>5. QED
      BY <3>1, <3>2, <3>4 DEF c
  <2>5. ASSUME NEW j \in Ahead(k) PROVE j \in victims
    <3> SUFFICES ASSUME j \notin victims PROVE FALSE
      OBVIOUS
    <3>1. j \in rest /\ j \in final /\ j \in AttemptKeys /\ Before(j, k)
      BY <1>2, <2>5
    <3>2. Cardinality(Ahead(k)) <= Cardinality(Ahead(j))
      BY <2>2, <2>3, <3>1
    <3>3. Ahead(j) \in SUBSET Ahead(k)
      <4> SUFFICES ASSUME NEW i \in final, Before(i, j) PROVE Before(i, k)
        OBVIOUS
      <4>1. i \in AttemptKeys
        BY <1>2
      <4>2. QED
        BY <2>4, <3>1, <4>1, BeforeOrder
    <3>4. j \notin Ahead(j)
      BY <3>1, BeforeOrder
    <3> DEFINE A == Ahead(j)
               B == Ahead(k)
    <3>5. /\ A \in SUBSET B /\ IsFiniteSet(B) /\ Cardinality(A) \in Nat /\ Cardinality(B) \in Nat
          /\ Cardinality(B) <= Cardinality(A) /\ j \in B /\ j \notin A
      BY <1>3, <2>5, <3>2, <3>3, <3>4
    <3> HIDE DEF A, B
    <3>6. Cardinality(A) <= Cardinality(B) /\ (Cardinality(B) = Cardinality(A) => B = A)
      BY <3>5, FS_Subset
    <3>7. Cardinality(B) = Cardinality(A)
      BY ONLY <3>5, <3>6, Arithmetic
    <3>8. QED
      BY <3>5, <3>6, <3>7
  <2>6. Ahead(k) \in SUBSET victims
    BY <2>5
  <2> DEFINE A == Ahead(k)
  <2>7. A \in SUBSET victims /\ Cardinality(A) >= excess /\ Cardinality(A) \in Nat
    BY <1>3, <2>4, <2>6
  <2> HIDE DEF A, victims
  <2>8. Cardinality(A) <= Cardinality(victims)
    BY <1>3, <2>7, FS_Subset
  <2>9. victims = used \cap victims
    BY <1>2
  <2> HIDE DEF used, final
  <2>10. Cardinality(kept) = Cardinality(used) - Cardinality(victims)
    <3>1. Cardinality(used \ victims) = Cardinality(used) - Cardinality(used \cap victims)
      BY <1>3, FS_Difference
    <3>2. QED
      BY <2>9, <3>1
  <2> HIDE DEF kept
  <2>11. Cardinality(kept) <= MaxAttempts
    BY <1>3, <2>7, <2>8, <2>10, LimitsAssumption
  <2>12. QED
    BY <1>6, <2>11 DEF e
<1>10. QED
  BY <1>8, <1>9

\* What is written over a table adds at most one record in flight.
LEMMA NoteSparse ==
    ASSUME NEW d \in Sparse, NEW k \in AttemptKeys, NEW a \in Attempt, a.epoch <= d.epoch,
           a.phase \in InFlight =>
              /\ a.gen = LinkGen[a.topology][k[1]]
              /\ \A j \in Flying(d.attempts) : j[1] = k[1] => j = k
    PROVE  LET e == note_attempt(d, k, a) IN
           /\ e \in Sparse /\ e.epoch = d.epoch /\ e.topology = d.topology
           /\ e.attempts[k] \in {a, NoAttempt}
           /\ \A j \in AttemptKeys \ {k} : e.attempts[j] \in {d.attempts[j], NoAttempt}
<1> DEFINE e == note_attempt(d, k, a)
           t == [d.attempts EXCEPT ![k] = a]
<1>1. /\ d \in Dated /\ d.attempts \in [AttemptKeys -> Attempt]
      /\ OneFlying(d.attempts) /\ FlyingBound(d.attempts)
  BY DEF Sparse, Dated, DurableState
<1>2. /\ e \in Dated /\ e.epoch = d.epoch /\ e.topology = d.topology
      /\ e.attempts[k] \in {a, NoAttempt}
      /\ \A j \in AttemptKeys \ {k} : e.attempts[j] \in {d.attempts[j], NoAttempt}
  BY <1>1, NoteAttemptBound
<1>3. t \in [AttemptKeys -> Attempt] /\ \A j \in AttemptKeys : t[j] = IF j = k THEN a ELSE d.attempts[j]
  BY <1>1
<1>4. e.attempts = evict_attempts(t)
  BY <1>1 DEF note_attempt, Dated, DurableState
<1> HIDE DEF t, e
<1>5. \A j \in Flying(t) : \/ j = k /\ a.phase \in InFlight
                           \/ j # k /\ j \in Flying(d.attempts) /\ t[j] = d.attempts[j]
  BY <1>3 DEF Flying
<1>6. OneFlying(t)
  BY <1>1, <1>5 DEF OneFlying
<1>7. Cardinality(Used(e.attempts)) <= MaxAttempts
  BY <1>3, <1>4, <1>6, EvictionFits
<1>8. NoAttempt.phase \notin InFlight
  BY DEF NoAttempt, InFlight
<1>9. \A j \in Flying(e.attempts) : j \in Flying(t) /\ e.attempts[j] = t[j]
  BY <1>2, <1>3, <1>8 DEF Flying
<1>10. OneFlying(e.attempts)
  BY <1>6, <1>9 DEF OneFlying
<1>11. FlyingBound(e.attempts)
  <2> SUFFICES ASSUME NEW j \in Flying(e.attempts)
               PROVE  e.attempts[j].gen = LinkGen[e.attempts[j].topology][j[1]]
    BY DEF FlyingBound
  <2>1. j \in Flying(t) /\ e.attempts[j] = t[j] /\ j \in AttemptKeys
    BY <1>9 DEF Flying
  <2>2. CASE j = k
    BY <1>3, <1>5, <2>1, <2>2
  <2>3. CASE j # k
    BY <1>1, <1>3, <1>5, <2>1, <2>3 DEF FlyingBound
  <2>4. QED
    BY <2>2, <2>3
<1>12. QED
  BY <1>2, <1>7, <1>10, <1>11 DEF Sparse, e

\* Readiness after one record was written, evictions included.
LEMMA ReadyWritten ==
    ASSUME NEW d, Ready(d), NEW e, e.epoch = d.epoch, NEW k \in AttemptKeys,
           \A j \in AttemptKeys \ {k} : e.attempts[j] \in {d.attempts[j], NoAttempt},
           e.attempts[k].phase # "Evaluated",
           e.attempts[k].phase \in InFlight => e.attempts[k].epoch = d.epoch
    PROVE  Ready(e)
<1>1. NoAttempt.phase # "Evaluated" /\ NoAttempt.phase \notin InFlight
  BY DEF NoAttempt, InFlight
<1>2. QED
  BY <1>1 DEF Ready

\* Only the attempt table and the epoch matter.
LEMMA SparseTable ==
    ASSUME NEW d \in Sparse, NEW e \in DurableState, e.attempts = d.attempts, e.epoch = d.epoch
    PROVE  e \in Sparse /\ (Ready(d) => Ready(e))
BY DEF Sparse, Dated, EpochsWithin, Ready

SparseReady == {d \in Sparse : Ready(d)}

\* Settling a decision leaves the table alone.
LEMMA SparseSettle ==
    ASSUME NEW d \in SparseReady, NEW key \in Keys \cup {NoKey}, NEW k \in AttemptKeys,
           NEW g \in Nat
    PROVE  Settle(d, key, k, g) \in Seq(SparseReady) /\ Len(Settle(d, key, k, g)) \in {1, 2}
<1>1. key # NoKey => note_idempotency(d, key, k, g) \in SparseReady
  <2> SUFFICES ASSUME key # NoKey PROVE note_idempotency(d, key, k, g) \in SparseReady
    OBVIOUS
  <2> DEFINE e == note_idempotency(d, key, k, g)
  <2>1. d \in DurableState /\ d \in Sparse /\ Ready(d)
    BY DEF SparseReady, Sparse, Dated
  <2>2. e \in DurableState
    BY <2>1, NoteIdempotencyType
  <2>3. e.epoch = d.epoch /\ e.attempts = d.attempts
    BY <2>1 DEF note_idempotency, DurableState
  <2> HIDE DEF e
  <2>4. e \in SparseReady
    BY <2>1, <2>2, <2>3, SparseTable DEF SparseReady
  <2>5. QED
    BY <2>4 DEF e
<1>2. QED
  BY <1>1, SettleType

\* So does a fence record.
LEMMA SparseFence ==
    ASSUME NEW d \in SparseReady, NEW k \in AttemptKeys, NEW kind \in FenceKinds
    PROVE  note_fence(d, kind, k) \in SparseReady
<1> DEFINE e == note_fence(d, kind, k)
<1>1. d \in DurableState /\ d \in Sparse /\ Ready(d)
  BY DEF SparseReady, Sparse, Dated
<1>2. e \in DurableState
  BY <1>1, NoteFenceType
<1>3. e.epoch = d.epoch /\ e.attempts = d.attempts
  BY <1>1 DEF note_fence, DurableState
<1> HIDE DEF e
<1>4. e \in SparseReady
  BY <1>1, <1>2, <1>3, SparseTable DEF SparseReady
<1>5. QED
  BY <1>4 DEF e

\* ... and a rotated journal.
LEMMA SparseRotated ==
    ASSUME NEW d \in Sparse
    PROVE  /\ [d EXCEPT !.uncovered = FALSE] \in Sparse
           /\ Ready(d) => Ready([d EXCEPT !.uncovered = FALSE])
<1> DEFINE e == [d EXCEPT !.uncovered = FALSE]
<1>1. d \in DurableState
  BY DEF Sparse, Dated
<1>2. e \in DurableState /\ e.attempts = d.attempts /\ e.epoch = d.epoch
  BY <1>1 DEF DurableState
<1> HIDE DEF e
<1>3. e \in Sparse /\ (Ready(d) => Ready(e))
  BY <1>2, SparseTable
<1>4. QED
  BY <1>3 DEF e

\* A fencing pass over records that are there adds none.
LEMMA SparseFenced ==
    ASSUME NEW d \in Sparse, NEW b \in Dated, b.attempts = d.attempts,
           NEW o \in Seq(AttemptKeys), \A i \in 1..Len(o) : d.attempts[o[i]].phase # "Absent",
           NEW kind \in FenceKinds, NEW phase \in {"Aborted", "Interrupted"},
           NEW n \in 0..(2 * Len(o))
    PROVE  Fenced(b, o, kind, phase, n) \in Sparse
<1> DEFINE e == Fenced(b, o, kind, phase, n)
<1>1. phase \in Phases /\ phase \notin InFlight /\ b \in DurableState
  BY DEF Phases, Terminal, InFlight, Dated
<1>2. e \in Dated
  BY <1>1, FencedDated
<1>3. \A k \in AttemptKeys :
         \/ /\ \E j \in 1..Len(o) : o[j] = k /\ 2 * j - 1 <= n
            /\ e.attempts[k] = [b.attempts[k] EXCEPT !.phase = phase]
         \/ /\ ~ \E j \in 1..Len(o) : o[j] = k /\ 2 * j - 1 <= n
            /\ e.attempts[k] = b.attempts[k]
  BY <1>1, FencedAttempts
<1> HIDE DEF e
<1>4. ASSUME NEW k \in AttemptKeys
      PROVE  \/ e.attempts[k].phase = phase /\ d.attempts[k].phase # "Absent"
             \/ e.attempts[k] = d.attempts[k]
  <2>1. CASE /\ \E j \in 1..Len(o) : o[j] = k /\ 2 * j - 1 <= n
             /\ e.attempts[k] = [b.attempts[k] EXCEPT !.phase = phase]
    <3>1. b.attempts[k] \in Attempt /\ d.attempts[k].phase # "Absent"
      BY <1>1, <2>1 DEF DurableState
    <3>2. QED
      BY <2>1, <3>1 DEF Attempt
  <2>2. CASE e.attempts[k] = b.attempts[k]
    BY <2>2
  <2>3. QED
    BY <1>3, <2>1, <2>2
<1>5. \A k \in Flying(e.attempts) : k \in Flying(d.attempts) /\ e.attempts[k] = d.attempts[k]
  BY <1>1, <1>4 DEF Flying
<1>6. Used(e.attempts) \in SUBSET Used(d.attempts)
  BY <1>4 DEF Used
<1>7. Cardinality(Used(e.attempts)) <= MaxAttempts
  <2> DEFINE U == Used(e.attempts)
             V == Used(d.attempts)
  <2>1. V \in SUBSET AttemptKeys /\ Cardinality(V) <= MaxAttempts /\ U \in SUBSET AttemptKeys
    BY DEF Used, Sparse
  <2>2. U \in SUBSET V
    BY <1>6
  <2> HIDE DEF U, V
  <2>3. IsFiniteSet(V) /\ Cardinality(V) \in Nat /\ Cardinality(U) \in Nat
    BY <2>1, KeysFinite
  <2>4. Cardinality(U) <= Cardinality(V)
    BY <2>2, <2>3, FS_Subset
  <2>5. Cardinality(U) <= MaxAttempts
    BY <2>1, <2>3, <2>4, LimitsAssumption
  <2>6. QED
    BY <2>5 DEF U
<1>8. OneFlying(e.attempts) /\ FlyingBound(e.attempts)
  BY <1>5 DEF OneFlying, FlyingBound, Sparse
<1>9. QED
  BY <1>2, <1>7, <1>8 DEF Sparse, e

\* The inductive strengthening of AttemptsBounded: between requests nothing but
\* the running coordinator's own attempts is in flight, bound as LiveInv says, so
\* active_authority sees each of them.
SparseInv ==
    /\ LiveInv
    /\ mem \in Sparse /\ durable \in Sparse
    /\ CanAppend => Ready(mem)

\* A request that reaches evaluation finds nothing in flight for its link.
LEMMA NoneFlying ==
    ASSUME SparseInv, NEW l \in Links, NEW key, Evaluates(l, key),
           NEW j \in Flying(mem.attempts), j[1] = l
    PROVE  FALSE
<1> DEFINE g == LinkGen[mem.topology][l]
<1>1. CanAppend /\ active_authority(mem, l, g) = {}
  BY DEF Evaluates, Admitted, CanAppend
<1>2. /\ j \in AttemptKeys /\ mem.attempts[j].phase \in InFlight
      /\ mem.attempts[j].phase # "Evaluated" /\ mem.attempts[j].epoch = mem.epoch
  BY <1>1 DEF Flying, SparseInv, Ready
<1>3. mem.attempts[j].phase \in HoldsAuthority
  BY <1>2 DEF InFlight, HoldsAuthority
<1>4. mem.attempts[j].topology = mem.topology
  BY <1>1, <1>2, <1>3 DEF SparseInv, LiveInv, CanAppend, Bound, Holders
<1>5. mem.attempts[j].gen = g
  BY <1>4 DEF SparseInv, Sparse, FlyingBound
<1>6. j = <<l, j[2]>> /\ j[2] \in Seqs
  BY <1>2 DEF AttemptKeys
<1>7. mem.attempts[<<l, j[2]>>] = mem.attempts[j]
  BY <1>6
<1>8. j[2] \in Of(mem, l, g)
  BY <1>2, <1>5, <1>6, <1>7 DEF Of, InFlight
<1>9. j[2] \in active_authority(mem, l, g)
  BY <1>2, <1>3, <1>7, <1>8 DEF active_authority
<1>10. QED
  BY <1>1, <1>9

\* Every request that may append passes through sparse states only, and ends, if
\* all its appends succeed, in a ready one.
LEMMA SparseChain ==
    ASSUME SparseInv, Serves
    PROVE  ChainTo(Sparse, SparseReady)
<1> DEFINE R == SparseReady
<1>1. CanAppend
  BY DEF Serves, GateRefuses, RefuseAttempt, Grant, Evaluates, Admitted, RecordApplication,
     RecordVerification, RequestRollback, ResolveInterrupted, SetPolicy, SetTopology,
     Redefine, Checkpoint, CanAppend
<1>2. /\ mem \in R /\ mem \in Sparse /\ mem \in Dated /\ mem \in DurableState
      /\ Ready(mem) /\ OneFlying(mem.attempts) /\ FlyingBound(mem.attempts)
  BY <1>1 DEF SparseInv, SparseReady, Sparse, Dated
<1>3. /\ \A k \in AttemptKeys : mem.attempts[k] \in Attempt /\ mem.attempts[k].epoch <= mem.epoch
      /\ mem.epoch \in Nat /\ mem.policy \in Nat /\ mem.topology \in Nat
  BY <1>2, PolicyAssumption, TopologyAssumption DEF DurableState, Dated, EpochsWithin
<1>4. \A l \in Links : LinkGen[mem.topology][l] \in Nat
  BY <1>2, Definitions
<1>5. \A q \in Seq(R) : q \in Seq(Sparse)
  BY DEF SparseReady, R
<1>6. \A a \in Attempt, ph \in Phases :
         /\ [a EXCEPT !.phase = ph] \in Attempt
         /\ [a EXCEPT !.phase = ph].epoch = a.epoch /\ [a EXCEPT !.phase = ph].phase = ph
         /\ [a EXCEPT !.phase = ph].gen = a.gen
         /\ [a EXCEPT !.phase = ph].topology = a.topology
  BY DEF Attempt
<1>7. NoAttempt.phase # "Evaluated" /\ NoAttempt.phase \notin InFlight
  BY DEF NoAttempt, InFlight
<1> HIDE DEF R
\* A chain of ready states.
<1>8. ASSUME NEW c \in Seq(R), Len(c) >= 1, HandlerMayCompact(c)
      PROVE  ChainTo(Sparse, R)
  <2>1. c \in Seq(Sparse) /\ c # <<>> /\ c[Len(c)] \in R
    BY <1>5, <1>8
  <2>2. QED
    BY <1>8, <2>1 DEF ChainTo
\* A record that is not in flight.
<1>9. ASSUME NEW k \in AttemptKeys, NEW a \in Attempt, a.epoch <= mem.epoch,
             a.phase \notin InFlight
      PROVE  note_attempt(mem, k, a) \in R
  <2> DEFINE e == note_attempt(mem, k, a)
  <2>1. /\ e \in Sparse /\ e.epoch = mem.epoch /\ e.attempts[k] \in {a, NoAttempt}
        /\ \A j \in AttemptKeys \ {k} : e.attempts[j] \in {mem.attempts[j], NoAttempt}
    BY <1>2, <1>9, NoteSparse
  <2> HIDE DEF e
  <2>2. e.attempts[k].phase \notin InFlight /\ e.attempts[k].phase # "Evaluated"
    BY <1>7, <1>9, <2>1 DEF InFlight
  <2>3. Ready(e)
    BY <1>2, <2>1, <2>2, ReadyWritten
  <2>4. QED
    BY <2>1, <2>3 DEF R, SparseReady, e
\* A change of phase, of an attempt in flight if it is in flight afterwards.
<1>10. ASSUME NEW k \in AttemptKeys, NEW ph \in Phases, ph # "Evaluated",
              ph \in InFlight => mem.attempts[k].phase \in InFlight
       PROVE  note_attempt(mem, k, [mem.attempts[k] EXCEPT !.phase = ph]) \in R
  <2> DEFINE a == [mem.attempts[k] EXCEPT !.phase = ph]
             e == note_attempt(mem, k, a)
  <2>1. /\ a \in Attempt /\ a.epoch = mem.attempts[k].epoch /\ a.phase = ph
        /\ a.gen = mem.attempts[k].gen /\ a.topology = mem.attempts[k].topology
    BY <1>3, <1>6
  <2> HIDE DEF a
  <2>2. a.epoch <= mem.epoch
    BY <1>3, <2>1
  <2>3. ASSUME a.phase \in InFlight
        PROVE  /\ a.gen = LinkGen[a.topology][k[1]] /\ a.epoch = mem.epoch
               /\ \A j \in Flying(mem.attempts) : j[1] = k[1] => j = k
    <3>1. k \in Flying(mem.attempts)
      BY <1>10, <2>1, <2>3 DEF Flying
    <3>2. a.gen = LinkGen[a.topology][k[1]]
      BY <1>2, <2>1, <3>1 DEF FlyingBound
    <3>3. a.epoch = mem.epoch
      BY <1>2, <1>10, <2>1, <2>3 DEF Ready
    <3>4. QED
      BY <1>2, <3>1, <3>2, <3>3 DEF OneFlying
  <2>4. /\ e \in Sparse /\ e.epoch = mem.epoch /\ e.attempts[k] \in {a, NoAttempt}
        /\ \A j \in AttemptKeys \ {k} : e.attempts[j] \in {mem.attempts[j], NoAttempt}
    BY <1>2, <2>1, <2>2, <2>3, NoteSparse
  <2> HIDE DEF e
  <2>5. /\ e.attempts[k].phase # "Evaluated"
        /\ e.attempts[k].phase \in InFlight => e.attempts[k].epoch = mem.epoch
    BY <1>7, <1>10, <2>1, <2>3, <2>4
  <2>6. Ready(e)
    BY <1>2, <2>4, <2>5, ReadyWritten
  <2>7. QED
    BY <2>4, <2>6 DEF R, SparseReady, e, a
<1>11. ASSUME NEW l \in Links, NEW key \in Keys \cup {NoKey}, GateRefuses(l, key)
       PROVE  ChainTo(Sparse, R)
  <2>1. PICK q \in Seqs : HandlerMayCompact(<<mem>> \o
                Settle(mem, key, <<l, q>>, LinkGen[mem.topology][l]))
    BY <1>11 DEF GateRefuses, interrupted_attempt, latest_attempt, Of
  <2>2. <<l, q>> \in AttemptKeys
    BY DEF AttemptKeys
  <2> DEFINE r == Settle(mem, key, <<l, q>>, LinkGen[mem.topology][l])
             p == <<mem>>
  <2>3. r \in Seq(R) /\ Len(r) \in {1, 2}
    BY <1>2, <1>4, <2>2, SparseSettle DEF R
  <2>4. p \in Seq(R) /\ Len(p) = 1
    BY <1>2
  <2> HIDE DEF r, p
  <2>5. p \o r \in Seq(R) /\ Len(p \o r) >= 1
    BY <2>3, <2>4, Joined
  <2>6. QED
    BY <1>8, <2>1, <2>5 DEF r, p
<1>12. ASSUME NEW l \in Links, NEW key \in Keys \cup {NoKey},
              NEW phase \in {"Refused", "Indeterminate"}, RefuseAttempt(l, key, phase)
       PROVE  ChainTo(Sparse, R)
  <2> DEFINE g == LinkGen[mem.topology][l]
             j == NextAttempt(l)
             a == [NoAttempt EXCEPT !.phase = phase, !.gen = g]
             d == note_attempt(mem, j, a)
             r == Settle(d, key, j, g)
             p == <<mem, d>>
  <2>1. j \in AttemptKeys
    BY <1>2, <1>12, NextAttemptType DEF RefuseAttempt
  <2>2. a \in Attempt /\ a.epoch = 0 /\ a.phase \notin InFlight
    BY <1>4 DEF Attempt, NoAttempt, Phases, Terminal, InFlight
  <2>3. HandlerMayCompact(p \o r)
    BY <1>12 DEF RefuseAttempt
  <2> HIDE DEF a, j
  <2>4. d \in R
    BY <1>3, <1>9, <2>1, <2>2
  <2> HIDE DEF d
  <2>5. r \in Seq(R) /\ Len(r) \in {1, 2}
    BY <1>4, <2>1, <2>4, SparseSettle DEF R
  <2>6. p \in Seq(R) /\ Len(p) = 2
    BY <1>2, <2>4
  <2> HIDE DEF p, r
  <2>7. p \o r \in Seq(R) /\ Len(p \o r) >= 1
    BY <2>5, <2>6, Joined
  <2>8. QED
    BY <1>8, <2>3, <2>7
<1>13. ASSUME NEW l \in Links, NEW key \in Keys \cup {NoKey}, Grant(l, key)
       PROVE  ChainTo(Sparse, R)
  <2> DEFINE g == LinkGen[mem.topology][l]
             j == NextAttempt(l)
             a == [phase |-> "Evaluated", gen |-> g, epoch |-> mem.epoch,
                   policy |-> mem.policy, topology |-> mem.topology,
                   revalidation |-> "None"]
             b == [a EXCEPT !.phase = "Authorized"]
             d1 == note_attempt(mem, j, a)
             d2 == note_attempt(d1, j, b)
             r == Settle(d2, key, j, g)
             p == <<mem, d1, d2>>
  <2>1. Evaluates(l, key) /\ j \in AttemptKeys /\ j[1] = l
    BY <1>2, <1>13, NextAttemptType DEF Grant, NextAttempt
  <2>2. /\ a \in Attempt /\ a.epoch = mem.epoch
        /\ a.gen = g /\ a.topology = mem.topology
    BY <1>3, <1>4 DEF Attempt, Phases, InFlight
  <2>3. HandlerMayCompact(p \o r)
    BY <1>13 DEF Grant, GrantChain, HandlerMayCompact, Handler
  <2> HIDE DEF a, j
  <2>4. /\ b \in Attempt /\ b.epoch = mem.epoch /\ b.phase = "Authorized"
        /\ b.gen = g /\ b.topology = mem.topology
    BY <1>6, <2>2 DEF Phases, InFlight
  <2> HIDE DEF b
  <2>5. \A i \in Flying(mem.attempts) : i[1] # l
    BY <2>1, NoneFlying
  <2>6. /\ d1 \in Sparse /\ d1.epoch = mem.epoch
        /\ \A i \in AttemptKeys \ {j} : d1.attempts[i] \in {mem.attempts[i], NoAttempt}
    BY <1>2, <1>3, <2>1, <2>2, <2>5, NoteSparse
  <2> HIDE DEF d1
  <2>7. \A i \in Flying(d1.attempts) : i[1] = j[1] => i = j
    BY <1>7, <2>1, <2>5, <2>6 DEF Flying
  <2>8. /\ d2 \in Sparse /\ d2.epoch = mem.epoch /\ d2.attempts[j] \in {b, NoAttempt}
        /\ \A i \in AttemptKeys \ {j} : d2.attempts[i] \in {d1.attempts[i], NoAttempt}
    BY <1>3, <2>1, <2>4, <2>6, <2>7, NoteSparse
  <2> HIDE DEF d2
  <2>9. /\ \A i \in AttemptKeys \ {j} : d2.attempts[i] \in {mem.attempts[i], NoAttempt}
        /\ d2.attempts[j].phase # "Evaluated"
        /\ d2.attempts[j].phase \in InFlight => d2.attempts[j].epoch = mem.epoch
    BY <1>7, <2>4, <2>6, <2>8
  <2>10. d2 \in R
    BY <1>2, <2>1, <2>8, <2>9, ReadyWritten DEF R, SparseReady
  <2>11. r \in Seq(R) /\ Len(r) \in {1, 2}
    BY <1>4, <2>1, <2>10, SparseSettle DEF R
  <2>12. p \in Seq(Sparse) /\ r \in Seq(Sparse)
    BY <1>2, <1>5, <2>6, <2>8, <2>11
  <2> HIDE DEF p, r
  <2>13. Len(r) >= 1 /\ r[Len(r)] \in R
    <3>1. Len(r) = 1 \/ Len(r) = 2
      BY <2>11
    <3>2. QED
      BY <2>11, <3>1
  <2>14. p \o r \in Seq(Sparse) /\ p \o r # <<>> /\ (p \o r)[Len(p \o r)] \in R
    BY <2>12, <2>13, Prefixed
  <2>15. QED
    BY <2>3, <2>14 DEF ChainTo
<1>14. ASSUME NEW k \in AttemptKeys, NEW yes \in BOOLEAN, RecordApplication(k, yes)
       PROVE  ChainTo(Sparse, R)
  <2> DEFINE At(ph) == note_attempt(mem, k, [mem.attempts[k] EXCEPT !.phase = ph])
  <2>1. mem.attempts[k].phase \in InFlight
    BY <1>14 DEF RecordApplication, AwaitsApplication, InFlight
  <2>2. \A ph \in {"Aborted", "Acknowledged", "Committed"} : At(ph) \in R
    BY <1>10, <2>1 DEF Phases, Terminal, InFlight
  <2>3. PICK ph \in {"Aborted", "Acknowledged", "Committed"} :
           HandlerMayCompact(<<mem, At(ph), At(ph)>>)
    BY <1>14 DEF RecordApplication
  <2> HIDE DEF At
  <2>4. <<mem, At(ph), At(ph)>> \in Seq(R) /\ Len(<<mem, At(ph), At(ph)>>) >= 1
    BY <1>2, <2>2
  <2>5. QED
    BY <1>8, <2>3, <2>4
<1>15. ASSUME NEW k \in AttemptKeys, NEW yes \in BOOLEAN, RecordVerification(k, yes)
       PROVE  ChainTo(Sparse, R)
  <2> DEFINE At(ph) == note_attempt(mem, k, [mem.attempts[k] EXCEPT !.phase = ph])
  <2>1. mem.attempts[k].phase \in InFlight
    BY <1>15 DEF RecordVerification, InFlight
  <2>2. At("Indeterminate") \in R /\ At("Verified") \in R /\ At("Committed") \in R
    BY <1>10, <2>1 DEF Phases, Terminal, InFlight
  <2>3. \/ HandlerMayCompact(<<mem, At("Indeterminate"), At("Indeterminate")>>)
        \/ HandlerMayCompact(<<mem, At("Verified"), At("Committed"), At("Committed")>>)
    BY <1>15 DEF RecordVerification, HandlerMayCompact
  <2> HIDE DEF At
  <2> DEFINE c1 == <<mem, At("Indeterminate"), At("Indeterminate")>>
             c2 == <<mem, At("Verified"), At("Committed"), At("Committed")>>
  <2>4. c1 \in Seq(R) /\ Len(c1) >= 1 /\ c2 \in Seq(R) /\ Len(c2) >= 1
    BY <1>2, <2>2
  <2> HIDE DEF c1, c2
  <2>5. QED
    BY <1>8, <2>3, <2>4 DEF c1, c2
<1>16. ASSUME NEW k \in AttemptKeys, NEW key \in Keys \cup {NoKey}, RequestRollback(k, key)
       PROVE  ChainTo(Sparse, R)
  <2> DEFINE d1 == note_attempt(mem, k, [mem.attempts[k] EXCEPT !.phase = "RolledBack"])
             d2 == note_fence(d1, "RollbackRevoked", k)
             r == Settle(d2, key, k, mem.attempts[k].gen)
             p == <<mem, d1, d2>>
  <2>1. d1 \in R
    BY <1>10 DEF Phases, Terminal, InFlight
  <2>2. d2 \in R
    BY <2>1, SparseFence DEF FenceKinds, R
  <2>3. mem.attempts[k].gen \in Nat
    BY <1>3 DEF Attempt
  <2>4. HandlerMayCompact(p \o r)
    BY <1>16 DEF RequestRollback, HandlerMayCompact
  <2> HIDE DEF d1, d2
  <2>5. r \in Seq(R) /\ Len(r) \in {1, 2}
    BY <2>2, <2>3, SparseSettle DEF R
  <2>6. p \in Seq(R) /\ Len(p) = 3
    BY <1>2, <2>1, <2>2
  <2> HIDE DEF p, r
  <2>7. p \o r \in Seq(R) /\ Len(p \o r) >= 1
    BY <2>5, <2>6, Joined
  <2>8. QED
    BY <1>8, <2>4, <2>7
<1>17. ASSUME NEW k \in AttemptKeys, NEW verdict \in Verdicts, ResolveInterrupted(k, verdict)
       PROVE  ChainTo(Sparse, R)
  <2> DEFINE b == Revalidated(mem, mem.attempts[k], verdict)
             d == note_attempt(mem, k, b)
             c == <<mem, d, d>>
  <2>1. mem.attempts[k].phase = "Interrupted" /\ HandlerMayCompact(c)
    BY <1>17 DEF ResolveInterrupted, HandlerMayCompact
  <2>2. b \in Attempt /\ b.epoch <= mem.epoch /\ b.phase \notin InFlight
    <3>1. CASE verdict = "Applied"
      <4>1. b = [[mem.attempts[k] EXCEPT !.revalidation = verdict] EXCEPT
                    !.phase = "Committed", !.epoch = mem.epoch, !.policy = mem.policy,
                    !.topology = mem.topology]
        BY <3>1 DEF Revalidated
      <4>2. b \in Attempt /\ b.epoch = mem.epoch /\ b.phase = "Committed"
        BY <1>3, <3>1, <4>1 DEF Attempt, Verdicts, Phases, Terminal
      <4>3. QED
        BY <1>3, <4>2 DEF InFlight
    <3>2. CASE verdict \in {"NotApplied", "Unknown"}
      <4>1. \/ b = [mem.attempts[k] EXCEPT !.revalidation = verdict]
            \/ b = [[mem.attempts[k] EXCEPT !.revalidation = verdict] EXCEPT !.phase = "Aborted"]
        BY <3>2 DEF Revalidated
      <4>2. /\ b \in Attempt /\ b.epoch = mem.attempts[k].epoch
            /\ b.phase \in {"Interrupted", "Aborted"}
        BY <1>3, <2>1, <3>2, <4>1 DEF Attempt, Verdicts, Phases, Terminal
      <4>3. QED
        BY <1>3, <4>2 DEF InFlight
    <3>3. QED
      BY <3>1, <3>2 DEF Verdicts
  <2> HIDE DEF b
  <2>3. d \in R
    BY <1>9, <2>2
  <2> HIDE DEF d
  <2>4. c \in Seq(R) /\ Len(c) >= 1
    BY <1>2, <2>3
  <2> HIDE DEF c
  <2>5. QED
    BY <1>8, <2>1, <2>4
<1>18. ASSUME NEW d \in Dated, d.attempts = mem.attempts, d.epoch = mem.epoch,
              NEW kind \in FenceKinds, Redefine(d, kind)
       PROVE  ChainTo(Sparse, R)
  <2>1. Holders(mem) \in SUBSET AttemptKeys
    BY DEF Holders
  <2>2. PICK o \in Orders(Holders(mem)) :
           HandlerMayCompact(<<mem>> \o FencingPass(d, o, kind, "Aborted"))
    BY <1>18 DEF Redefine, HandlerMayCompact
  <2>3. o \in Seq(AttemptKeys) /\ \A i \in 1..Len(o) : o[i] \in Holders(mem)
    BY <2>1, OrdersType
  <2>4. \A i \in 1..Len(o) : mem.attempts[o[i]].phase # "Absent"
    BY <2>3 DEF Holders, HoldsAuthority
  <2>5. \A n \in 0..(2 * Len(o)) : Fenced(d, o, kind, "Aborted", n) \in Sparse
    BY <1>2, <1>18, <2>3, <2>4, SparseFenced
  <2> DEFINE r == FencingPass(d, o, kind, "Aborted")
             p == <<mem>>
             last == Fenced(d, o, kind, "Aborted", 2 * Len(o))
  <2>6. r \in Seq(Sparse) /\ Len(r) = 2 * Len(o) + 1 /\ r[2 * Len(o) + 1] = last
    BY <2>3, <2>5, FencingPassType
  <2>7. Len(o) \in Nat /\ 2 * Len(o) \in 0..(2 * Len(o))
    <3>1. Len(o) \in Nat
      BY <2>3
    <3>2. QED
      BY <3>1
  <2>8. Ready(last)
    <3>1. d \in DurableState
      BY DEF Dated
    <3>2. QED
      BY <1>2, <1>18, <2>3, <3>1, FencedReady
  <2>9. last \in R
    BY <2>5, <2>7, <2>8 DEF R, SparseReady
  <2>10. p \in Seq(Sparse)
    BY <1>2
  <2> HIDE DEF p, r, last
  <2>11. Len(r) >= 1 /\ r[Len(r)] \in R
    BY <2>6, <2>7, <2>9
  <2>12. p \o r \in Seq(Sparse) /\ p \o r # <<>> /\ (p \o r)[Len(p \o r)] \in R
    BY <2>6, <2>10, <2>11, Prefixed
  <2>13. QED
    BY <2>2, <2>12 DEF ChainTo, p, r
<1>19. ASSUME NEW p \in DOMAIN PolicyOf, SetPolicy(p)
       PROVE  ChainTo(Sparse, R)
  <2> DEFINE d == [mem EXCEPT !.policy = p]
  <2>1. d \in DurableState /\ d.attempts = mem.attempts /\ d.epoch = mem.epoch
    BY <1>2 DEF DurableState
  <2>2. Redefine(d, "PolicyChanged")
    BY <1>19 DEF SetPolicy
  <2> HIDE DEF d
  <2>3. d \in Dated
    BY <1>2, <2>1 DEF Dated, EpochsWithin
  <2>4. QED
    BY <1>18, <2>1, <2>2, <2>3 DEF FenceKinds
<1>20. ASSUME NEW t \in DOMAIN LinkGen, SetTopology(t)
       PROVE  ChainTo(Sparse, R)
  <2> DEFINE d == [mem EXCEPT !.topology = t]
  <2>1. d \in DurableState /\ d.attempts = mem.attempts /\ d.epoch = mem.epoch
    BY <1>2 DEF DurableState
  <2>2. Redefine(d, "TopologyChanged")
    BY <1>20 DEF SetTopology
  <2> HIDE DEF d
  <2>3. d \in Dated
    BY <1>2, <2>1 DEF Dated, EpochsWithin
  <2>4. QED
    BY <1>18, <2>1, <2>2, <2>3 DEF FenceKinds
<1>21. ASSUME Checkpoint PROVE ChainTo(Sparse, R)
  <2>1. HandlerMayCompact(<<mem>>)
    BY <1>21 DEF Checkpoint, HandlerMayCompact
  <2>2. <<mem>> \in Seq(R) /\ Len(<<mem>>) >= 1
    BY <1>2
  <2>3. QED
    BY <1>8, <2>1, <2>2
<1>22. ChainTo(Sparse, R)
  BY <1>11, <1>12, <1>13, <1>14, <1>15, <1>16, <1>17, <1>19, <1>20, <1>21 DEF Serves
<1>23. QED
  BY <1>22 DEF R

\* The empty lineage.
LEMMA FreshSparse == Fresh \in Sparse /\ Ready(Fresh)
<1>1. \A k \in AttemptKeys : Fresh.attempts[k].phase = "Absent"
  BY DEF Fresh, NoAttempt
<1>2. Fresh \in Dated
  BY RotatedBound DEF DatedBound
<1>3. Flying(Fresh.attempts) = {}
  BY <1>1 DEF Flying, InFlight
<1>4. Used(Fresh.attempts) = {}
  BY <1>1 DEF Used
<1>5. Cardinality(Used(Fresh.attempts)) <= MaxAttempts
  <2>1. Cardinality(Used(Fresh.attempts)) = 0
    BY <1>4, FS_EmptySet
  <2>2. QED
    BY <2>1, LimitsAssumption
<1>6. OneFlying(Fresh.attempts) /\ FlyingBound(Fresh.attempts)
  BY <1>3 DEF OneFlying, FlyingBound
<1>7. Ready(Fresh)
  BY <1>1 DEF Ready, InFlight
<1>8. QED
  BY <1>2, <1>5, <1>6, <1>7 DEF Sparse

\* A boot adds no record, and if it completes nothing is in flight.
LEMMA OpenSparse ==
    ASSUME SparseInv, Open
    PROVE  mem' \in Sparse /\ durable' \in Sparse /\ (CanAppend' => Ready(mem'))
<1> DEFINE boot == [durable EXCEPT !.epoch = @ + 1]
           Pass(o, n) == Fenced(boot, o, "PreRestartAuthority", "Interrupted", n)
           InPass(o) == \A i \in 1..Len(o) : durable.attempts[o[i]].phase \in InFlight
<1>1. /\ durable \in Sparse /\ mem \in Sparse /\ durable \in Dated
      /\ durable \in DurableState /\ status = "down"
  BY DEF SparseInv, Sparse, Dated, Open
<1>2. /\ boot \in DurableState /\ boot.attempts = durable.attempts
      /\ boot.epoch = durable.epoch + 1
  BY <1>1 DEF DurableState
<1>3. \A k \in AttemptKeys :
         /\ durable.attempts[k].epoch \in Nat
         /\ durable.attempts[k].epoch <= durable.epoch /\ durable.epoch \in Nat
  BY <1>1 DEF DurableState, Dated, EpochsWithin, Attempt
<1> HIDE DEF boot
<1>4. boot \in Dated
  BY <1>2, <1>3 DEF Dated, EpochsWithin
<1>5. ASSUME NEW o \in Seq(AttemptKeys), InPass(o), NEW n \in 0..(2 * Len(o))
      PROVE  Pass(o, n) \in Sparse
  <2>1. \A i \in 1..Len(o) : durable.attempts[o[i]].phase # "Absent"
    BY <1>5 DEF InFlight
  <2>2. "PreRestartAuthority" \in FenceKinds
    BY DEF FenceKinds
  <2>3. QED
    BY <1>1, <1>2, <1>4, <2>1, <2>2, SparseFenced
<1>6. /\ durable' \in Sparse
      /\ \/ UNCHANGED <<status, mem>>
         \/ /\ status' = "up" /\ mem' \in Sparse
            /\ \E o \in Seq(AttemptKeys) :
                  /\ \A k \in AttemptKeys : durable.attempts[k].phase \in InFlight =>
                        \E i \in 1..Len(o) : o[i] = k
                  /\ mem' = Pass(o, 2 * Len(o))
  BY <1>1, <1>5, OpenChain DEF boot
<1>7. CASE UNCHANGED <<status, mem>>
  BY <1>1, <1>6, <1>7 DEF CanAppend
<1>8. CASE /\ status' = "up" /\ mem' \in Sparse
           /\ \E o \in Seq(AttemptKeys) :
                 /\ \A k \in AttemptKeys : durable.attempts[k].phase \in InFlight =>
                       \E i \in 1..Len(o) : o[i] = k
                 /\ mem' = Pass(o, 2 * Len(o))
  <2>1. Ready(mem')
    BY <1>1, <1>8, BootReady DEF boot
  <2>2. QED
    BY <1>6, <1>8, <2>1
<1>9. QED
  BY <1>6, <1>7, <1>8

\* The invariant holds initially.
LEMMA SparseInit == Init => SparseInv
BY LiveInit, FreshSparse DEF Init, SparseInv, CanAppend

\* Every step keeps it.
LEMMA SparseNext == SparseInv /\ [Next]_vars => SparseInv'
<1> SUFFICES ASSUME SparseInv, [Next]_vars PROVE SparseInv'
  OBVIOUS
<1>1. LiveInv'
  BY LiveNext DEF SparseInv
<1>2. mem \in Sparse /\ durable \in Sparse
  BY DEF SparseInv
<1>3. CASE Serves
  <2>1. PICK c \in Seq(Sparse) : c # <<>> /\ c[Len(c)] \in SparseReady /\ HandlerMayCompact(c)
    BY <1>3, SparseChain DEF ChainTo
  <2>2. Fresh \in Sparse /\ \A d \in Sparse : [d EXCEPT !.uncovered = FALSE] \in Sparse
    BY FreshSparse, SparseRotated
  <2>3. /\ mem' \in Sparse /\ durable' \in Sparse
        /\ status' = "up" /\ health' # "storeFailed" =>
              mem' \in {c[Len(c)], [c[Len(c)] EXCEPT !.uncovered = FALSE]}
    BY <2>1, <2>2, Outcomes
  <2>4. Ready(c[Len(c)]) /\ Ready([c[Len(c)] EXCEPT !.uncovered = FALSE])
    BY <2>1, SparseRotated DEF SparseReady
  <2>5. CanAppend' => Ready(mem')
    BY <2>3, <2>4 DEF CanAppend
  <2>6. QED
    BY <1>1, <2>3, <2>5 DEF SparseInv
<1>4. CASE Close \/ Crash
  <2>1. /\ mem' = Fresh /\ status' = "down"
        /\ durable' \in {durable, mem, [mem EXCEPT !.uncovered = FALSE]}
    BY <1>4 DEF Close, Crash
  <2>2. mem' \in Sparse /\ durable' \in Sparse
    BY <1>2, <2>1, FreshSparse, SparseRotated
  <2>3. QED
    BY <1>1, <2>1, <2>2 DEF SparseInv, CanAppend
<1>5. CASE Open
  BY <1>1, <1>5, OpenSparse DEF SparseInv
<1>6. CASE UNCHANGED vars
  BY <1>1, <1>2, <1>6 DEF vars, SparseInv, CanAppend
<1>7. QED
  BY <1>3, <1>4, <1>5, <1>6 DEF Next

\* README, invariant 10, for the attempt table: in memory and on the medium it
\* stays within max_attempts, for any limit with room for one attempt per link,
\* although evict_attempts gives up when every record is in flight.
THEOREM AttemptsBoundedHolds == Spec => []AttemptsBounded
<1>1. SparseInv => AttemptsBounded
  BY DEF SparseInv, Sparse, Used, AttemptsBounded
<1>2. QED
  BY <1>1, SparseInit, SparseNext, PTL DEF Spec

=============================================================================
