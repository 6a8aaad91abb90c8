----------------------------- MODULE ApplierProofs -----------------------------
(***************************************************************************)
(* Theorems about Applier, for every set of links and workers, every claim *)
(* limit, every sequence of policies and topologies, and every limit.      *)
(*                                                                         *)
(* The appliers and their coordinator take no step the coordinator alone   *)
(* could not take, so that all that is proved of it holds of them.  What   *)
(* is new relates three copies of an attempt: the effect file, the         *)
(* directive in a worker's hands and the record in memory or on the medium.*)
(***************************************************************************)
EXTENDS Applier, CoordinatorProofs

(***************************************************************************)
(* The invariant.                                                          *)
(***************************************************************************)

\* The directives a worker process has in hand.
Held(x) == {x.todo[i] : i \in DOMAIN x.todo}
InHand(w) == Held(worker[w])

\* Every worker is connected to this boot or to an earlier one.
BootKnown ==
    /\ \A w \in Workers : worker[w].boot <= durable.epoch
    /\ status = "up" => mem.epoch = durable.epoch
    /\ status = "down" => health = "ok"

\* Where a worker is in its loop, and what it then has in hand and, of E, in place.
InLoop(x, E) ==
    /\ x.pc = "off" => x = NoWorker
    /\ x.pc \in {"opened", "written", "reported"} => x.todo # <<>>
    /\ x.pc = "written" => Head(x.todo) \in E
LoopInv == \A w \in Workers : InLoop(worker[w], effects[w])

\* What needs no room in the table.
WorkInv == ApplierTypeOK /\ BootKnown /\ LoopInv /\ CommittedHasEffect

\* The grant behind whatever is in hand or in effect is on the medium.
WorkRemembered ==
    \A w \in Workers : \A r \in InHand(w) \cup effects[w] : Remembers(durable, r)

\* What is pending was granted in this boot, and the medium, ahead of memory by a
\* record perhaps, holds no verdict on it.
PendingGranted ==
    status = "up" =>
        \A k \in pending_directives :
            LET a == mem.attempts[k]
                b == durable.attempts[k]
            IN  /\ a.epoch = mem.epoch /\ a.revalidation = "None"
                /\ b.gen > a.gen \/ (b.gen = a.gen /\ b.phase \in PastGrant
                                                   /\ b.revalidation = "None")

\* What is interrupted was granted in an earlier boot.
InterruptedEarlier ==
    status = "up" =>
        \A k \in AttemptKeys :
            mem.attempts[k].phase = "Interrupted" => mem.attempts[k].epoch < mem.epoch

\* What the operator denied is in nobody's hands, and not in effect.
DeniedIsOver ==
    \A k \in AttemptKeys :
        durable.attempts[k].revalidation = "NotApplied" =>
            \A w \in Workers :
                [attempt |-> k, gen |-> durable.attempts[k].gen] \notin InHand(w) \cup effects[w]

HandInv ==
    /\ LineageInv /\ WorkInv /\ NoStaleDirective
    /\ WorkRemembered /\ PendingGranted /\ InterruptedEarlier /\ DeniedIsOver

(***************************************************************************)
(* What a worker claims: the order of subjects and sequences exists.       *)
(***************************************************************************)

\* Of two keys one comes first.
LEMMA BeforeTotal ==
    \A j, k \in AttemptKeys : j # k => Before(j, k) \/ Before(k, j)
<1>1. \A l \in Links, q \in Seqs : l \in Nat /\ q \in Nat
  BY LinksAssumption DEF Seqs
<1>2. \A x \in AttemptKeys : x[1] \in Nat /\ x[2] \in Nat /\ x = <<x[1], x[2]>>
  BY <1>1 DEF AttemptKeys
<1>3. \A a, b, c, d \in Nat :
         (a # c \/ b # d) => \/ a < c \/ (a = c /\ b < d)
                             \/ c < a \/ (c = a /\ d < b)
  OBVIOUS
<1>4. SUFFICES ASSUME NEW j \in AttemptKeys, NEW k \in AttemptKeys, j # k
               PROVE  Before(j, k) \/ Before(k, j)
  OBVIOUS
<1>5. j[1] # k[1] \/ j[2] # k[2]
  BY <1>2, <1>4
<1>6. QED
  BY <1>2, <1>3, <1>5 DEF Before

\* Any set of keys can be listed in their order: a key's place is one more than the
\* number of keys before it.
LEMMA SortedOrder ==
    ASSUME NEW S \in SUBSET AttemptKeys
    PROVE  \E o \in Orders(S) : \A i, j \in DOMAIN o : i < j => Before(o[i], o[j])
<1> DEFINE n == Cardinality(S)
           Below(k) == {j \in S : Before(j, k)}
           r == [k \in S |-> Cardinality(Below(k)) + 1]
<1>1. IsFiniteSet(S) /\ n \in Nat
  BY KeysFinite
<1>2. \A k \in S : Below(k) \in SUBSET S /\ IsFiniteSet(Below(k)) /\ Cardinality(Below(k)) \in Nat
  BY KeysFinite
<1>3. ASSUME NEW k \in S PROVE Cardinality(Below(k)) < n
  <2>1. Below(k) # S
    BY BeforeOrder
  <2>2. Cardinality(Below(k)) <= n /\ n # Cardinality(Below(k))
    BY <1>1, <1>2, <2>1, FS_Subset
  <2>3. Cardinality(Below(k)) \in Nat
    BY <1>2
  <2> HIDE DEF Below, n
  <2>4. QED
    BY <1>1, <2>2, <2>3
<1>4. ASSUME NEW j \in S, NEW k \in S, Before(j, k) PROVE Cardinality(Below(j)) < Cardinality(Below(k))
  <2>1. Below(j) \in SUBSET Below(k)
    BY <1>4, BeforeOrder
  <2>2. Below(j) # Below(k)
    BY <1>4, BeforeOrder
  <2>3. IsFiniteSet(Below(k)) /\ Cardinality(Below(k)) \in Nat /\ Cardinality(Below(j)) \in Nat
    BY <1>2
  <2> HIDE DEF Below
  <2>4. Cardinality(Below(j)) <= Cardinality(Below(k)) /\ Cardinality(Below(k)) # Cardinality(Below(j))
    BY <2>1, <2>2, <2>3, FS_Subset
  <2>5. QED
    BY <2>3, <2>4
<1> HIDE DEF Below, n
<1>5. r \in [S -> 1..n]
  <2>1. \A k \in S : Cardinality(Below(k)) + 1 \in 1..n
    BY <1>1, <1>2, <1>3
  <2>2. QED
    BY <2>1
<1>6. \A j, k \in S : Before(j, k) => r[j] < r[k]
  BY <1>2, <1>4
<1>7. \A k \in S : r[k] \in Nat
  BY <1>1, <1>5
<1> HIDE DEF r
<1>8. \A j, k \in S : (r[j] < r[k] => Before(j, k)) /\ (r[j] = r[k] => j = k)
  BY <1>6, <1>7, BeforeTotal
<1>9. \A i \in 1..n : \E k \in S : r[k] = i
  <2>1. r \in Injection(S, 1..n)
    BY <1>5, <1>8 DEF Injection, IsInjective
  <2>2. IsFiniteSet(1..n) /\ Cardinality(1..n) = n
    BY <1>1, FS_Interval
  <2>3. r \in Surjection(S, 1..n)
    BY <2>1, <2>2, FS_Injection DEF n
  <2>4. QED
    BY <2>3 DEF Surjection
<1> DEFINE o == [i \in 1..n |-> CHOOSE k \in S : r[k] = i]
<1>10. \A i \in 1..n : o[i] \in S /\ r[o[i]] = i
  BY <1>9
<1>11. o \in [1..n -> S] /\ DOMAIN o = 1..n
  BY <1>10
<1> HIDE DEF o
<1>12. \A k \in S : \E i \in 1..n : o[i] = k
  <2>1. \A k \in S : r[k] \in 1..n /\ o[r[k]] \in S /\ r[o[r[k]]] = r[k]
    BY <1>5, <1>10
  <2>2. \A k \in S : o[r[k]] = k
    BY <1>8, <2>1
  <2>3. QED
    BY <2>1, <2>2
<1>13. \A i, j \in 1..n : i < j => Before(o[i], o[j])
  BY <1>8, <1>10
<1>14. o \in Orders(S)
  BY <1>11, <1>12 DEF Orders, n
<1>15. QED
  BY <1>11, <1>13, <1>14

\* A claim takes up to ClaimLimit pending directives, each at its generation.
LEMMA ClaimTakes ==
    ASSUME ApplierTypeOK, NEW w \in Workers, Claim(w)
    PROVE  \E t \in AtMost(ClaimLimit, Directive) :
              /\ worker' = [worker EXCEPT ![w].todo = t]
              /\ \A i \in DOMAIN t : /\ t[i].attempt \in pending_directives
                                     /\ t[i].gen = mem.attempts[t[i].attempt].gen
<1> DEFINE P == pending_directives
           Sorted(o) == \A i, j \in DOMAIN o : i < j => Before(o[i], o[j])
           order == CHOOSE o \in Orders(P) : Sorted(o)
           first == {i \in DOMAIN order : i <= ClaimLimit}
           t == [i \in first |-> [attempt |-> order[i], gen |-> mem.attempts[order[i]].gen]]
           m == IF Len(order) <= ClaimLimit THEN Len(order) ELSE ClaimLimit
<1>1. P \in SUBSET AttemptKeys
  BY DEF pending_directives
<1>2. worker' = [worker EXCEPT ![w].todo = t]
  BY DEF Claim
<1> HIDE DEF P
<1>3. order \in Orders(P)
  BY <1>1, SortedOrder
<1> HIDE DEF order
<1>4. order \in Seq(AttemptKeys) /\ \A i \in 1..Len(order) : order[i] \in P
  BY <1>1, <1>3, OrdersType
<1>5. Len(order) \in Nat /\ DOMAIN order = 1..Len(order) /\ ClaimLimit \in Nat
  BY <1>4, ClaimLimitAssumption
<1>6. first = 1..m /\ m \in Nat /\ m <= ClaimLimit /\ m <= Len(order)
  BY <1>5
<1> HIDE DEF first, m
<1>7. \A i \in 1..m : order[i] \in P /\ order[i] \in AttemptKeys /\ mem.attempts[order[i]].gen \in Nat
  <2>1. \A k \in AttemptKeys : mem.attempts[k].gen \in Nat
    BY DEF ApplierTypeOK, TypeOK, DurableState, Attempt
  <2>2. \A i \in 1..m : order[i] \in P
    BY <1>4, <1>5, <1>6
  <2>3. QED
    BY <1>1, <2>1, <2>2
<1>8. t \in [1..m -> Directive]
  BY <1>6, <1>7 DEF Directive
<1>9. t \in Seq(Directive) /\ Len(t) = m /\ DOMAIN t = 1..m
  BY <1>6, <1>8
<1>10. t \in AtMost(ClaimLimit, Directive)
  BY <1>6, <1>9 DEF AtMost
<1>11. \A i \in 1..m : t[i].attempt = order[i] /\ t[i].gen = mem.attempts[order[i]].gen
  BY <1>6
<1> HIDE DEF t
<1>12. \A i \in DOMAIN t : /\ t[i].attempt \in pending_directives
                           /\ t[i].gen = mem.attempts[t[i].attempt].gen
  BY <1>7, <1>9, <1>11 DEF P
<1>13. QED
  BY <1>2, <1>10, <1>12

(***************************************************************************)
(* What a handler may write, record by record, with evictions.  A slot     *)
(* keeps its record, loses it, gets a new attempt in one of the phases P,  *)
(* or the record moves on; only attempts in cs are committed, and only     *)
(* those in ds denied.                                                     *)
(***************************************************************************)

\* An attempt that was not there before; a grant is bound to the boot n.
Minted(n, P) ==
    {b \in Attempt : /\ b.phase \in P /\ b.revalidation = "None"
                     /\ b.phase = "Authorized" => b.epoch = n}

\* The verdict is kept, or given on an interrupted attempt.
Verdict(a, b) ==
    /\ b.revalidation = a.revalidation \/ a.phase = "Interrupted"
    /\ b.revalidation = "NotApplied" => a.revalidation = "NotApplied"

\* The same attempt, neither granted nor committed nor interrupted thereby.
Moved(a) ==
    {b \in Attempt : /\ b.gen = a.gen /\ b.epoch = a.epoch /\ Verdict(a, b)
                     /\ b.phase \notin {"Authorized", "Committed"}
                     /\ b.phase = "Interrupted" => a.phase = "Interrupted"}

\* The same attempt, committed, perhaps under the current boot.
Confirmed(a, n) ==
    {b \in Attempt : /\ b.gen = a.gen /\ b.epoch \in {a.epoch, n} /\ Verdict(a, b)
                     /\ b.phase = "Committed"}

\* The same attempt, aborted on the operator's word.
Denied(a) ==
    {b \in Attempt : /\ b.gen = a.gen /\ b.epoch = a.epoch
                     /\ b.phase = "Aborted" /\ a.phase = "Interrupted"}

Slot(d, P, cs, ds, k) ==
    {d.attempts[k], NoAttempt} \cup Minted(d.epoch, P) \cup Moved(d.attempts[k])
        \cup {b \in Confirmed(d.attempts[k], d.epoch) : k \in cs}
        \cup {b \in Denied(d.attempts[k]) : k \in ds}

Within(d, P, cs, ds) ==
    {e \in DurableState : /\ e.epoch = d.epoch
                          /\ \A k \in AttemptKeys : e.attempts[k] \in Slot(d, P, cs, ds, k)}

\* A handler may leave everything as it is.
LEMMA WithinSame ==
    ASSUME NEW d \in DurableState, NEW P, NEW cs, NEW ds
    PROVE  d \in Within(d, P, cs, ds)
BY DEF Within, Slot

\* Only the attempt table and the epoch matter.
LEMMA WithinTable ==
    ASSUME NEW d, NEW P, NEW cs, NEW ds, NEW e \in Within(d, P, cs, ds),
           NEW f \in DurableState, f.attempts = e.attempts, f.epoch = e.epoch
    PROVE  f \in Within(d, P, cs, ds)
BY DEF Within

\* Rotating the journal, fencing and indexing touch neither.
LEMMA WithinRotated ==
    ASSUME NEW d, NEW P, NEW cs, NEW ds, NEW e \in Within(d, P, cs, ds)
    PROVE  /\ [e EXCEPT !.uncovered = FALSE] \in Within(d, P, cs, ds)
           /\ [e EXCEPT !.uncovered = FALSE].attempts = e.attempts
<1> DEFINE f == [e EXCEPT !.uncovered = FALSE]
<1>1. e \in DurableState
  BY DEF Within
<1>2. f \in DurableState
  BY <1>1, RotatedType
<1>3. f.attempts = e.attempts /\ f.epoch = e.epoch
  BY <1>1 DEF DurableState
<1> HIDE DEF f
<1>4. f \in Within(d, P, cs, ds)
  BY <1>2, <1>3, WithinTable
<1>5. QED
  BY <1>3, <1>4 DEF f

\* A fence record.
LEMMA WithinFence ==
    ASSUME NEW d, NEW P, NEW cs, NEW ds, NEW e \in Within(d, P, cs, ds),
           NEW k \in AttemptKeys, NEW kind \in FenceKinds
    PROVE  note_fence(e, kind, k) \in Within(d, P, cs, ds)
<1> DEFINE f == note_fence(e, kind, k)
<1>1. e \in DurableState
  BY DEF Within
<1>2. f \in DurableState
  BY <1>1, NoteFenceType
<1>3. f.attempts = e.attempts /\ f.epoch = e.epoch
  BY <1>1 DEF note_fence, DurableState
<1> HIDE DEF f
<1>4. f \in Within(d, P, cs, ds)
  BY <1>2, <1>3, WithinTable
<1>5. QED
  BY <1>4 DEF f

\* The records that settle a decision.
LEMMA WithinSettle ==
    ASSUME NEW d, NEW P, NEW cs, NEW ds, NEW e \in Within(d, P, cs, ds),
           NEW key \in Keys \cup {NoKey}, NEW k \in AttemptKeys, NEW g \in Nat
    PROVE  /\ Settle(e, key, k, g) \in Seq(Within(d, P, cs, ds))
           /\ Len(Settle(e, key, k, g)) = 1 \/ Len(Settle(e, key, k, g)) = 2
           /\ \A i \in 1..Len(Settle(e, key, k, g)) : Settle(e, key, k, g)[i].attempts = e.attempts
<1> DEFINE f == note_idempotency(e, key, k, g)
           S == Within(d, P, cs, ds)
<1>1. e \in DurableState
  BY DEF Within
<1>2. CASE key = NoKey
  BY <1>2 DEF Settle
<1>3. CASE key # NoKey
  <2>1. f \in DurableState
    BY <1>1, <1>3, NoteIdempotencyType
  <2>2. f.attempts = e.attempts /\ f.epoch = e.epoch
    BY <1>1 DEF note_idempotency, DurableState
  <2>3. Settle(e, key, k, g) = <<e, f>>
    BY <1>3 DEF Settle
  <2> HIDE DEF f
  <2>4. e \in S /\ f \in S
    BY <2>1, <2>2, WithinTable
  <2> HIDE DEF S
  <2>5. <<e, f>> \in Seq(S) /\ Len(<<e, f>>) = 2
    BY <2>4
  <2>6. QED
    BY <2>2, <2>3, <2>5 DEF S
<1>4. QED
  BY <1>2, <1>3

\* An attempt record that its slot may get, whatever is evicted for it.
LEMMA WithinNote ==
    ASSUME NEW d, NEW P, NEW cs, NEW ds, NEW e \in Within(d, P, cs, ds),
           NEW k \in AttemptKeys, NEW a \in Attempt, a \in Slot(d, P, cs, ds, k)
    PROVE  /\ note_attempt(e, k, a) \in Within(d, P, cs, ds)
           /\ note_attempt(e, k, a).epoch = e.epoch
           /\ \A j \in AttemptKeys :
                 note_attempt(e, k, a).attempts[j] \in {NoAttempt, IF j = k THEN a ELSE e.attempts[j]}
<1> DEFINE f == note_attempt(e, k, a)
           t == [e.attempts EXCEPT ![k] = a]
<1>1. e \in DurableState /\ e.attempts \in [AttemptKeys -> Attempt]
  BY DEF Within, DurableState
<1>2. f \in DurableState
  BY <1>1, NoteAttemptType
<1>3. f.attempts = evict_attempts(t) /\ f.epoch = e.epoch
  BY <1>1 DEF note_attempt, DurableState
<1>4. \A j \in AttemptKeys : t[j] = IF j = k THEN a ELSE e.attempts[j]
  BY <1>1
<1> HIDE DEF t, f
<1>5. \A j \in AttemptKeys : evict_attempts(t)[j] \in {NoAttempt, t[j]}
  BY DEF evict_attempts
<1>6. \A j \in AttemptKeys : f.attempts[j] \in {NoAttempt, IF j = k THEN a ELSE e.attempts[j]}
  BY <1>3, <1>4, <1>5
<1>7. \A j \in AttemptKeys : NoAttempt \in Slot(d, P, cs, ds, j)
  BY DEF Slot
<1>8. \A j \in AttemptKeys : e.attempts[j] \in Slot(d, P, cs, ds, j)
  BY DEF Within
<1>9. \A j \in AttemptKeys : f.attempts[j] \in Slot(d, P, cs, ds, j)
  BY <1>6, <1>7, <1>8
<1>10. e.epoch = d.epoch
  BY DEF Within
<1>11. f \in Within(d, P, cs, ds)
  BY <1>2, <1>3, <1>9, <1>10 DEF Within
<1>12. QED
  BY <1>3, <1>6, <1>11 DEF f

\* What a handler leaves behind: a dead process or states within its reach, and no
\* grant in memory that is neither older than it nor on the medium.
Leaves(P, cs, ds) ==
    /\ durable' \in Within(mem, P, cs, ds)
    /\ \/ status' = "down" /\ mem' = Fresh /\ health' = "ok"
       \/ status' = "up" /\ mem' \in Within(mem, P, cs, ds)
    /\ \A k \in AttemptKeys :
          mem'.attempts[k].phase = "Authorized" =>
              mem'.attempts[k] \in {mem.attempts[k], durable'.attempts[k]}

\* The chain of a handler leaves what its states allow, however it ends.
LEMMA WithinEnding ==
    ASSUME CanAppend, NEW P, NEW cs, NEW ds, NEW c \in Seq(Within(mem, P, cs, ds)), c # <<>>,
           HandlerMayCompact(c)
    PROVE  /\ durable' \in Within(mem, P, cs, ds)
           /\ \/ status' = "down" /\ mem' = Fresh /\ health' = "ok"
              \/ status' = "up" /\ mem' \in Within(mem, P, cs, ds)
<1> DEFINE S == Within(mem, P, cs, ds)
<1>1. Len(c) \in Nat \ {0} /\ DOMAIN c = 1..Len(c) /\ \A i \in 1..Len(c) : c[i] \in S
  OBVIOUS
<1>2. c[Len(c)] \in S
  BY <1>1
<1>3. [c[Len(c)] EXCEPT !.uncovered = FALSE] \in S
  BY <1>2, WithinRotated
<1> HIDE DEF S
<1>4. CASE Written(c)
  BY <1>2, <1>4 DEF Written, CanAppend, S
<1>5. CASE Dies(c)
  BY <1>1, <1>5 DEF Dies, S
<1>6. CASE \E i \in DOMAIN c : AppendFails(c, i)
  <2>1. PICK i \in DOMAIN c : AppendFails(c, i)
    BY <1>6
  <2>2. c[i] \in S /\ c[i + 1] \in S
    BY <1>1, <2>1 DEF AppendFails
  <2>3. QED
    BY <2>1, <2>2 DEF AppendFails, CanAppend, S
<1>7. CASE Compacts(c[Len(c)])
  BY <1>2, <1>3, <1>7 DEF Compacts, CanAppend, S
<1>8. CASE CompactDies(c[Len(c)])
  BY <1>2, <1>3, <1>8 DEF CompactDies, S
<1>9. QED
  BY <1>4, <1>5, <1>6, <1>7, <1>8 DEF HandlerMayCompact, Handler

\* A handler that grants nothing leaves no grant that was not there.
LEMMA GrantsNothing ==
    ASSUME NEW d \in DurableState, NEW P, "Authorized" \notin P, NEW cs, NEW ds,
           NEW e \in Within(d, P, cs, ds), NEW k \in AttemptKeys,
           e.attempts[k].phase = "Authorized"
    PROVE  e.attempts[k] = d.attempts[k]
<1>1. e.attempts[k] \in Slot(d, P, cs, ds, k)
  BY DEF Within
<1>2. NoAttempt.phase # "Authorized"
  BY DEF NoAttempt
<1>3. QED
  BY <1>1, <1>2 DEF Slot, Minted, Moved, Confirmed, Denied

\* Nor does an empty memory hold one.
LEMMA FreshEmpty == \A k \in AttemptKeys : Fresh.attempts[k] = NoAttempt /\ NoAttempt.phase = "Absent"
                                           /\ NoAttempt.revalidation = "None" /\ NoAttempt.gen = 0
BY DEF Fresh, NoAttempt

\* So the chain of such a handler leaves what it may.
LEMMA PlainEnding ==
    ASSUME mem \in DurableState, CanAppend, NEW P, "Authorized" \notin P, NEW cs, NEW ds,
           NEW c \in Seq(Within(mem, P, cs, ds)), c # <<>>, HandlerMayCompact(c)
    PROVE  Leaves(P, cs, ds)
<1>1. /\ durable' \in Within(mem, P, cs, ds)
      /\ \/ status' = "down" /\ mem' = Fresh /\ health' = "ok"
         \/ status' = "up" /\ mem' \in Within(mem, P, cs, ds)
  BY WithinEnding
<1>2. ASSUME NEW k \in AttemptKeys, mem'.attempts[k].phase = "Authorized"
      PROVE  mem'.attempts[k] = mem.attempts[k]
  <2>1. mem' # Fresh
    BY <1>2, FreshEmpty
  <2>2. mem' \in Within(mem, P, cs, ds)
    BY <1>1, <2>1
  <2>3. QED
    BY <1>2, <2>2, GrantsNothing
<1>3. QED
  BY <1>1, <1>2 DEF Leaves

\* The gate, a compaction and a refusal: at most a record that holds nothing is new.
LEMMA GateLeaves ==
    ASSUME TypeOK, NEW l \in Links, NEW key \in Keys \cup {NoKey}, GateRefuses(l, key)
    PROVE  Leaves({}, {}, {})
<1> DEFINE g == LinkGen[mem.topology][l]
           S == Within(mem, {}, {}, {})
<1>1. CanAppend /\ mem \in DurableState
  BY DEF GateRefuses, Admitted, CanAppend, TypeOK
<1>2. PICK q \in Seqs : HandlerMayCompact(<<mem>> \o Settle(mem, key, <<l, q>>, g))
  BY DEF GateRefuses, interrupted_attempt, latest_attempt, Of
<1>3. <<l, q>> \in AttemptKeys /\ g \in Nat
  BY <1>1, Definitions DEF AttemptKeys
<1>4. mem \in S
  BY <1>1, WithinSame
<1> HIDE DEF g
<1>5. Settle(mem, key, <<l, q>>, g) \in Seq(S)
  BY <1>3, <1>4, WithinSettle
<1> HIDE DEF S
<1>6. <<mem>> \o Settle(mem, key, <<l, q>>, g) \in Seq(S) \ {<<>>}
  BY <1>4, <1>5
<1>7. QED
  BY <1>1, <1>2, <1>6, PlainEnding DEF S

\* The compaction.
LEMMA CheckpointLeaves ==
    ASSUME TypeOK, Checkpoint
    PROVE  Leaves({}, {}, {})
<1> DEFINE S == Within(mem, {}, {}, {})
           c == <<mem>>
<1>1. CanAppend /\ mem \in DurableState /\ HandlerMayCompact(c)
  BY DEF Checkpoint, TypeOK, HandlerMayCompact
<1>2. mem \in S
  BY <1>1, WithinSame
<1> HIDE DEF S
<1>3. c \in Seq(S) /\ c # <<>>
  BY <1>2
<1> HIDE DEF c
<1>4. QED
  BY <1>1, <1>3, PlainEnding DEF S

\* The refusal.
LEMMA RefuseLeaves ==
    ASSUME TypeOK, NEW l \in Links, NEW key \in Keys \cup {NoKey},
           NEW phase \in {"Refused", "Indeterminate"}, RefuseAttempt(l, key, phase)
    PROVE  Leaves({phase}, {}, {})
<1> DEFINE g == LinkGen[mem.topology][l]
           k == NextAttempt(l)
           a == [NoAttempt EXCEPT !.phase = phase, !.gen = g]
           d == note_attempt(mem, k, a)
           S == Within(mem, {phase}, {}, {})
<1>1. CanAppend /\ mem \in DurableState /\ Evaluates(l, key)
  BY DEF RefuseAttempt, Evaluates, Admitted, CanAppend, TypeOK
<1>2. g \in Nat /\ k \in AttemptKeys
  BY <1>1, Definitions, NextAttemptType
<1>3. HandlerMayCompact(<<mem, d>> \o Settle(d, key, k, g))
  BY DEF RefuseAttempt
<1>4. a \in Attempt /\ a.phase = phase /\ a.revalidation = "None"
  BY <1>2 DEF Attempt, NoAttempt, Phases, Terminal
<1> HIDE DEF a, g, k
<1>5. a \in Slot(mem, {phase}, {}, {}, k)
  BY <1>4 DEF Slot, Minted
<1>6. mem \in S
  BY <1>1, WithinSame
<1>7. d \in S
  BY <1>2, <1>4, <1>5, <1>6, WithinNote
<1> HIDE DEF d
<1>8. Settle(d, key, k, g) \in Seq(S)
  BY <1>2, <1>7, WithinSettle
<1> HIDE DEF S
<1>9. <<mem, d>> \o Settle(d, key, k, g) \in Seq(S) \ {<<>>}
  BY <1>6, <1>7, <1>8
<1>10. QED
  BY <1>1, <1>3, <1>9, PlainEnding DEF S

\* A handler that may write more has a wider reach.
LEMMA WithinMore ==
    ASSUME NEW d, NEW P, NEW Q, P \subseteq Q, NEW cs, NEW ds, NEW e \in Within(d, P, cs, ds)
    PROVE  e \in Within(d, Q, cs, ds)
BY DEF Within, Slot, Minted

\* The grant: a new intent, then a new grant; once memory has it the medium has.
LEMMA GrantLeaves ==
    ASSUME TypeOK, NEW l \in Links, NEW key \in Keys \cup {NoKey}, Grant(l, key)
    PROVE  Leaves({"Evaluated", "Authorized"}, {}, {})
<1> DEFINE g == LinkGen[mem.topology][l]
           k == NextAttempt(l)
           a == [phase |-> "Evaluated", gen |-> g, epoch |-> mem.epoch,
                 policy |-> mem.policy, topology |-> mem.topology,
                 revalidation |-> "None"]
           b == [a EXCEPT !.phase = "Authorized"]
           d1 == note_attempt(mem, k, a)
           d2 == note_attempt(d1, k, b)
           r == Settle(d2, key, k, g)
           c == GrantChain(l, key)
           P == {"Evaluated", "Authorized"}
           S1 == Within(mem, {"Evaluated"}, {}, {})
           S == Within(mem, P, {}, {})
<1>1. CanAppend /\ mem \in DurableState /\ Evaluates(l, key)
  BY DEF Grant, Evaluates, Admitted, CanAppend, TypeOK
<1>2. g \in Nat /\ k \in AttemptKeys
  BY <1>1, Definitions, NextAttemptType
<1>3. HandlerMayCompact(c) /\ c = <<mem, d1, d2>> \o r
  BY DEF Grant, GrantChain, HandlerMayCompact, Handler
<1>4. mem.epoch \in Nat /\ mem.policy \in Nat /\ mem.topology \in Nat
  BY <1>1, PolicyAssumption, TopologyAssumption DEF DurableState
<1>5. a \in Attempt /\ a.phase = "Evaluated" /\ a.revalidation = "None"
  BY <1>2, <1>4 DEF Attempt, Phases, InFlight
<1>6. /\ b \in Attempt /\ b.phase = "Authorized" /\ b.revalidation = "None"
      /\ b.epoch = mem.epoch
  BY <1>2, <1>4 DEF Attempt, Phases, InFlight
<1> HIDE DEF a, b, g, k, c
<1>7. a \in Slot(mem, {"Evaluated"}, {}, {}, k) /\ b \in Slot(mem, P, {}, {}, k)
  BY <1>5, <1>6 DEF Slot, Minted
<1>8. mem \in S1 /\ mem \in S
  BY <1>1, WithinSame
<1>9. d1 \in S1
  BY <1>2, <1>5, <1>7, <1>8, WithinNote
<1> HIDE DEF d1
<1>10. d1 \in S
  BY <1>9, WithinMore
<1>11. d2 \in S
  BY <1>2, <1>6, <1>7, <1>10, WithinNote
<1> HIDE DEF d2
<1>12. /\ r \in Seq(S) /\ (Len(r) = 1 \/ Len(r) = 2)
       /\ \A i \in 1..Len(r) : r[i].attempts = d2.attempts
  BY <1>2, <1>11, WithinSettle
<1> HIDE DEF r, S, S1, P
<1>13. /\ c \in Seq(S) /\ c # <<>> /\ c[1] = mem /\ c[2] = d1
       /\ \A i \in 3..Len(c) : c[i].attempts = d2.attempts
  <2> DEFINE p == <<mem, d1, d2>>
  <2>1. p \in Seq(S) /\ Len(p) = 3 /\ p[1] = mem /\ p[2] = d1 /\ p[3] = d2 /\ c = p \o r
    BY <1>3, <1>8, <1>10, <1>11
  <2> HIDE DEF p
  <2>2. /\ c \in Seq(S) /\ Len(c) = 3 + Len(r) /\ c[1] = mem /\ c[2] = d1 /\ c[3] = d2
        /\ \A i \in 1..Len(r) : c[3 + i] = r[i]
    <3>1. p \in Seq(S) /\ r \in Seq(S) /\ Len(r) \in Nat
      BY <1>12, <2>1
    <3>2. /\ p \o r \in Seq(S) /\ Len(p \o r) = Len(p) + Len(r)
          /\ \A i \in 1..(Len(p) + Len(r)) :
                (p \o r)[i] = IF i <= Len(p) THEN p[i] ELSE r[i - Len(p)]
      BY ONLY <3>1, ConcatProperties
    <3>3. /\ \A i \in 1..3 : i \in 1..(3 + Len(r)) /\ i <= 3
          /\ \A i \in 1..Len(r) : 3 + i \in 1..(3 + Len(r)) /\ ~(3 + i <= 3) /\ (3 + i) - 3 = i
      BY ONLY <3>1
    <3>4. QED
      BY <2>1, <3>2, <3>3
  <2>3. \A i \in 3..Len(c) : i = 3 \/ (i - 3 \in 1..Len(r) /\ i = 3 + (i - 3))
    BY <2>2, <1>12
  <2>4. \A i \in 3..Len(c) : c[i].attempts = d2.attempts
    BY <1>12, <2>2, <2>3
  <2>5. c # <<>>
    BY <1>12, <2>2
  <2>6. QED
    BY <2>2, <2>4, <2>5
<1>14. /\ durable' \in S
       /\ \/ status' = "down" /\ mem' = Fresh /\ health' = "ok"
          \/ status' = "up" /\ mem' \in S
  BY <1>1, <1>3, <1>13, WithinEnding DEF S
<1>15. ASSUME NEW j \in AttemptKeys, mem'.attempts[j].phase = "Authorized"
       PROVE  mem'.attempts[j] \in {mem.attempts[j], durable'.attempts[j]}
  <2>1. mem' # Fresh
    BY <1>15, FreshEmpty
  <2>2. CASE mem' = durable'
    BY <2>2
  <2>3. ASSUME NEW i \in DOMAIN c, AppendFails(c, i)
        PROVE  mem'.attempts[j] \in {mem.attempts[j], durable'.attempts[j]}
    <3>1. i \in Nat /\ i >= 1 /\ i + 1 <= Len(c) /\ Len(c) \in Nat
      BY <1>13, <2>3 DEF AppendFails
    <3>2. mem' = c[i] /\ durable' \in {c[i], c[i + 1]}
      BY <2>3 DEF AppendFails
    <3>3. CASE i = 1 \/ i = 2
      <4>1. mem' \in S1
        BY <1>8, <1>9, <1>13, <3>2, <3>3
      <4> DEFINE Q == {"Evaluated"}
      <4>2. "Authorized" \notin Q /\ mem' \in Within(mem, Q, {}, {})
        BY <4>1 DEF S1
      <4> HIDE DEF Q
      <4>3. mem'.attempts[j] = mem.attempts[j]
        BY <1>1, <1>15, <4>2, GrantsNothing
      <4>4. QED
        BY <4>3
    <3>4. CASE i >= 3
      <4>1. i \in 3..Len(c) /\ i + 1 \in 3..Len(c)
        BY <3>1, <3>4
      <4>2. mem'.attempts = durable'.attempts
        BY <1>13, <3>2, <4>1
      <4>3. QED
        BY <4>2
    <3>5. QED
      BY <3>1, <3>3, <3>4
  <2>4. QED
    BY <1>3, <2>1, <2>2, <2>3
    DEF HandlerMayCompact, Handler, Written, Dies, Compacts, CompactDies
<1>16. QED
  BY <1>14, <1>15 DEF Leaves, S, P

\* What a phase change makes of a record.
LEMMA Rephasing ==
    ASSUME NEW a \in Attempt, NEW ph \in Phases
    PROVE  LET b == [a EXCEPT !.phase = ph] IN
           /\ b \in Attempt /\ b.phase = ph /\ Verdict(a, b)
           /\ b.gen = a.gen /\ b.epoch = a.epoch /\ b.revalidation = a.revalidation
           /\ ph \notin {"Authorized", "Committed", "Interrupted"} => b \in Moved(a)
           /\ ph = "Committed" => \A n : b \in Confirmed(a, n)
<1> DEFINE b == [a EXCEPT !.phase = ph]
<1>1. /\ b \in Attempt /\ b.phase = ph
      /\ b.gen = a.gen /\ b.epoch = a.epoch /\ b.revalidation = a.revalidation
  BY DEF Attempt
<1> HIDE DEF b
<1>2. Verdict(a, b)
  BY <1>1 DEF Verdict
<1>3. QED
  BY <1>1, <1>2 DEF Moved, Confirmed, b

\* The applier's report: only an accepted one commits.
LEMMA ApplicationLeaves ==
    ASSUME TypeOK, NEW k \in AttemptKeys, NEW yes \in BOOLEAN, RecordApplication(k, yes)
    PROVE  CanAppend /\ Leaves({}, IF yes THEN {k} ELSE {}, {})
<1> DEFINE At(ph) == note_attempt(mem, k, [mem.attempts[k] EXCEPT !.phase = ph])
           cs == IF yes THEN {k} ELSE {}
           S == Within(mem, {}, cs, {})
<1>1. CanAppend /\ mem \in DurableState /\ mem.attempts[k] \in Attempt
  BY DEF RecordApplication, CanAppend, TypeOK, DurableState
<1>2. PICK ph \in {"Aborted", "Acknowledged", "Committed"} :
         /\ HandlerMayCompact(<<mem, At(ph), At(ph)>>)
         /\ ph = "Committed" => yes
  BY DEF RecordApplication
<1> DEFINE a == [mem.attempts[k] EXCEPT !.phase = ph]
<1>3. a \in Attempt /\ (a \in Moved(mem.attempts[k]) \/ (k \in cs /\ a \in Confirmed(mem.attempts[k], mem.epoch)))
  <2>1. ph \in Phases
    BY DEF Phases, Terminal, InFlight
  <2>2. QED
    BY <1>1, <1>2, <2>1, Rephasing
<1>4. At(ph) = note_attempt(mem, k, a)
  OBVIOUS
<1> HIDE DEF a, cs, At
<1>5. a \in Slot(mem, {}, cs, {}, k)
  BY <1>3 DEF Slot
<1>6. mem \in S
  BY <1>1, WithinSame
<1>7. At(ph) \in S
  BY <1>3, <1>4, <1>5, <1>6, WithinNote
<1> HIDE DEF S
<1>8. <<mem, At(ph), At(ph)>> \in Seq(S) \ {<<>>}
  BY <1>6, <1>7
<1>9. Leaves({}, cs, {})
  BY <1>1, <1>2, <1>8, PlainEnding DEF S
<1>10. QED
  BY <1>1, <1>9 DEF cs

\* Its verification: only an observed effect commits.
LEMMA VerificationLeaves ==
    ASSUME TypeOK, NEW k \in AttemptKeys, NEW yes \in BOOLEAN, RecordVerification(k, yes)
    PROVE  CanAppend /\ Leaves({}, IF yes THEN {k} ELSE {}, {})
<1> DEFINE a(ph) == [mem.attempts[k] EXCEPT !.phase = ph]
           At(ph) == note_attempt(mem, k, a(ph))
           cs == IF yes THEN {k} ELSE {}
           S == Within(mem, {}, cs, {})
<1>1. CanAppend /\ mem \in DurableState /\ mem.attempts[k] \in Attempt
  BY DEF RecordVerification, CanAppend, TypeOK, DurableState
<1>2. \/ HandlerMayCompact(<<mem, At("Indeterminate"), At("Indeterminate")>>)
      \/ yes /\ HandlerMayCompact(<<mem, At("Verified"), At("Committed"), At("Committed")>>)
  BY DEF RecordVerification, HandlerMayCompact
<1>3. /\ a("Indeterminate") \in Attempt /\ a("Indeterminate") \in Moved(mem.attempts[k])
      /\ a("Verified") \in Attempt /\ a("Verified") \in Moved(mem.attempts[k])
      /\ a("Committed") \in Attempt /\ a("Committed") \in Confirmed(mem.attempts[k], mem.epoch)
  <2>1. "Indeterminate" \in Phases /\ "Verified" \in Phases /\ "Committed" \in Phases
    BY DEF Phases, Terminal, InFlight
  <2>2. QED
    BY <1>1, <2>1, Rephasing
<1> HIDE DEF a
<1>4. /\ a("Indeterminate") \in Slot(mem, {}, cs, {}, k) /\ a("Verified") \in Slot(mem, {}, cs, {}, k)
      /\ yes => a("Committed") \in Slot(mem, {}, cs, {}, k)
  BY <1>3 DEF Slot
<1> HIDE DEF cs
<1>5. mem \in S
  BY <1>1, WithinSame
<1>6. /\ At("Indeterminate") \in S /\ At("Verified") \in S
      /\ yes => At("Committed") \in S
  BY <1>3, <1>4, <1>5, WithinNote
<1> HIDE DEF S, At
<1>7. /\ <<mem, At("Indeterminate"), At("Indeterminate")>> \in Seq(S) \ {<<>>}
      /\ yes => <<mem, At("Verified"), At("Committed"), At("Committed")>> \in Seq(S) \ {<<>>}
  BY <1>5, <1>6
<1>8. Leaves({}, cs, {})
  BY <1>1, <1>2, <1>7, PlainEnding DEF S
<1>9. QED
  BY <1>1, <1>8 DEF cs

\* A rollback commits nothing.
LEMMA RollbackLeaves ==
    ASSUME TypeOK, NEW k \in AttemptKeys, NEW key \in Keys \cup {NoKey}, RequestRollback(k, key)
    PROVE  Leaves({}, {}, {})
<1> DEFINE a == [mem.attempts[k] EXCEPT !.phase = "RolledBack"]
           d1 == note_attempt(mem, k, a)
           d2 == note_fence(d1, "RollbackRevoked", k)
           g == mem.attempts[k].gen
           S == Within(mem, {}, {}, {})
<1>1. CanAppend /\ mem \in DurableState /\ mem.attempts[k] \in Attempt /\ g \in Nat
  BY DEF RequestRollback, TypeOK, DurableState, Attempt
<1>2. HandlerMayCompact(<<mem, d1, d2>> \o Settle(d2, key, k, g))
  BY DEF RequestRollback, HandlerMayCompact
<1>3. a \in Attempt /\ a \in Moved(mem.attempts[k])
  <2>1. "RolledBack" \in Phases
    BY DEF Phases, Terminal
  <2>2. QED
    BY <1>1, <2>1, Rephasing
<1> HIDE DEF a, g
<1>4. a \in Slot(mem, {}, {}, {}, k)
  BY <1>3 DEF Slot
<1>5. mem \in S
  BY <1>1, WithinSame
<1>6. d1 \in S
  BY <1>3, <1>4, <1>5, WithinNote
<1> HIDE DEF d1
<1>7. "RollbackRevoked" \in FenceKinds
  BY DEF FenceKinds
<1>8. d2 \in S
  BY <1>6, <1>7, WithinFence
<1> HIDE DEF d2
<1>9. Settle(d2, key, k, g) \in Seq(S)
  BY <1>1, <1>8, WithinSettle
<1> HIDE DEF S
<1>10. <<mem, d1, d2>> \o Settle(d2, key, k, g) \in Seq(S) \ {<<>>}
  BY <1>5, <1>6, <1>8, <1>9
<1>11. QED
  BY <1>1, <1>2, <1>10, PlainEnding DEF S

\* A verdict of Applied commits the interrupted attempt, one of NotApplied denies it.
LEMMA RevalidationLeaves ==
    ASSUME TypeOK, NEW k \in AttemptKeys, NEW verdict \in Verdicts, ResolveInterrupted(k, verdict)
    PROVE  /\ mem.attempts[k].phase = "Interrupted"
           /\ Leaves({}, IF verdict = "Applied" THEN {k} ELSE {},
                         IF verdict = "NotApplied" THEN {k} ELSE {})
<1> DEFINE a == mem.attempts[k]
           b == Revalidated(mem, a, verdict)
           d == note_attempt(mem, k, b)
           cs == IF verdict = "Applied" THEN {k} ELSE {}
           ds == IF verdict = "NotApplied" THEN {k} ELSE {}
           S == Within(mem, {}, cs, ds)
<1>1. CanAppend /\ mem \in DurableState /\ a \in Attempt /\ a.phase = "Interrupted" /\ a.revalidation = "None"
  BY DEF ResolveInterrupted, TypeOK, DurableState
<1>2. HandlerMayCompact(<<mem, d, d>>)
  BY DEF ResolveInterrupted, HandlerMayCompact
<1>3. mem.epoch \in Nat /\ mem.policy \in Nat /\ mem.topology \in Nat
  BY <1>1, PolicyAssumption, TopologyAssumption DEF DurableState
<1>4. b \in Attempt /\ b \in Slot(mem, {}, cs, ds, k)
  <2>1. CASE verdict = "Applied"
    <3>1. /\ b \in Attempt /\ b.phase = "Committed" /\ b.gen = a.gen /\ b.epoch = mem.epoch
          /\ b.revalidation = "Applied"
      BY <1>1, <1>3, <2>1 DEF Revalidated, Attempt, Phases, Terminal, Verdicts
    <3> HIDE DEF b
    <3>2. b \in Confirmed(a, mem.epoch) /\ k \in cs
      BY <1>1, <2>1, <3>1 DEF Confirmed, Verdict
    <3>3. QED
      BY <3>1, <3>2 DEF Slot
  <2>2. CASE verdict = "NotApplied"
    <3>1. /\ b \in Attempt /\ b.phase = "Aborted" /\ b.gen = a.gen /\ b.epoch = a.epoch
      BY <1>1, <1>3, <2>2 DEF Revalidated, Attempt, Phases, Terminal, Verdicts
    <3> HIDE DEF b
    <3>2. b \in Denied(a) /\ k \in ds
      BY <1>1, <2>2, <3>1 DEF Denied
    <3>3. QED
      BY <3>1, <3>2 DEF Slot
  <2>3. CASE verdict = "Unknown"
    <3>1. /\ b \in Attempt /\ b.phase = "Interrupted" /\ b.gen = a.gen /\ b.epoch = a.epoch
          /\ b.revalidation = "Unknown"
      BY <1>1, <1>3, <2>3 DEF Revalidated, Attempt, Phases, Terminal, Verdicts
    <3> HIDE DEF b
    <3>2. b \in Moved(a)
      BY <1>1, <3>1 DEF Moved, Verdict
    <3>3. QED
      BY <3>1, <3>2 DEF Slot
  <2>4. QED
    BY <2>1, <2>2, <2>3 DEF Verdicts
<1> HIDE DEF b, cs, ds
<1>5. mem \in S
  BY <1>1, WithinSame
<1>6. d \in S
  BY <1>4, <1>5, WithinNote
<1> HIDE DEF d, S
<1>7. <<mem, d, d>> \in Seq(S) \ {<<>>}
  BY <1>5, <1>6
<1>8. Leaves({}, cs, ds)
  BY <1>1, <1>2, <1>7, PlainEnding DEF S
<1>9. QED
  BY <1>1, <1>8 DEF cs, ds

\* A redefinition aborts and commits nothing.
LEMMA RedefineLeaves ==
    ASSUME TypeOK, NEW b \in DurableState, b.attempts = mem.attempts, b.epoch = mem.epoch,
           NEW kind \in FenceKinds, Redefine(b, kind)
    PROVE  Leaves({}, {}, {})
<1> DEFINE S == Within(mem, {}, {}, {})
<1>1. CanAppend /\ mem \in DurableState /\ \A k \in AttemptKeys : mem.attempts[k] \in Attempt
  BY DEF Redefine, TypeOK, DurableState
<1>2. PICK o \in Orders(Holders(mem)) :
         HandlerMayCompact(<<mem>> \o FencingPass(b, o, kind, "Aborted"))
  BY DEF Redefine, HandlerMayCompact
<1>3. o \in Seq(AttemptKeys)
  <2>1. Holders(mem) \in SUBSET AttemptKeys
    BY DEF Holders
  <2>2. QED
    BY <2>1, OrdersType
<1>4. "Aborted" \in Phases
  BY DEF Phases, Terminal
<1>5. mem \in S
  BY <1>1, WithinSame
<1>6. ASSUME NEW n \in 0..(2 * Len(o)) PROVE Fenced(b, o, kind, "Aborted", n) \in S
  <2> DEFINE e == Fenced(b, o, kind, "Aborted", n)
  <2>1. e \in DurableState
    BY <1>3, <1>4, FencedType
  <2>2. /\ e.epoch = mem.epoch
        /\ \A k \in AttemptKeys :
              \/ e.attempts[k] = [mem.attempts[k] EXCEPT !.phase = "Aborted"]
              \/ e.attempts[k] = mem.attempts[k]
    BY <1>3, <1>4, FencedAttempts
  <2> HIDE DEF e
  <2>3. \A k \in AttemptKeys : [mem.attempts[k] EXCEPT !.phase = "Aborted"] \in Moved(mem.attempts[k])
    BY <1>1, <1>4, Rephasing
  <2>4. \A k \in AttemptKeys : e.attempts[k] \in Slot(mem, {}, {}, {}, k)
    BY <2>2, <2>3 DEF Slot
  <2>5. QED
    BY <2>1, <2>2, <2>4 DEF Within, e
<1> HIDE DEF S
<1>7. FencingPass(b, o, kind, "Aborted") \in Seq(S)
  BY <1>3, <1>6, FencingPassType
<1>8. <<mem>> \o FencingPass(b, o, kind, "Aborted") \in Seq(S) \ {<<>>}
  BY <1>5, <1>7
<1>9. QED
  BY <1>1, <1>2, <1>8, PlainEnding DEF S

\* How a request that may append is served: within its reach, and, while nothing is
\* evicted and generations do not go back, either without touching an attempt that
\* is there or without making a new one.
NewPhases == {"Refused", "Indeterminate", "Evaluated", "Authorized"}
Served(P, cs, ds) ==
    /\ CanAppend /\ P \subseteq NewPhases /\ Leaves(P, cs, ds)
    /\ Roomy /\ Advancing /\ LineageInv => \E ks : Outcome(ks) /\ (ks = {} \/ P = {})

\* What the operator's truthfulness gives the attempts that a verdict commits or denies.
Licensed(cs, ds) ==
    /\ \A k \in cs : InEffect(k, mem.attempts[k].gen)
    /\ \A k \in ds : /\ Settled /\ ~InEffect(k, mem.attempts[k].gen)
                     /\ mem.attempts[k].phase = "Interrupted"

\* Every request of the other clients.
LEMMA RequestServed ==
    ASSUME TypeOK, Requests
    PROVE  \E P, cs, ds : Served(P, cs, ds) /\ Licensed(cs, ds)
<1> USE DEF Served, NewPhases
<1>1. Licensed({}, {})
  BY DEF Licensed
<1>2. ASSUME NEW l \in Links, NEW key \in Keys \cup {NoKey}, GateRefuses(l, key)
      PROVE  Served({}, {}, {})
  <2>1. CanAppend
    BY <1>2 DEF GateRefuses, Admitted, CanAppend
  <2>2. QED
    BY <1>2, <2>1, GateLeaves, GateOutcome
<1>3. ASSUME NEW l \in Links, NEW key \in Keys \cup {NoKey},
             NEW phase \in {"Refused", "Indeterminate"}, RefuseAttempt(l, key, phase)
      PROVE  Served({phase}, {}, {})
  <2>1. CanAppend
    BY <1>3 DEF RefuseAttempt, Evaluates, Admitted, CanAppend
  <2>2. QED
    BY <1>3, <2>1, RefuseLeaves, RefuseOutcome
<1>4. ASSUME NEW l \in Links, NEW key \in Keys \cup {NoKey}, Grant(l, key)
      PROVE  Served({"Evaluated", "Authorized"}, {}, {})
  <2>1. CanAppend
    BY <1>4 DEF Grant, Evaluates, Admitted, CanAppend
  <2>2. Leaves({"Evaluated", "Authorized"}, {}, {})
    BY <1>4, GrantLeaves
  <2>3. Roomy /\ Advancing /\ LineageInv => Outcome({})
    BY <1>4, GrantOutcome
  <2>4. QED
    BY <2>1, <2>2, <2>3
<1>5. ASSUME NEW k \in AttemptKeys, NEW key \in Keys \cup {NoKey}, RequestRollback(k, key)
      PROVE  Served({}, {}, {})
  <2>1. CanAppend
    BY <1>5 DEF RequestRollback
  <2>2. QED
    BY <1>5, <2>1, RollbackLeaves, RollbackOutcome
<1>6. ASSUME NEW k \in AttemptKeys, NEW verdict \in Verdicts, Truthful(k, verdict),
             ResolveInterrupted(k, verdict)
      PROVE  \E P, cs, ds : Served(P, cs, ds) /\ Licensed(cs, ds)
  <2> DEFINE cs == IF verdict = "Applied" THEN {k} ELSE {}
             ds == IF verdict = "NotApplied" THEN {k} ELSE {}
  <2>1. CanAppend
    BY <1>6 DEF ResolveInterrupted
  <2>2. mem.attempts[k].phase = "Interrupted" /\ Leaves({}, cs, ds)
    BY <1>6, RevalidationLeaves
  <2>3. Licensed(cs, ds)
    BY <1>6, <2>2 DEF Truthful, Licensed, Verdicts
  <2>4. Roomy /\ Advancing /\ LineageInv => Outcome({k})
    BY <1>6, RevalidationOutcome
  <2> HIDE DEF cs, ds
  <2>5. Served({}, cs, ds)
    BY <2>1, <2>2, <2>4
  <2>6. QED
    BY <2>3, <2>5
<1>7. ASSUME NEW p \in DOMAIN PolicyOf, SetPolicy(p)
      PROVE  Served({}, {}, {})
  <2> DEFINE b == [mem EXCEPT !.policy = p]
  <2>1. Redefine(b, "PolicyChanged") /\ CanAppend
    BY <1>7 DEF SetPolicy, Redefine
  <2>2. b \in DurableState /\ b.attempts = mem.attempts /\ b.epoch = mem.epoch
    BY DEF TypeOK, DurableState
  <2>3. "PolicyChanged" \in FenceKinds
    BY DEF FenceKinds
  <2> HIDE DEF b
  <2>4. Leaves({}, {}, {})
    BY <2>1, <2>2, <2>3, RedefineLeaves
  <2>5. LineageInv => Outcome(Holders(mem))
    BY <1>7, PolicyOutcome
  <2>6. QED
    BY <2>1, <2>4, <2>5
<1>8. ASSUME NEW t \in DOMAIN LinkGen, SetTopology(t)
      PROVE  Served({}, {}, {})
  <2> DEFINE b == [mem EXCEPT !.topology = t]
  <2>1. Redefine(b, "TopologyChanged") /\ CanAppend
    BY <1>8 DEF SetTopology, Redefine
  <2>2. b \in DurableState /\ b.attempts = mem.attempts /\ b.epoch = mem.epoch
    BY DEF TypeOK, DurableState
  <2>3. "TopologyChanged" \in FenceKinds
    BY DEF FenceKinds
  <2> HIDE DEF b
  <2>4. Leaves({}, {}, {})
    BY <2>1, <2>2, <2>3, RedefineLeaves
  <2>5. LineageInv => Outcome(Holders(mem))
    BY <1>8, TopologyOutcome
  <2>6. QED
    BY <2>1, <2>4, <2>5
<1>9. ASSUME Checkpoint PROVE Served({}, {}, {})
  <2>1. CanAppend
    BY <1>9 DEF Checkpoint
  <2>2. QED
    BY <1>9, <2>1, CheckpointLeaves, CheckpointOutcome
<1> HIDE DEF Served, NewPhases
<1>10. QED
  BY <1>1, <1>2, <1>3, <1>4, <1>5, <1>6, <1>7, <1>8, <1>9 DEF Requests

\* The two reports.
LEMMA ReportServed ==
    ASSUME TypeOK, NEW k \in AttemptKeys, NEW yes \in BOOLEAN,
           RecordApplication(k, yes) \/ RecordVerification(k, yes)
    PROVE  Served({}, IF yes THEN {k} ELSE {}, {})
<1>1. CanAppend /\ Leaves({}, IF yes THEN {k} ELSE {}, {})
  BY ApplicationLeaves, VerificationLeaves
<1>2. Roomy /\ Advancing /\ LineageInv => Outcome({k})
  BY ApplicationOutcome, VerificationOutcome
<1>3. QED
  BY <1>1, <1>2 DEF Served

(***************************************************************************)
(* What a worker's step does to its process and its effect directory.      *)
(***************************************************************************)

Process ==
    [pc: {"off", "ready", "opened", "written", "reported"}, mode: Modes, boot: Nat,
     todo: AtMost(ClaimLimit, Directive)]

\* A process that has exited.
LEMMA ExitedProcess ==
    NoWorker \in Process /\ Held(NoWorker) = {} /\ NoWorker.boot = 0 /\ \A E : InLoop(NoWorker, E)
<1>1. <<>> \in AtMost(ClaimLimit, Directive)
  BY ClaimLimitAssumption DEF AtMost
<1>2. NoWorker \in Process
  BY <1>1 DEF NoWorker, Process, Modes
<1>3. NoWorker.todo = <<>> /\ NoWorker.pc = "off" /\ NoWorker.boot = 0
  BY DEF NoWorker
<1>4. Held(NoWorker) = {}
  BY <1>3 DEF Held
<1>5. QED
  BY <1>2, <1>3, <1>4 DEF InLoop

\* A process that goes on with what it has in hand.
LEMMA GoingProcess ==
    ASSUME NEW x \in Process, NEW pc \in {"opened", "written", "reported"}, x.todo # <<>>
    PROVE  LET y == [x EXCEPT !.pc = pc] IN
           /\ y \in Process /\ y.boot = x.boot /\ y.todo = x.todo /\ Held(y) = Held(x)
           /\ \A E : (pc = "written" => Head(x.todo) \in E) => InLoop(y, E)
<1> DEFINE y == [x EXCEPT !.pc = pc]
<1>1. y \in Process /\ y.boot = x.boot /\ y.todo = x.todo /\ y.pc = pc
  BY DEF Process
<1> HIDE DEF y
<1>2. Held(y) = Held(x)
  BY <1>1 DEF Held
<1>3. \A E : (pc = "written" => Head(x.todo) \in E) => InLoop(y, E)
  BY <1>1 DEF InLoop
<1>4. QED
  BY <1>1, <1>2, <1>3 DEF y

\* What is left of a list of directives, and its first.
LEMMA DirectiveList ==
    ASSUME NEW s \in AtMost(ClaimLimit, Directive), s # <<>>
    PROVE  /\ Head(s) = s[1] /\ 1 \in DOMAIN s /\ Head(s) \in Directive
           /\ Tail(s) \in AtMost(ClaimLimit, Directive)
           /\ \A i \in DOMAIN Tail(s) : i + 1 \in DOMAIN s /\ Tail(s)[i] = s[i + 1]
<1>1. s \in Seq(Directive) /\ Len(s) \in Nat /\ Len(s) <= ClaimLimit /\ ClaimLimit \in Nat
  BY ClaimLimitAssumption DEF AtMost
<1>2. Head(s) = s[1] /\ 1 \in DOMAIN s /\ Head(s) \in Directive
  BY <1>1
<1>3. Tail(s) \in Seq(Directive) /\ Len(Tail(s)) = Len(s) - 1
  BY <1>1
<1>4. \A i \in DOMAIN Tail(s) : i + 1 \in DOMAIN s /\ Tail(s)[i] = s[i + 1]
  BY <1>1, <1>3
<1>5. Len(Tail(s)) <= ClaimLimit
  BY <1>1, <1>3
<1>6. QED
  BY <1>2, <1>3, <1>4, <1>5 DEF AtMost

\* A process that has finished with its first directive.
LEMMA FinishedProcess ==
    ASSUME NEW x \in Process, x.todo # <<>>
    PROVE  LET y == [x EXCEPT !.pc = "ready", !.todo = Tail(@)] IN
           /\ y \in Process /\ y.boot = x.boot /\ Held(y) \subseteq Held(x)
           /\ \A E : InLoop(y, E)
<1> DEFINE y == [x EXCEPT !.pc = "ready", !.todo = Tail(@)]
           t == Tail(x.todo)
<1>1. x.todo \in AtMost(ClaimLimit, Directive)
  BY DEF Process
<1>2. /\ t \in AtMost(ClaimLimit, Directive)
      /\ \A i \in DOMAIN t : i + 1 \in DOMAIN x.todo /\ t[i] = x.todo[i + 1]
  BY <1>1, DirectiveList
<1>3. y = [x EXCEPT !.pc = "ready", !.todo = t]
  OBVIOUS
<1> HIDE DEF t, y
<1>4. y \in Process /\ y.boot = x.boot /\ y.pc = "ready" /\ y.todo = t
  BY <1>2, <1>3 DEF Process
<1>5. Held(y) \subseteq Held(x)
  BY <1>2, <1>4 DEF Held
<1>6. \A E : InLoop(y, E)
  BY <1>4 DEF InLoop
<1>7. QED
  BY <1>4, <1>5, <1>6 DEF y

\* Where what a process has in hand comes from: it was in hand before, or it is
\* claimed now, from a coordinator that does nothing else meanwhile.
Comes(w, x) ==
    \/ x.boot = 0 /\ Held(x) = {}
    \/ x.boot = worker[w].boot /\ Held(x) \subseteq InHand(w)
    \/ status = "up" /\ x.boot = mem.epoch /\ Held(x) = {} /\ UNCHANGED vars
    \/ /\ x.boot = worker[w].boot /\ Connected(w) /\ UNCHANGED vars /\ effects' = effects
       /\ \A r \in Held(x) : r.attempt \in pending_directives /\ r.gen = mem.attempts[r.attempt].gen

\* What may become of the effect directories when w takes a step: w's gains what w
\* has in hand, and what it loses is remembered as done again.
EffectStep(w) ==
    /\ effects' \in [Workers -> SUBSET Directive] /\ redone' \in SUBSET Directive
    /\ \A v \in Workers : v # w => effects'[v] = effects[v]
    /\ effects'[w] \subseteq effects[w] \cup InHand(w)
    /\ \A r \in effects[w] : r \in effects'[w] \/ r \in redone'
    /\ redone \subseteq redone'

WorkerStep(w, x) ==
    /\ x \in Process /\ worker' = [worker EXCEPT ![w] = x] /\ InLoop(x, effects'[w])
    /\ Comes(w, x) /\ EffectStep(w)

\* A report to the coordinator; one that may commit tells of an effect in place.
Reports ==
    \E k \in AttemptKeys, yes \in BOOLEAN :
        /\ RecordApplication(k, yes) \/ RecordVerification(k, yes)
        /\ yes => InEffect(k, mem.attempts[k].gen)

\* The directives of the first place in a worker's list.
LEMMA TaskType ==
    ASSUME ApplierTypeOK, NEW w \in Workers, worker[w].todo # <<>>
    PROVE  /\ worker[w] \in Process
           /\ Task(w) \in Directive /\ Task(w) \in InHand(w) /\ Task(w).attempt \in AttemptKeys
           /\ Task(w) = [attempt |-> Task(w).attempt, gen |-> Task(w).gen]
<1>1. worker[w] \in Process
  BY DEF ApplierTypeOK, Process
<1>2. worker[w].todo \in AtMost(ClaimLimit, Directive)
  BY <1>1 DEF Process
<1>3. Task(w) \in Directive /\ Task(w) = worker[w].todo[1] /\ 1 \in DOMAIN worker[w].todo
  BY <1>2, DirectiveList DEF Task
<1>4. Task(w) \in InHand(w)
  BY <1>3 DEF InHand, Held
<1>5. QED
  BY <1>1, <1>3, <1>4 DEF Directive

\* A step that leaves the effect directories alone.
LEMMA EffectSame ==
    ASSUME ApplierTypeOK, NEW w \in Workers, UNCHANGED <<effects, redone>>
    PROVE  EffectStep(w) /\ effects'[w] = effects[w]
BY DEF EffectStep, ApplierTypeOK

\* The three ways on: the process exits,
LEMMA ExitsStep ==
    ASSUME ApplierTypeOK, NEW w \in Workers, Exits(w), UNCHANGED <<effects, redone>>
    PROVE  WorkerStep(w, NoWorker)
<1>1. NoWorker \in Process /\ InLoop(NoWorker, effects'[w]) /\ Comes(w, NoWorker)
  BY ExitedProcess DEF Comes
<1>2. worker' = [worker EXCEPT ![w] = NoWorker]
  BY DEF Exits
<1>3. QED
  BY <1>1, <1>2, EffectSame DEF WorkerStep

\* ... it goes on with its directive,
LEMMA GoesStep ==
    ASSUME ApplierTypeOK, NEW w \in Workers, worker[w].todo # <<>>,
           NEW pc \in {"opened", "written", "reported"}, Goes(w, pc), EffectStep(w),
           pc = "written" => Task(w) \in effects'[w]
    PROVE  \E x : WorkerStep(w, x)
<1> DEFINE x == worker[w]
           y == [x EXCEPT !.pc = pc]
<1>1. x \in Process /\ x.todo # <<>>
  BY TaskType
<1>2. worker' = [worker EXCEPT ![w] = y]
  BY DEF Goes
<1>3. Task(w) = Head(x.todo)
  BY DEF Task
<1>4. InHand(w) = Held(x)
  BY DEF InHand
<1> HIDE DEF x
<1>5. /\ y \in Process /\ y.boot = x.boot /\ Held(y) = Held(x)
      /\ \A E : (pc = "written" => Head(x.todo) \in E) => InLoop(y, E)
  BY <1>1, GoingProcess
<1> HIDE DEF y
<1>6. InLoop(y, effects'[w])
  BY <1>3, <1>5
<1>7. Comes(w, y)
  BY <1>4, <1>5 DEF Comes, x
<1>8. QED
  BY <1>2, <1>5, <1>6, <1>7 DEF WorkerStep

\* ... or it has finished with it.
LEMMA FinishesStep ==
    ASSUME ApplierTypeOK, NEW w \in Workers, worker[w].todo # <<>>, Finishes(w),
           UNCHANGED <<effects, redone>>
    PROVE  \E x : WorkerStep(w, x)
<1> DEFINE x == worker[w]
           y == [x EXCEPT !.pc = "ready", !.todo = Tail(@)]
<1>1. x \in Process /\ x.todo # <<>>
  BY TaskType
<1>2. worker' = [worker EXCEPT ![w] = y]
  BY DEF Finishes
<1>3. InHand(w) = Held(x)
  BY DEF InHand
<1> HIDE DEF x
<1>4. y \in Process /\ y.boot = x.boot /\ Held(y) \subseteq Held(x) /\ InLoop(y, effects'[w])
  BY <1>1, FinishedProcess
<1> HIDE DEF y
<1>5. Comes(w, y)
  BY <1>3, <1>4 DEF Comes, x
<1>6. QED
  BY <1>2, <1>4, <1>5, EffectSame DEF WorkerStep

\* Connecting: nothing is in hand yet.
LEMMA ConnectStep ==
    ASSUME ApplierTypeOK, NEW w \in Workers, NEW mode \in Modes, Connect(w, mode)
    PROVE  UNCHANGED vars /\ \E x : WorkerStep(w, x)
<1> DEFINE x == [NoWorker EXCEPT !.pc = "ready", !.mode = mode, !.boot = mem.epoch]
<1>1. mem.epoch \in Nat /\ NoWorker \in Process
  BY ExitedProcess DEF ApplierTypeOK, TypeOK, DurableState
<1>2. x \in Process /\ x.todo = <<>> /\ x.boot = mem.epoch /\ x.pc = "ready"
  BY <1>1 DEF Process, NoWorker
<1>3. worker' = [worker EXCEPT ![w] = x]
  BY DEF Connect
<1> HIDE DEF x
<1>4. Held(x) = {} /\ InLoop(x, effects'[w])
  BY <1>2 DEF Held, InLoop
<1>5. Comes(w, x)
  BY <1>2, <1>4 DEF Comes, Connect
<1>6. EffectStep(w)
  BY EffectSame DEF Connect
<1>7. QED
  BY <1>2, <1>3, <1>4, <1>5, <1>6 DEF WorkerStep, Connect

\* Claiming: what is then in hand is pending.
LEMMA ClaimStep ==
    ASSUME ApplierTypeOK, NEW w \in Workers, Claim(w)
    PROVE  UNCHANGED vars /\ \E x : WorkerStep(w, x)
<1>1. PICK t \in AtMost(ClaimLimit, Directive) :
         /\ worker' = [worker EXCEPT ![w].todo = t]
         /\ \A i \in DOMAIN t : /\ t[i].attempt \in pending_directives
                                /\ t[i].gen = mem.attempts[t[i].attempt].gen
  BY ClaimTakes
<1> DEFINE x == [worker[w] EXCEPT !.todo = t]
<1>2. worker[w] \in Process
  BY DEF ApplierTypeOK, Process
<1>3. worker[w].pc = "ready" /\ Connected(w) /\ UNCHANGED <<vars, effects, redone>>
  BY DEF Claim
<1>4. x \in Process /\ x.todo = t /\ x.boot = worker[w].boot /\ x.pc = "ready"
  BY <1>2, <1>3 DEF Process
<1>5. worker' = [worker EXCEPT ![w] = x]
  BY <1>1
<1> HIDE DEF x
<1>6. \A r \in Held(x) : r.attempt \in pending_directives /\ r.gen = mem.attempts[r.attempt].gen
  BY <1>1, <1>4 DEF Held
<1>7. Comes(w, x)
  BY <1>3, <1>4, <1>6 DEF Comes
<1>8. InLoop(x, effects'[w])
  BY <1>4 DEF InLoop
<1>9. EffectStep(w)
  BY <1>3, EffectSame
<1>10. QED
  BY <1>3, <1>4, <1>5, <1>7, <1>8, <1>9 DEF WorkerStep

\* Opening the effect file: what it held is remembered as done again.
LEMMA OpenStep ==
    ASSUME ApplierTypeOK, NEW w \in Workers, OpenEffect(w)
    PROVE  UNCHANGED vars /\ \E x : WorkerStep(w, x)
<1>1. worker[w].todo # <<>> /\ Goes(w, "opened") /\ UNCHANGED vars
  BY DEF OpenEffect, Starts
<1>2. /\ effects' = [effects EXCEPT ![w] = @ \ {Task(w)}]
      /\ redone' = redone \cup (effects[w] \cap {Task(w)})
  BY DEF OpenEffect
<1>3. effects \in [Workers -> SUBSET Directive] /\ redone \in SUBSET Directive
  BY DEF ApplierTypeOK
<1>4. EffectStep(w)
  BY <1>2, <1>3 DEF EffectStep
<1>5. QED
  BY <1>1, <1>4, GoesStep

\* Writing it: the effect of the directive in hand is in place, or the process exits.
LEMMA WriteStep ==
    ASSUME ApplierTypeOK, LoopInv, NEW w \in Workers, WriteEffect(w)
    PROVE  UNCHANGED vars /\ \E x : WorkerStep(w, x)
<1>1. worker[w].todo # <<>> /\ UNCHANGED vars /\ redone' = redone
  BY DEF WriteEffect, LoopInv, InLoop
<1>2. CASE effects' = [effects EXCEPT ![w] = @ \cup {Task(w)}] /\ Goes(w, "written")
  <2>1. Task(w) \in Directive /\ Task(w) \in InHand(w)
    BY <1>1, TaskType
  <2>2. effects \in [Workers -> SUBSET Directive] /\ redone \in SUBSET Directive
    BY DEF ApplierTypeOK
  <2>3. EffectStep(w) /\ Task(w) \in effects'[w]
    BY <1>1, <1>2, <2>1, <2>2 DEF EffectStep
  <2>4. QED
    BY <1>1, <1>2, <2>3, GoesStep
<1>3. CASE WriteFails(w)
  <2>1. Exits(w) /\ UNCHANGED <<effects, redone>>
    BY <1>1, <1>3 DEF WriteFails
  <2>2. QED
    BY <1>1, <2>1, ExitsStep
<1>4. QED
  BY <1>2, <1>3 DEF WriteEffect

\* A report that was answered: on to the verification, or to the next directive.
LEMMA ReportedStep ==
    ASSUME ApplierTypeOK, NEW w \in Workers, NEW accepted, worker[w].todo # <<>>,
           Reported(w, accepted), UNCHANGED <<effects, redone>>
    PROVE  \E x : WorkerStep(w, x)
<1>1. CASE Goes(w, "reported")
  <2>1. EffectStep(w)
    BY EffectSame
  <2>2. QED
    BY <1>1, <2>1, GoesStep
<1>2. CASE Finishes(w)
  BY <1>2, FinishesStep
<1>3. QED
  BY <1>1, <1>2 DEF Reported

\* The report of an application: accepted once the effect is in place.
LEMMA ApplicationStep ==
    ASSUME ApplierTypeOK, LoopInv, NEW w \in Workers, NEW accepted \in BOOLEAN,
           ReportApplication(w, accepted)
    PROVE  (UNCHANGED vars \/ Reports) /\ \E x : WorkerStep(w, x)
<1> DEFINE k == Task(w).attempt
<1>1. worker[w].todo # <<>> /\ UNCHANGED <<effects, redone>>
  BY DEF ReportApplication, LoopInv, InLoop, Starts
<1>2. k \in AttemptKeys /\ Task(w) = [attempt |-> k, gen |-> Task(w).gen]
  BY <1>1, TaskType
<1>3. accepted => Task(w) \in effects[w]
  BY DEF ReportApplication, LoopInv, InLoop, Task, Starts
<1>4. CASE Exits(w) /\ UNCHANGED vars
  BY <1>1, <1>4, ExitsStep
<1>5. CASE Reported(w, accepted) /\ UNCHANGED vars
  BY <1>1, <1>5, ReportedStep
<1>6. CASE /\ Answers(w) /\ RecordApplication(k, accepted)
           /\ Reported(w, accepted) \/ Exits(w)
  <2>1. accepted => InEffect(k, mem.attempts[k].gen)
    BY <1>2, <1>3, <1>6 DEF InEffect, Answers, Found
  <2> HIDE DEF k
  <2>2. Reports
    BY <1>2, <1>6, <2>1 DEF Reports
  <2>3. \E x : WorkerStep(w, x)
    BY <1>1, <1>6, ReportedStep, ExitsStep
  <2>4. QED
    BY <2>2, <2>3
<1>7. QED
  <2>1. \/ Exits(w) /\ UNCHANGED vars
        \/ Reported(w, accepted) /\ UNCHANGED vars
        \/ /\ Answers(w) /\ RecordApplication(k, accepted)
           /\ Reported(w, accepted) \/ Exits(w)
    BY DEF ReportApplication
  <2>2. QED
    BY <1>4, <1>5, <1>6, <2>1

\* The report of a verification: observed if the effect is in place.
LEMMA VerificationStep ==
    ASSUME ApplierTypeOK, LoopInv, NEW w \in Workers, ReportVerification(w)
    PROVE  (UNCHANGED vars \/ Reports) /\ \E x : WorkerStep(w, x)
<1> DEFINE k == Task(w).attempt
           yes == Task(w) \in effects[w]
<1>1. worker[w].todo # <<>> /\ UNCHANGED <<effects, redone>>
  BY DEF ReportVerification, LoopInv, InLoop
<1>2. k \in AttemptKeys /\ Task(w) = [attempt |-> k, gen |-> Task(w).gen]
  BY <1>1, TaskType
<1>3. CASE Exits(w) /\ UNCHANGED vars
  BY <1>1, <1>3, ExitsStep
<1>4. CASE Finishes(w) /\ UNCHANGED vars
  BY <1>1, <1>4, FinishesStep
<1>5. CASE Answers(w) /\ RecordVerification(k, yes) /\ (Finishes(w) \/ Exits(w))
  <2>1. yes => InEffect(k, mem.attempts[k].gen)
    BY <1>2, <1>5 DEF InEffect, Answers, Found
  <2>2. yes \in BOOLEAN
    OBVIOUS
  <2> HIDE DEF k, yes
  <2>3. Reports
    BY <1>2, <1>5, <2>1, <2>2 DEF Reports
  <2>4. \E x : WorkerStep(w, x)
    BY <1>1, <1>5, FinishesStep, ExitsStep
  <2>5. QED
    BY <2>3, <2>4
<1>6. QED
  <2>1. \/ Exits(w) /\ UNCHANGED vars
        \/ Finishes(w) /\ UNCHANGED vars
        \/ Answers(w) /\ RecordVerification(k, yes) /\ (Finishes(w) \/ Exits(w))
    BY DEF ReportVerification
  <2>2. QED
    BY <1>3, <1>4, <1>5, <2>1

\* So every step of a worker is of the one kind, and changes the coordinator's state
\* by a report only.
LEMMA WorkerSteps ==
    ASSUME ApplierTypeOK, LoopInv, NEW w \in Workers,
           (\E mode \in Modes : Connect(w, mode)) \/ Works(w) \/ Killed(w)
    PROVE  (UNCHANGED vars \/ Reports) /\ \E x : WorkerStep(w, x)
<1>1. CASE \E mode \in Modes : Connect(w, mode)
  BY <1>1, ConnectStep
<1>2. CASE Claim(w)
  BY <1>2, ClaimStep
<1>3. CASE OpenEffect(w)
  BY <1>3, OpenStep
<1>4. CASE WriteEffect(w)
  BY <1>4, WriteStep
<1>5. CASE \E accepted \in BOOLEAN : ReportApplication(w, accepted)
  BY <1>5, ApplicationStep
<1>6. CASE ReportVerification(w)
  BY <1>6, VerificationStep
<1>7. CASE LosesCoordinator(w) \/ Killed(w)
  <2>1. Exits(w) /\ UNCHANGED <<vars, effects, redone>>
    BY <1>7 DEF LosesCoordinator, Killed, Exits
  <2>2. QED
    BY <2>1, ExitsStep
<1>8. QED
  BY <1>1, <1>2, <1>3, <1>4, <1>5, <1>6, <1>7 DEF Works

(***************************************************************************)
(* Without any assumption on room: the composition takes the coordinator's *)
(* steps, is well typed, and commits only what is in effect.               *)
(***************************************************************************)

\* The boots go on, and a restart's is later than what any worker was connected to.
BootStep ==
    /\ durable'.epoch >= durable.epoch
    /\ status' = "up" => /\ mem'.epoch = durable'.epoch
                         /\ \/ status = "up" /\ mem'.epoch = mem.epoch
                            \/ mem'.epoch > durable.epoch
    /\ status' = "down" => health' = "ok"

\* What is committed after a step was before, or is in cs.
CommitStep(cs) ==
    \A e \in {mem', durable'} : \A k \in AttemptKeys :
        e.attempts[k].phase = "Committed" =>
            \/ \E d \in {mem, durable} : /\ d.attempts[k].phase = "Committed"
                                         /\ d.attempts[k].gen = e.attempts[k].gen
            \/ k \in cs /\ e.attempts[k].gen = mem.attempts[k].gen

\* A request.
LEMMA ServedWork ==
    ASSUME TypeOK, BootKnown, NEW P, NEW cs, NEW ds, Served(P, cs, ds)
    PROVE  BootStep /\ CommitStep(cs)
<1> DEFINE S == Within(mem, P, cs, ds)
<1>1. /\ durable' \in S
      /\ \/ status' = "down" /\ mem' = Fresh /\ health' = "ok"
         \/ status' = "up" /\ mem' \in S
  BY DEF Served, Leaves
<1>2. status = "up" /\ mem.epoch = durable.epoch /\ mem.epoch \in Nat
  BY DEF Served, CanAppend, BootKnown, TypeOK, DurableState
<1>3. \A e \in S : e.epoch = mem.epoch
  BY DEF Within
<1>4. BootStep
  <2>1. durable'.epoch = mem.epoch /\ (status' = "up" => mem'.epoch = mem.epoch)
    BY <1>1, <1>3
  <2>2. durable'.epoch >= durable.epoch
    BY <1>2, <2>1
  <2>3. QED
    BY <1>1, <1>2, <2>1, <2>2 DEF BootStep
<1>5. ASSUME NEW e \in S, NEW k \in AttemptKeys, e.attempts[k].phase = "Committed"
      PROVE  e.attempts[k] = mem.attempts[k] \/ (k \in cs /\ e.attempts[k].gen = mem.attempts[k].gen)
  <2>1. e.attempts[k] \in Slot(mem, P, cs, ds, k)
    BY DEF Within
  <2>2. NoAttempt.phase # "Committed" /\ "Committed" \notin P
    BY DEF NoAttempt, Served, NewPhases
  <2>3. QED
    BY <1>5, <2>1, <2>2 DEF Slot, Minted, Moved, Confirmed, Denied
<1>6. \A k \in AttemptKeys : Fresh.attempts[k].phase # "Committed"
  BY FreshEmpty
<1> HIDE DEF S
<1>7. CommitStep(cs)
  <2> SUFFICES ASSUME NEW e \in {mem', durable'}, NEW k \in AttemptKeys,
                      e.attempts[k].phase = "Committed"
               PROVE  \/ \E d \in {mem, durable} : /\ d.attempts[k].phase = "Committed"
                                                   /\ d.attempts[k].gen = e.attempts[k].gen
                      \/ k \in cs /\ e.attempts[k].gen = mem.attempts[k].gen
    BY DEF CommitStep
  <2>1. e \in S
    BY <1>1, <1>6
  <2>2. QED
    BY <1>5, <2>1
<1>8. QED
  BY <1>4, <1>7

\* What a boot does to the records: it interrupts, and nothing else.
LEMMA OpenRecords ==
    ASSUME TypeOK, Open
    PROVE  /\ durable'.epoch \in {durable.epoch, durable.epoch + 1} /\ health' = health
           /\ \A k \in AttemptKeys :
                 LET a == durable.attempts[k]
                     b == durable'.attempts[k]
                 IN  \/ b = a
                     \/ /\ b.phase = "Interrupted" /\ b.gen = a.gen /\ b.epoch = a.epoch
                        /\ b.revalidation = a.revalidation
           /\ \/ UNCHANGED <<status, mem>>
              \/ status' = "up" /\ mem' = durable' /\ mem'.epoch = durable.epoch + 1
<1> DEFINE n1 == durable.epoch + 1
           boot == [durable EXCEPT !.epoch = @ + 1]
           Same(a, b) == \/ b = a
                         \/ /\ b.phase = "Interrupted" /\ b.gen = a.gen /\ b.epoch = a.epoch
                            /\ b.revalidation = a.revalidation
           S == {e \in DurableState : /\ e.epoch \in {durable.epoch, n1}
                                      /\ \A k \in AttemptKeys : Same(durable.attempts[k], e.attempts[k])}
           Pass(o, n) == Fenced(boot, o, "PreRestartAuthority", "Interrupted", n)
<1>1. durable \in DurableState /\ durable.epoch \in Nat /\ \A k \in AttemptKeys : durable.attempts[k] \in Attempt
  BY DEF TypeOK, DurableState
<1>2. n1 \in Nat /\ boot = [durable EXCEPT !.epoch = n1]
  BY <1>1
<1> HIDE DEF n1, boot
<1>3. boot \in DurableState /\ boot.epoch = n1 /\ boot.attempts = durable.attempts
  BY <1>1, <1>2 DEF DurableState
<1>4. "PreRestartAuthority" \in FenceKinds /\ "Interrupted" \in Phases
  BY DEF FenceKinds, Phases, Terminal
<1>5. ASSUME NEW o \in Seq(AttemptKeys), NEW n \in 0..(2 * Len(o))
      PROVE  Pass(o, n) \in S /\ Pass(o, n).epoch = n1
  <2> DEFINE e == Pass(o, n)
  <2>1. e \in DurableState
    BY <1>3, <1>4, FencedType
  <2>2. /\ e.epoch = n1
        /\ \A k \in AttemptKeys :
              \/ e.attempts[k] = [durable.attempts[k] EXCEPT !.phase = "Interrupted"]
              \/ e.attempts[k] = durable.attempts[k]
    BY <1>3, <1>4, FencedAttempts
  <2> HIDE DEF e
  <2>3. \A k \in AttemptKeys : Same(durable.attempts[k], e.attempts[k])
    <3> SUFFICES ASSUME NEW k \in AttemptKeys PROVE Same(durable.attempts[k], e.attempts[k])
      OBVIOUS
    <3> DEFINE a == durable.attempts[k]
               b == [a EXCEPT !.phase = "Interrupted"]
    <3>1. a \in Attempt
      BY <1>1
    <3>2. e.attempts[k] = b \/ e.attempts[k] = a
      BY <2>2
    <3> HIDE DEF a
    <3>3. /\ b.phase = "Interrupted" /\ b.gen = a.gen /\ b.epoch = a.epoch
          /\ b.revalidation = a.revalidation
      BY <1>4, <3>1, Rephasing
    <3> HIDE DEF b
    <3>4. QED
      BY <3>2, <3>3 DEF a
  <2>4. QED
    BY <2>1, <2>2, <2>3 DEF e
<1>6. durable \in S
  BY <1>1
<1> HIDE DEF S
<1>7. \A o \in Seq(AttemptKeys) :
         (\A i \in 1..Len(o) : durable.attempts[o[i]].phase \in InFlight) =>
         \A n \in 0..(2 * Len(o)) : Pass(o, n) \in S
  BY <1>5
<1>8. /\ durable' \in S
      /\ \/ UNCHANGED <<status, mem>>
         \/ /\ status' = "up" /\ mem' = durable'
            /\ \E o \in Seq(AttemptKeys) : mem' = Pass(o, 2 * Len(o))
  BY <1>1, <1>6, <1>7, OpenChain DEF boot
<1>9. \A o \in Seq(AttemptKeys) : 2 * Len(o) \in 0..(2 * Len(o))
  <2>1. \A o \in Seq(AttemptKeys) : Len(o) \in Nat
    OBVIOUS
  <2>2. QED
    BY <2>1
<1>10. UNCHANGED <<status, mem>> \/ (status' = "up" /\ mem' = durable' /\ mem'.epoch = n1)
  BY <1>5, <1>8, <1>9
<1>11. health' = health
  BY DEF Open
<1>12. QED
  BY <1>8, <1>10, <1>11 DEF S, n1

\* The coordinator's end and start.
LEMMA RestartWork ==
    ASSUME TypeOK, BootKnown, Close \/ Crash \/ Open
    PROVE  BootStep /\ CommitStep({})
<1>1. durable.epoch \in Nat /\ mem.epoch \in Nat /\ mem \in DurableState
  BY DEF TypeOK, DurableState
<1>2. CASE Close \/ Crash
  <2> DEFINE rotated == [mem EXCEPT !.uncovered = FALSE]
  <2>1. /\ status = "up" /\ status' = "down" /\ health' = "ok" /\ mem' = Fresh
        /\ durable' \in {durable, mem, rotated}
    BY <1>2 DEF Close, Crash
  <2>2. rotated.attempts = mem.attempts /\ rotated.epoch = mem.epoch
    BY <1>1 DEF DurableState
  <2> HIDE DEF rotated
  <2>3. mem.epoch = durable.epoch
    BY <2>1 DEF BootKnown
  <2>4. durable'.epoch = durable.epoch
    BY <2>1, <2>2, <2>3
  <2>5. BootStep
    BY <1>1, <2>1, <2>4 DEF BootStep
  <2>6. \A k \in AttemptKeys : Fresh.attempts[k].phase # "Committed"
    BY FreshEmpty
  <2>7. durable'.attempts \in {mem.attempts, durable.attempts}
    BY <2>1, <2>2
  <2>8. CommitStep({})
    BY <2>1, <2>6, <2>7 DEF CommitStep
  <2>9. QED
    BY <2>5, <2>8
<1>3. CASE Open
  <2>1. /\ durable'.epoch \in {durable.epoch, durable.epoch + 1} /\ health' = health
        /\ \A k \in AttemptKeys : \/ durable'.attempts[k] = durable.attempts[k]
                                  \/ durable'.attempts[k].phase = "Interrupted"
        /\ \/ UNCHANGED <<status, mem>>
           \/ status' = "up" /\ mem' = durable' /\ mem'.epoch = durable.epoch + 1
    BY <1>3, OpenRecords
  <2>2. status = "down" /\ health = "ok"
    BY <1>3 DEF Open, BootKnown
  <2>3. BootStep
    BY <1>1, <2>1, <2>2 DEF BootStep
  <2>4. CommitStep({})
    BY <2>1 DEF CommitStep
  <2>5. QED
    BY <2>3, <2>4
<1>4. QED
  BY <1>2, <1>3

\* The steps of the composition, as the coordinator and as the workers see them.
LEMMA CompositionSteps ==
    ASSUME ApplierTypeOK, LoopInv, [ApplierNext]_avars
    PROVE  /\ UNCHANGED vars \/ Reports \/ Requests \/ Close \/ Crash \/ Open
           /\ \/ UNCHANGED <<worker, effects, redone>>
              \/ \E w \in Workers : \E x : WorkerStep(w, x)
<1>1. CASE Coordinates
  BY <1>1 DEF Coordinates
<1>2. CASE \E w \in Workers : (\E mode \in Modes : Connect(w, mode)) \/ Works(w) \/ Killed(w)
  BY <1>2, WorkerSteps
<1>3. CASE UNCHANGED avars
  BY <1>3 DEF avars
<1>4. QED
  BY <1>1, <1>2, <1>3 DEF ApplierNext

\* So the coordinator takes its own steps.
LEMMA CoordinatorSteps ==
    ASSUME UNCHANGED vars \/ Reports \/ Requests \/ Close \/ Crash \/ Open
    PROVE  [Next]_vars
<1>1. Reports => Serves
  BY DEF Reports, Serves
<1>2. Requests => Serves
  BY DEF Requests, Serves
<1>3. QED
  BY <1>1, <1>2 DEF Next

\* What is in effect stays so, or is done again.
LEMMA EffectsKept ==
    ASSUME UNCHANGED <<worker, effects, redone>> \/ \E w \in Workers : \E x : WorkerStep(w, x),
           NEW k, NEW g, InEffect(k, g) \/ [attempt |-> k, gen |-> g] \in redone
    PROVE  InEffect(k, g)' \/ [attempt |-> k, gen |-> g] \in redone'
<1>1. CASE UNCHANGED <<worker, effects, redone>>
  BY <1>1 DEF InEffect
<1>2. CASE \E w \in Workers : \E x : WorkerStep(w, x)
  <2>1. PICK w \in Workers : EffectStep(w)
    BY <1>2 DEF WorkerStep
  <2>2. /\ \A v \in Workers : v # w => effects'[v] = effects[v]
        /\ \A r \in effects[w] : r \in effects'[w] \/ r \in redone'
        /\ redone \subseteq redone'
    BY <2>1 DEF EffectStep
  <2>3. QED
    BY <2>2 DEF InEffect
<1>3. QED
  BY <1>1, <1>2

\* Every step keeps the part of the invariant that needs no room.
LEMMA WorkNext ==
    ASSUME WorkInv, [ApplierNext]_avars
    PROVE  /\ WorkInv' /\ [Next]_vars /\ BootStep
           /\ \A v \in Workers : worker'[v].boot <= durable.epoch
<1>1. ApplierTypeOK /\ TypeOK /\ BootKnown /\ LoopInv /\ CommittedHasEffect
  BY DEF WorkInv, ApplierTypeOK
<1>2. /\ UNCHANGED vars \/ Reports \/ Requests \/ Close \/ Crash \/ Open
      /\ \/ UNCHANGED <<worker, effects, redone>>
         \/ \E w \in Workers : \E x : WorkerStep(w, x)
  BY <1>1, CompositionSteps
<1>3. [Next]_vars
  BY <1>2, CoordinatorSteps
<1>4. TypeOK'
  BY <1>1, <1>3, TypeNext
<1>5. \E cs : /\ BootStep /\ CommitStep(cs)
              /\ \A k \in cs : InEffect(k, mem.attempts[k].gen)
  <2>1. CASE UNCHANGED vars
    <3>1. /\ status' = status /\ mem' = mem /\ durable' = durable /\ health' = health
          /\ durable.epoch \in Nat
      BY <1>1, <2>1 DEF vars, TypeOK, DurableState
    <3>2. BootStep
      BY <1>1, <3>1 DEF BootStep, BootKnown
    <3>3. CommitStep({})
      BY <3>1 DEF CommitStep
    <3>4. QED
      BY <3>2, <3>3
  <2>2. CASE Reports
    <3>1. PICK k \in AttemptKeys, yes \in BOOLEAN :
             /\ RecordApplication(k, yes) \/ RecordVerification(k, yes)
             /\ yes => InEffect(k, mem.attempts[k].gen)
      BY <2>2 DEF Reports
    <3>2. Served({}, IF yes THEN {k} ELSE {}, {})
      BY <1>1, <3>1, ReportServed
    <3>3. BootStep /\ CommitStep(IF yes THEN {k} ELSE {})
      BY <1>1, <3>2, ServedWork
    <3>4. QED
      BY <3>1, <3>3
  <2>3. CASE Requests
    <3>1. PICK P, cs, ds : Served(P, cs, ds) /\ Licensed(cs, ds)
      BY <1>1, <2>3, RequestServed
    <3>2. BootStep /\ CommitStep(cs)
      BY <1>1, <3>1, ServedWork
    <3>3. QED
      BY <3>1, <3>2 DEF Licensed
  <2>4. CASE Close \/ Crash \/ Open
    <3>1. BootStep /\ CommitStep({})
      BY <1>1, <2>4, RestartWork
    <3>2. QED
      BY <3>1
  <2>5. QED
    BY <1>2, <2>1, <2>2, <2>3, <2>4
<1>6. PICK cs : /\ BootStep /\ CommitStep(cs)
                /\ \A k \in cs : InEffect(k, mem.attempts[k].gen)
  BY <1>5
<1>7. worker \in [Workers -> Process] /\ effects \in [Workers -> SUBSET Directive] /\ redone \in SUBSET Directive
  BY <1>1 DEF ApplierTypeOK, Process
<1>8. ApplierTypeOK'
  <2>1. /\ worker' \in [Workers -> Process] /\ effects' \in [Workers -> SUBSET Directive]
        /\ redone' \in SUBSET Directive
    <3>1. CASE UNCHANGED <<worker, effects, redone>>
      BY <1>7, <3>1
    <3>2. CASE \E w \in Workers : \E x : WorkerStep(w, x)
      BY <1>7, <3>2 DEF WorkerStep, EffectStep
    <3>3. QED
      BY <1>2, <3>1, <3>2
  <2>2. QED
    BY <1>4, <2>1 DEF ApplierTypeOK, Process
<1>9. \A v \in Workers : worker'[v].boot \in Nat /\ worker'[v].boot <= durable.epoch
  <2>1. \A v \in Workers : worker[v].boot \in Nat /\ worker[v].boot <= durable.epoch
    BY <1>1, <1>7 DEF BootKnown, Process
  <2>2. CASE UNCHANGED <<worker, effects, redone>>
    BY <2>1, <2>2
  <2>3. CASE \E w \in Workers : \E x : WorkerStep(w, x)
    <3>1. PICK w \in Workers : \E x : WorkerStep(w, x)
      BY <2>3
    <3>2. PICK x : WorkerStep(w, x)
      BY <3>1
    <3>3. worker' = [worker EXCEPT ![w] = x] /\ Comes(w, x)
      BY <3>2 DEF WorkerStep
    <3>4. x.boot = 0 \/ x.boot = worker[w].boot \/ (status = "up" /\ x.boot = mem.epoch)
      BY <3>3 DEF Comes
    <3>5. durable.epoch \in Nat /\ (status = "up" => mem.epoch = durable.epoch)
      BY <1>1 DEF TypeOK, DurableState, BootKnown
    <3>6. x.boot \in Nat /\ x.boot <= durable.epoch
      BY <2>1, <3>4, <3>5
    <3>7. QED
      BY <1>7, <2>1, <3>3, <3>6
  <2>4. QED
    BY <1>2, <2>2, <2>3
<1>10. BootKnown'
  <2>1. durable.epoch \in Nat /\ durable'.epoch \in Nat /\ durable'.epoch >= durable.epoch
    BY <1>1, <1>4, <1>6 DEF TypeOK, DurableState, BootStep
  <2>2. \A v \in Workers : worker'[v].boot <= durable'.epoch
    BY <1>9, <2>1
  <2>3. QED
    BY <1>6, <2>2 DEF BootKnown, BootStep
<1>11. LoopInv'
  <2>1. CASE UNCHANGED <<worker, effects, redone>>
    BY <1>1, <2>1 DEF LoopInv, InLoop
  <2>2. CASE \E w \in Workers : \E x : WorkerStep(w, x)
    <3>1. PICK w \in Workers : \E x : WorkerStep(w, x)
      BY <2>2
    <3>2. PICK x : WorkerStep(w, x)
      BY <3>1
    <3>3. \A v \in Workers : InLoop(worker'[v], effects'[v])
      <4>1. ASSUME NEW v \in Workers, v # w PROVE InLoop(worker'[v], effects'[v])
        <5>1. worker'[v] = worker[v] /\ effects'[v] = effects[v]
          BY <1>7, <3>2, <4>1 DEF WorkerStep, EffectStep
        <5>2. InLoop(worker[v], effects[v])
          BY <1>1 DEF LoopInv
        <5>3. QED
          BY <5>1, <5>2
      <4>2. worker'[w] = x /\ InLoop(x, effects'[w])
        BY <1>7, <3>2 DEF WorkerStep
      <4>3. QED
        BY <4>1, <4>2
    <3>4. QED
      BY <3>3 DEF LoopInv, InLoop
  <2>3. QED
    BY <1>2, <2>1, <2>2
<1>12. CommittedHasEffect'
  <2> SUFFICES ASSUME NEW e \in {mem', durable'}, NEW k \in AttemptKeys,
                      e.attempts[k].phase = "Committed"
               PROVE  \/ \E w \in Workers :
                            [attempt |-> k, gen |-> e.attempts[k].gen] \in effects'[w]
                      \/ [attempt |-> k, gen |-> e.attempts[k].gen] \in redone'
    BY DEF CommittedHasEffect, InEffect
  <2>1. PICK g : g = e.attempts[k].gen
    OBVIOUS
  <2>2. InEffect(k, g) \/ [attempt |-> k, gen |-> g] \in redone
    BY <1>1, <1>6, <2>1 DEF CommitStep, CommittedHasEffect
  <2>3. InEffect(k, g)' \/ [attempt |-> k, gen |-> g] \in redone'
    BY <1>2, <2>2, EffectsKept
  <2>4. QED
    BY <2>1, <2>3 DEF InEffect
<1>13. QED
  BY <1>3, <1>6, <1>8, <1>9, <1>10, <1>11, <1>12 DEF WorkInv

\* The invariant holds when nothing has happened yet.
LEMMA WorkInit == ApplierInit => WorkInv
<1> SUFFICES ASSUME ApplierInit PROVE WorkInv
  OBVIOUS
<1>1. /\ TypeOK /\ status = "down" /\ health = "ok" /\ mem = Fresh /\ durable = Fresh
      /\ worker = [w \in Workers |-> NoWorker]
      /\ effects = [w \in Workers |-> {}] /\ redone = {}
  BY TypeInit DEF ApplierInit, Init
<1>2. /\ NoWorker \in Process /\ NoWorker.boot = 0 /\ \A E : InLoop(NoWorker, E)
  BY ExitedProcess
<1>3. ApplierTypeOK
  BY <1>1, <1>2 DEF ApplierTypeOK, Process
<1>4. BootKnown
  <2>1. Fresh.epoch = 0
    BY DEF Fresh
  <2>2. QED
    BY <1>1, <1>2, <2>1 DEF BootKnown
<1>5. LoopInv
  BY <1>1, <1>2 DEF LoopInv
<1>6. CommittedHasEffect
  BY <1>1, FreshEmpty DEF CommittedHasEffect
<1>7. QED
  BY <1>3, <1>4, <1>5, <1>6 DEF WorkInv

\* The part of the invariant that needs no room holds throughout.
LEMMA WorkHolds == ApplierSpec => []WorkInv
<1>1. WorkInv /\ [ApplierNext]_avars => WorkInv'
  BY WorkNext
<1>2. QED
  BY <1>1, WorkInit, PTL DEF ApplierSpec

\* The appliers, the operator who tells the truth and the coordinator together are a
\* behaviour of the coordinator alone: what workers report, when and how often, is
\* one of the orders of requests Engine serves, so all that is proved of Spec holds
\* here.
THEOREM ApplierImplementsSpec == ApplierSpec => Spec
<1>1. WorkInv /\ [ApplierNext]_avars => [Next]_vars
  BY WorkNext
<1>2. ApplierInit => Init
  BY DEF ApplierInit
<1>3. QED
  BY <1>1, <1>2, WorkHolds, PTL DEF ApplierSpec, Spec

\* Every variable of workers and coordinator keeps its shape, for every number of
\* workers and every limit: the claim's order exists, and no worker has more than
\* one claim of directives in hand.
THEOREM ApplierTypeCorrect == ApplierSpec => []ApplierTypeOK
<1>1. WorkInv => ApplierTypeOK
  BY DEF WorkInv
<1>2. QED
  BY <1>1, WorkHolds, PTL

\* README, invariant 7, with workers killed at any point, two of them on the same
\* directive, and attempts evicted or not: what is committed, in memory or on the
\* medium, is in effect or was done again since.
THEOREM CommittedHasEffectHolds == ApplierSpec => []CommittedHasEffect
<1>1. WorkInv => CommittedHasEffect
  BY DEF WorkInv
<1>2. QED
  BY <1>1, WorkHolds, PTL

(***************************************************************************)
(* While no record is evicted and the generations of a link do not go      *)
(* back: what is in hand is this boot's, what is in effect was granted,    *)
(* and what was denied stays undone.                                       *)
(***************************************************************************)

\* Then a slot keeps its record, or gets an attempt of a newer generation, or its
\* record moves on.
LEMMA RecordStep ==
    ASSUME NEW d \in Orderly, NEW P, NEW cs, NEW ds, NEW ks, ks = {} \/ P = {},
           NEW e \in Within(d, P, cs, ds), e \in From(d, ks), NEW k \in AttemptKeys
    PROVE  LET a == d.attempts[k]
               b == e.attempts[k]
           IN  \/ b = a
               \/ b.gen > a.gen /\ b \in Minted(d.epoch, P)
               \/ /\ b.gen = a.gen
                  /\ \/ b \in Moved(a)
                     \/ k \in cs /\ b \in Confirmed(a, d.epoch)
                     \/ k \in ds /\ b \in Denied(a)
<1> DEFINE a == d.attempts[k]
           b == e.attempts[k]
<1>1. a.gen \in Nat /\ b.gen \in Nat
  BY OrderlyFacts DEF From
<1>2. a = NoAttempt \/ a.gen # 0
  BY DEF Orderly, Generated
<1>3. NoAttempt.gen = 0
  BY DEF NoAttempt
<1>4. b = a \/ (k \in ks /\ b.gen = a.gen) \/ b.gen > a.gen
  BY DEF From, Continues
<1>5. \/ b = a \/ b = NoAttempt \/ b \in Minted(d.epoch, P) \/ b \in Moved(a)
      \/ k \in cs /\ b \in Confirmed(a, d.epoch)
      \/ k \in ds /\ b \in Denied(a)
  BY DEF Within, Slot
<1>6. b \in Minted(d.epoch, P) => P # {}
  BY DEF Minted
<1>7. b \in Moved(a) \/ b \in Confirmed(a, d.epoch) \/ b \in Denied(a) => b.gen = a.gen
  BY DEF Moved, Confirmed, Denied
<1> DEFINE Result == \/ b = a
                     \/ b.gen > a.gen /\ b \in Minted(d.epoch, P)
                     \/ /\ b.gen = a.gen
                        /\ \/ b \in Moved(a)
                           \/ k \in cs /\ b \in Confirmed(a, d.epoch)
                           \/ k \in ds /\ b \in Denied(a)
<1>8. SUFFICES Result
  OBVIOUS
<1> HIDE DEF a, b
<1>9. CASE b = a
  BY <1>9
<1>10. CASE b.gen > a.gen
  BY <1>1, <1>3, <1>5, <1>7, <1>10
<1>11. CASE k \in ks /\ b.gen = a.gen
  <2>1. P = {} /\ b \notin Minted(d.epoch, P)
    BY <1>6, <1>11
  <2>2. b = NoAttempt => b = a
    BY <1>2, <1>3, <1>11
  <2>3. QED
    BY <1>5, <1>11, <2>1, <2>2
<1>12. QED
  BY <1>4, <1>9, <1>10, <1>11

\* What a step of the coordinator does to what the workers, as they were before it,
\* have in hand and in effect.
HandStep ==
    /\ status = "up" /\ status' = "up" /\ mem'.epoch = mem.epoch =>
          \A k \in AttemptKeys :
             \/ mem'.attempts[k].gen > mem.attempts[k].gen
             \/ /\ mem'.attempts[k].gen = mem.attempts[k].gen
                /\ mem'.attempts[k].epoch \in {mem.attempts[k].epoch, mem.epoch}
    /\ PendingGranted' /\ InterruptedEarlier'
    /\ \A k \in AttemptKeys :
          durable'.attempts[k].revalidation = "NotApplied" =>
              \A w \in Workers :
                  [attempt |-> k, gen |-> durable'.attempts[k].gen] \notin InHand(w) \cup effects[w]

\* The verdict NotApplied is given on what nobody has in hand: the workers are of
\* this boot, the attempt of an earlier one.
LEMMA DenialIsSafe ==
    ASSUME ApplierTypeOK, LoopInv, NoStaleDirective, status = "up", Settled,
           NEW k \in AttemptKeys, mem.attempts[k].epoch < mem.epoch,
           ~InEffect(k, mem.attempts[k].gen), NEW w \in Workers
    PROVE  [attempt |-> k, gen |-> mem.attempts[k].gen] \notin InHand(w) \cup effects[w]
<1> DEFINE g == mem.attempts[k].gen
           r == [attempt |-> k, gen |-> g]
<1>1. mem.attempts[k].epoch \in Nat /\ mem.epoch \in Nat /\ g \in Nat
  BY DEF ApplierTypeOK, TypeOK, DurableState, Attempt
<1>2. r \notin effects[w]
  BY DEF InEffect
<1>3. CASE worker[w].pc = "off"
  <2>1. InHand(w) = {}
    BY <1>3, ExitedProcess DEF LoopInv, InLoop, InHand
  <2>2. QED
    BY <1>2, <2>1
<1>4. CASE worker[w].pc # "off"
  <2>1. Connected(w)
    BY <1>4 DEF Settled, Connected
  <2>2. SUFFICES ASSUME r \in InHand(w) PROVE FALSE
    BY <1>2
  <2>3. PICK i \in DOMAIN worker[w].todo : worker[w].todo[i] = r
    BY <2>2 DEF InHand, Held
  <2>4. r.attempt = k /\ r.gen = g
    OBVIOUS
  <2>5. g > g \/ mem.attempts[k].epoch = mem.epoch
    BY <2>1, <2>3, <2>4 DEF NoStaleDirective
  <2>6. QED
    BY <1>1, <2>5
<1>5. QED
  BY <1>3, <1>4

\* A request, of a client or a worker.
LEMMA ServedHand ==
    ASSUME Roomy, Advancing, HandInv, NEW P, NEW cs, NEW ds, Served(P, cs, ds),
           \A k \in ds : /\ Settled /\ ~InEffect(k, mem.attempts[k].gen)
                         /\ mem.attempts[k].phase = "Interrupted"
    PROVE  HandStep
<1> DEFINE S == Within(mem, P, cs, ds)
           n == mem.epoch
<1>1. /\ LineageInv /\ ApplierTypeOK /\ LoopInv /\ NoStaleDirective /\ PendingGranted
      /\ InterruptedEarlier /\ DeniedIsOver
  BY DEF HandInv, WorkInv
<1>2. CanAppend /\ status = "up" /\ P \subseteq NewPhases /\ Leaves(P, cs, ds)
  BY DEF Served, CanAppend
<1>3. /\ mem \in Orderly /\ durable = mem /\ n \in Nat
      /\ \A k \in AttemptKeys : mem.attempts[k].gen \in Nat /\ mem.attempts[k].epoch \in Nat
  BY <1>1, <1>2, RequestFinds
<1>4. PICK ks : Outcome(ks) /\ (ks = {} \/ P = {})
  BY <1>1 DEF Served
<1>5. /\ durable' \in S /\ durable' \in From(mem, ks)
      /\ \/ status' = "down" /\ mem' = Fresh
         \/ status' = "up" /\ mem' \in S /\ mem' \in From(mem, ks)
  <2>1. status' = "down" \/ (status' = "up" /\ status' # "down")
    BY <1>2 DEF Leaves
  <2>2. QED
    BY <1>2, <1>4, <2>1 DEF Leaves, Outcome
<1> DEFINE Step(a, b, k) == \/ b = a
                            \/ b.gen > a.gen /\ b \in Minted(n, P)
                            \/ /\ b.gen = a.gen
                               /\ \/ b \in Moved(a)
                                  \/ k \in cs /\ b \in Confirmed(a, n)
                                  \/ k \in ds /\ b \in Denied(a)
<1>6. \A e \in S : e \in From(mem, ks) =>
         \A k \in AttemptKeys : Step(mem.attempts[k], e.attempts[k], k)
  BY <1>3, <1>4, RecordStep
<1>7. \A e \in S : e.epoch = n
  BY DEF Within
<1> HIDE DEF S
<1>8. ASSUME status' = "up", NEW k \in AttemptKeys
      PROVE  /\ mem'.epoch = n /\ Step(mem.attempts[k], mem'.attempts[k], k)
  BY <1>5, <1>6, <1>7, <1>8
<1>9. ASSUME NEW k \in AttemptKeys PROVE Step(mem.attempts[k], durable'.attempts[k], k)
  BY <1>5, <1>6
<1>10. ASSUME status' = "up", NEW k \in AttemptKeys
       PROVE  \/ mem'.attempts[k].gen > mem.attempts[k].gen
              \/ /\ mem'.attempts[k].gen = mem.attempts[k].gen
                 /\ mem'.attempts[k].epoch \in {mem.attempts[k].epoch, mem.epoch}
  BY <1>8, <1>10 DEF Moved, Confirmed, Denied
<1>11. InterruptedEarlier'
  <2> SUFFICES ASSUME status' = "up", NEW k \in AttemptKeys, mem'.attempts[k].phase = "Interrupted"
               PROVE  mem'.attempts[k].epoch < mem'.epoch
    BY DEF InterruptedEarlier
  <2>1. mem'.epoch = n /\ Step(mem.attempts[k], mem'.attempts[k], k)
    BY <1>8
  <2>2. "Interrupted" \notin P
    BY <1>2 DEF NewPhases
  <2>3. /\ mem.attempts[k].phase = "Interrupted"
        /\ mem'.attempts[k].epoch = mem.attempts[k].epoch
    BY <2>1, <2>2 DEF Minted, Moved, Confirmed, Denied
  <2>4. QED
    BY <1>1, <1>2, <2>1, <2>3 DEF InterruptedEarlier
<1>12. PendingGranted'
  <2> SUFFICES ASSUME status' = "up", NEW k \in AttemptKeys, mem'.attempts[k].phase = "Authorized"
               PROVE  LET a == mem'.attempts[k]
                          b == durable'.attempts[k]
                      IN  /\ a.epoch = mem'.epoch /\ a.revalidation = "None"
                          /\ b.gen > a.gen \/ (b.gen = a.gen /\ b.phase \in PastGrant
                                                             /\ b.revalidation = "None")
    BY DEF PendingGranted, pending_directives
  <2>1. mem'.epoch = n
    BY <1>8
  <2>2. PICK o : o = mem.attempts[k]
    OBVIOUS
  <2>3. PICK a : a = mem'.attempts[k]
    OBVIOUS
  <2>4. PICK b : b = durable'.attempts[k]
    OBVIOUS
  <2>5. a \in {o, b} /\ a.phase = "Authorized"
    BY <1>2, <2>2, <2>3, <2>4 DEF Leaves
  <2>6. Step(o, b, k) /\ Step(o, a, k)
    BY <1>8, <1>9, <2>2, <2>3, <2>4
  <2>7. "Authorized" \in PastGrant
    BY DEF PastGrant, HoldsAuthority
  <2>8. CASE a = o
    <3>1. o.epoch = n /\ o.revalidation = "None" /\ o.phase = "Authorized"
      BY <1>1, <1>2, <2>2, <2>5, <2>8 DEF PendingGranted, pending_directives
    <3>2. Follows(o, b) /\ o.gen \in Nat
      BY <1>3, <1>5, <2>2, <2>4, ContinuesFollows
    <3>3. b.gen > o.gen \/ (b.gen = o.gen /\ b.phase \in PastGrant)
      BY <2>7, <3>1, <3>2 DEF Follows, Later
    <3>4. b.gen = o.gen => b.revalidation = "None"
      BY <2>6, <3>1, <3>2 DEF Moved, Confirmed, Denied, Verdict
    <3>5. QED
      BY <2>1, <2>3, <2>4, <2>8, <3>1, <3>3, <3>4
  <2>9. CASE a # o
    <3>1. a = b
      BY <2>5, <2>9
    <3>2. a.epoch = n /\ a.revalidation = "None"
      BY <2>5, <2>6, <2>9 DEF Minted, Moved, Confirmed, Denied
    <3>3. QED
      BY <2>1, <2>3, <2>4, <2>5, <2>7, <3>1, <3>2
  <2>10. QED
    BY <2>8, <2>9
<1>13. ASSUME NEW k \in AttemptKeys, durable'.attempts[k].revalidation = "NotApplied", NEW w \in Workers
       PROVE  [attempt |-> k, gen |-> durable'.attempts[k].gen] \notin InHand(w) \cup effects[w]
  <2>1. PICK a : a = mem.attempts[k]
    OBVIOUS
  <2>2. PICK b : b = durable'.attempts[k]
    OBVIOUS
  <2>3. Step(a, b, k) /\ b.revalidation = "NotApplied"
    BY <1>9, <1>13, <2>1, <2>2
  <2>4. CASE b.gen = a.gen /\ a.revalidation = "NotApplied"
    <3>1. [attempt |-> k, gen |-> a.gen] \notin InHand(w) \cup effects[w]
      BY <1>1, <1>3, <2>1, <2>4 DEF DeniedIsOver
    <3>2. QED
      BY <2>2, <2>4, <3>1
  <2>5. CASE b.gen = a.gen /\ k \in ds
    <3>1. Settled /\ ~InEffect(k, a.gen) /\ a.phase = "Interrupted"
      BY <2>1, <2>5
    <3>2. a.epoch < mem.epoch
      BY <1>1, <1>2, <2>1, <3>1 DEF InterruptedEarlier
    <3>3. [attempt |-> k, gen |-> a.gen] \notin InHand(w) \cup effects[w]
      BY <1>1, <1>2, <2>1, <3>1, <3>2, DenialIsSafe
    <3>4. QED
      BY <2>2, <2>5, <3>3
  <2>6. QED
    BY <2>3, <2>4, <2>5 DEF Minted, Moved, Confirmed, Verdict
<1>14. QED
  BY <1>8, <1>10, <1>11, <1>12, <1>13 DEF HandStep

\* No step of the coordinator's, or its end or start: a restart's table holds what
\* was granted in earlier boots, and nothing of it is pending.
LEMMA RestartHand ==
    ASSUME HandInv, UNCHANGED vars \/ Close \/ Crash \/ Open
    PROVE  HandStep
<1>1. /\ LineageInv /\ TypeOK /\ BootKnown /\ PendingGranted /\ InterruptedEarlier /\ DeniedIsOver
      /\ mem \in Orderly /\ durable \in Orderly
  BY DEF HandInv, WorkInv, LineageInv
<1>2. \A k \in AttemptKeys :
         durable.attempts[k].revalidation = "NotApplied" =>
             \A w \in Workers :
                 [attempt |-> k, gen |-> durable.attempts[k].gen] \notin InHand(w) \cup effects[w]
  BY <1>1 DEF DeniedIsOver
<1>3. CASE UNCHANGED vars
  <2>1. status' = status /\ mem' = mem /\ durable' = durable
    BY <1>3 DEF vars
  <2>2. PendingGranted' /\ InterruptedEarlier'
    BY <1>1, <2>1 DEF PendingGranted, InterruptedEarlier, pending_directives
  <2>3. QED
    BY <1>2, <2>1, <2>2 DEF HandStep
<1>4. CASE Close \/ Crash
  <2> DEFINE rotated == [mem EXCEPT !.uncovered = FALSE]
  <2>1. /\ status' = "down"
        /\ durable' = durable \/ (CanAppend /\ durable' \in {mem, rotated})
    BY <1>4 DEF Close, Crash
  <2>2. rotated.attempts = mem.attempts
    BY <1>1, FromRotated
  <2> HIDE DEF rotated
  <2>3. durable'.attempts = durable.attempts
    BY <1>1, <2>1, <2>2 DEF LineageInv
  <2>4. PendingGranted' /\ InterruptedEarlier'
    BY <2>1 DEF PendingGranted, InterruptedEarlier
  <2>5. QED
    BY <1>2, <2>1, <2>3, <2>4 DEF HandStep
<1>5. CASE Open
  <2>1. /\ health' = health
        /\ \A k \in AttemptKeys :
              /\ durable'.attempts[k].gen = durable.attempts[k].gen
              /\ durable'.attempts[k].epoch = durable.attempts[k].epoch
              /\ durable'.attempts[k].revalidation = durable.attempts[k].revalidation
        /\ \/ UNCHANGED <<status, mem>>
           \/ status' = "up" /\ mem' = durable' /\ mem'.epoch = durable.epoch + 1
    BY <1>1, <1>5, OpenRecords
  <2>2. status = "down" /\ health = "ok"
    BY <1>1, <1>5 DEF Open, BootKnown
  <2>3. CASE UNCHANGED <<status, mem>>
    <3>1. PendingGranted' /\ InterruptedEarlier'
      BY <2>2, <2>3 DEF PendingGranted, InterruptedEarlier
    <3>2. QED
      BY <1>2, <2>1, <2>2, <3>1 DEF HandStep
  <2>4. CASE status' = "up" /\ mem' = durable' /\ mem'.epoch = durable.epoch + 1
    <3>1. ASSUME NEW k \in AttemptKeys PROVE mem'.attempts[k].epoch < mem'.epoch
      <4>1. /\ durable.attempts[k].epoch \in Nat /\ durable.epoch \in Nat
            /\ durable.attempts[k].epoch <= durable.epoch
        BY <1>1, OrderlyFacts
      <4>2. mem'.attempts[k].epoch = durable.attempts[k].epoch
        BY <2>1, <2>4
      <4>3. QED
        BY <2>4, <4>1, <4>2
    <3>2. InterruptedEarlier'
      BY <3>1 DEF InterruptedEarlier
    <3>3. CanAppend'
      BY <2>1, <2>2, <2>4 DEF CanAppend
    <3>4. Ready(mem')
      BY <1>1, <1>5, <3>3, OpenLineage
    <3>5. mem'.epoch \in Nat
      BY <1>1, <2>4, OrderlyFacts
    <3>6. \A k \in AttemptKeys : mem'.attempts[k].phase # "Authorized"
      BY <3>1, <3>4, <3>5 DEF Ready, InFlight
    <3>7. PendingGranted'
      BY <3>6 DEF PendingGranted, pending_directives
    <3>8. QED
      BY <1>2, <2>1, <2>2, <3>2, <3>7 DEF HandStep
  <2>5. QED
    BY <2>1, <2>3, <2>4
<1>6. QED
  BY <1>3, <1>4, <1>5

\* Every step of the composition does so.
LEMMA CoordinatorHand ==
    ASSUME Roomy, Advancing, HandInv,
           UNCHANGED vars \/ Reports \/ Requests \/ Close \/ Crash \/ Open
    PROVE  HandStep
<1>1. TypeOK
  BY DEF HandInv, LineageInv
<1>2. CASE UNCHANGED vars \/ Close \/ Crash \/ Open
  BY <1>2, RestartHand
<1>3. CASE Reports
  <2>1. PICK k \in AttemptKeys, yes \in BOOLEAN : RecordApplication(k, yes) \/ RecordVerification(k, yes)
    BY <1>3 DEF Reports
  <2>2. Served({}, IF yes THEN {k} ELSE {}, {})
    BY <1>1, <2>1, ReportServed
  <2>3. QED
    BY <2>2, ServedHand
<1>4. CASE Requests
  <2>1. PICK P, cs, ds : Served(P, cs, ds) /\ Licensed(cs, ds)
    BY <1>1, <1>4, RequestServed
  <2>2. QED
    BY <2>1, ServedHand DEF Licensed
<1>5. QED
  BY <1>2, <1>3, <1>4

\* What a worker has in hand it had before, or it claims it from a coordinator that
\* does nothing meanwhile; what comes into effect it had in hand.
LEMMA HandOrigins ==
    ASSUME ApplierTypeOK,
           UNCHANGED <<worker, effects, redone>> \/ \E w \in Workers : \E x : WorkerStep(w, x),
           NEW v \in Workers
    PROVE  /\ effects'[v] \subseteq effects[v] \cup InHand(v)
           /\ \A r \in Held(worker'[v]) :
                 \/ r \in InHand(v) /\ worker'[v].boot = worker[v].boot
                 \/ /\ UNCHANGED vars /\ Connected(v) /\ worker'[v].boot = worker[v].boot
                    /\ r.attempt \in pending_directives /\ r.gen = mem.attempts[r.attempt].gen
<1>1. CASE UNCHANGED <<worker, effects, redone>>
  BY <1>1 DEF InHand
<1>2. CASE \E w \in Workers : \E x : WorkerStep(w, x)
  <2>1. PICK w \in Workers : \E x : WorkerStep(w, x)
    BY <1>2
  <2>2. PICK x : WorkerStep(w, x)
    BY <2>1
  <2>3. worker' = [worker EXCEPT ![w] = x] /\ Comes(w, x) /\ EffectStep(w) /\ DOMAIN worker = Workers
    BY <2>2 DEF WorkerStep, ApplierTypeOK
  <2>4. CASE v # w
    <3>1. worker'[v] = worker[v] /\ effects'[v] = effects[v]
      BY <2>3, <2>4 DEF EffectStep
    <3>2. QED
      BY <3>1 DEF InHand
  <2>5. CASE v = w
    <3>1. worker'[v] = x /\ effects'[v] \subseteq effects[v] \cup InHand(v)
      BY <2>3, <2>5 DEF EffectStep
    <3>2. ASSUME NEW r \in Held(x)
          PROVE  \/ r \in InHand(w) /\ x.boot = worker[w].boot
                 \/ /\ UNCHANGED vars /\ Connected(w) /\ x.boot = worker[w].boot
                    /\ r.attempt \in pending_directives /\ r.gen = mem.attempts[r.attempt].gen
      BY <2>3 DEF Comes
    <3>3. QED
      BY <2>5, <3>1, <3>2
  <2>6. QED
    BY <2>4, <2>5
<1>3. QED
  BY <1>1, <1>2

\* What is in hand or in effect is a directive.
LEMMA HandType ==
    ASSUME ApplierTypeOK, NEW v \in Workers, NEW r \in InHand(v) \cup effects[v]
    PROVE  r \in Directive /\ r.attempt \in AttemptKeys /\ r.gen \in Nat
<1>1. worker[v].todo \in AtMost(ClaimLimit, Directive) /\ effects[v] \in SUBSET Directive
  BY DEF ApplierTypeOK
<1>2. InHand(v) \subseteq Directive
  BY <1>1 DEF InHand, Held, AtMost
<1>3. QED
  BY <1>1, <1>2 DEF Directive

\* Every step keeps the whole invariant.
LEMMA HandNext ==
    ASSUME Roomy, Advancing, HandInv, [ApplierNext]_avars
    PROVE  HandInv'
<1>1. /\ LineageInv /\ WorkInv /\ ApplierTypeOK /\ BootKnown /\ LoopInv /\ NoStaleDirective
      /\ WorkRemembered /\ PendingGranted /\ DeniedIsOver
  BY DEF HandInv, WorkInv
<1>2. /\ WorkInv' /\ [Next]_vars /\ BootStep
      /\ \A v \in Workers : worker'[v].boot <= durable.epoch
  BY <1>1, WorkNext
<1>3. LineageInv' /\ \A k \in AttemptKeys : Follows(durable.attempts[k], durable'.attempts[k])
  BY <1>1, <1>2, LineageNext DEF Kept
<1>4. /\ UNCHANGED vars \/ Reports \/ Requests \/ Close \/ Crash \/ Open
      /\ \/ UNCHANGED <<worker, effects, redone>>
         \/ \E w \in Workers : \E x : WorkerStep(w, x)
  BY <1>1, CompositionSteps
<1>5. HandStep
  BY <1>4, CoordinatorHand
<1>6. PendingGranted' /\ InterruptedEarlier'
  BY <1>5 DEF HandStep
<1>7. ASSUME NEW v \in Workers
      PROVE  /\ effects'[v] \subseteq effects[v] \cup InHand(v)
             /\ \A r \in Held(worker'[v]) :
                   \/ r \in InHand(v) /\ worker'[v].boot = worker[v].boot
                   \/ /\ UNCHANGED vars /\ Connected(v) /\ worker'[v].boot = worker[v].boot
                      /\ r.attempt \in pending_directives /\ r.gen = mem.attempts[r.attempt].gen
  BY <1>1, <1>4, HandOrigins
<1>8. /\ mem \in Orderly /\ durable \in Orderly /\ mem' \in Orderly /\ durable' \in Orderly
  BY <1>1, <1>3 DEF LineageInv
<1>9. WorkRemembered'
  <2> SUFFICES ASSUME NEW v \in Workers, NEW r \in Held(worker'[v]) \cup effects'[v]
               PROVE  Remembers(durable', r)
    BY DEF WorkRemembered, InHand, Remembers
  <2>1. CASE r \in InHand(v) \cup effects[v]
    <3>1. r.attempt \in AttemptKeys /\ r.gen \in Nat /\ Remembers(durable, r)
      BY <1>1, <2>1, HandType DEF WorkRemembered
    <3>2. QED
      BY <1>3, <1>8, <3>1, RemembersOn
  <2>2. CASE r \notin InHand(v) \cup effects[v]
    <3>1. /\ UNCHANGED vars /\ Connected(v)
          /\ r.attempt \in pending_directives /\ r.gen = mem.attempts[r.attempt].gen
      BY <1>7, <2>2
    <3>2. Remembers(durable, r)
      BY <1>1, <3>1 DEF PendingGranted, Connected, Remembers
    <3>3. durable' = durable
      BY <3>1 DEF vars
    <3>4. QED
      BY <3>2, <3>3
  <2>3. QED
    BY <2>1, <2>2
<1>10. NoStaleDirective'
  <2> SUFFICES ASSUME NEW v \in Workers, status' = "up", worker'[v].boot = mem'.epoch,
                      NEW i \in DOMAIN worker'[v].todo
               PROVE  LET d == worker'[v].todo[i]
                          a == mem'.attempts[d.attempt]
                      IN  a.gen > d.gen \/ (a.gen = d.gen /\ a.epoch = mem'.epoch)
    BY DEF NoStaleDirective, Connected
  <2>1. PICK r : r = worker'[v].todo[i]
    OBVIOUS
  <2>2. r \in Held(worker'[v])
    BY <2>1 DEF Held
  <2>3. status = "up" /\ mem'.epoch = mem.epoch
    <3>1. durable.epoch \in Nat /\ mem'.epoch \in Nat
      BY <1>8, OrderlyFacts
    <3>2. mem'.epoch <= durable.epoch
      BY <1>2
    <3>3. (status = "up" /\ mem'.epoch = mem.epoch) \/ mem'.epoch > durable.epoch
      BY <1>2 DEF BootStep
    <3>4. QED
      BY <3>1, <3>2, <3>3
  <2>4. CASE r \in InHand(v) /\ worker'[v].boot = worker[v].boot
    <3>1. Connected(v)
      BY <2>3, <2>4 DEF Connected
    <3>2. r.attempt \in AttemptKeys /\ r.gen \in Nat
      BY <1>1, <2>4, HandType
    <3>3. PICK j \in DOMAIN worker[v].todo : worker[v].todo[j] = r
      BY <2>4 DEF InHand, Held
    <3>4. PICK a : a = mem.attempts[r.attempt]
      OBVIOUS
    <3>5. PICK b : b = mem'.attempts[r.attempt]
      OBVIOUS
    <3>6. a.gen > r.gen \/ (a.gen = r.gen /\ a.epoch = mem.epoch)
      BY <1>1, <3>1, <3>3, <3>4 DEF NoStaleDirective
    <3>7. b.gen > a.gen \/ (b.gen = a.gen /\ b.epoch \in {a.epoch, mem.epoch})
      BY <1>5, <2>3, <3>2, <3>4, <3>5 DEF HandStep
    <3>8. a.gen \in Nat /\ b.gen \in Nat
      BY <1>8, <3>2, <3>4, <3>5, OrderlyFacts
    <3>9. b.gen > r.gen \/ (b.gen = r.gen /\ b.epoch = mem.epoch)
      BY <3>2, <3>6, <3>7, <3>8
    <3>10. QED
      BY <2>1, <2>3, <3>5, <3>9
  <2>5. CASE /\ UNCHANGED vars /\ Connected(v)
             /\ r.attempt \in pending_directives /\ r.gen = mem.attempts[r.attempt].gen
    <3>1. mem' = mem
      BY <2>5 DEF vars
    <3>2. mem.attempts[r.attempt].epoch = mem.epoch
      BY <1>1, <2>3, <2>5 DEF PendingGranted
    <3>3. QED
      BY <2>1, <2>5, <3>1, <3>2
  <2>6. QED
    BY <1>7, <2>2, <2>4, <2>5
<1>11. DeniedIsOver'
  <2> SUFFICES ASSUME NEW k \in AttemptKeys, durable'.attempts[k].revalidation = "NotApplied",
                      NEW v \in Workers,
                      [attempt |-> k, gen |-> durable'.attempts[k].gen] \in Held(worker'[v]) \cup effects'[v]
               PROVE  FALSE
    BY DEF DeniedIsOver, InHand
  <2>1. PICK b : b = durable'.attempts[k]
    OBVIOUS
  <2>2. PICK r : r = [attempt |-> k, gen |-> b.gen]
    OBVIOUS
  <2>3. r.attempt = k /\ r.gen = b.gen /\ b.revalidation = "NotApplied"
    BY <2>1, <2>2
  <2>4. r \in Held(worker'[v]) \cup effects'[v] /\ r \notin InHand(v) \cup effects[v]
    BY <1>5, <2>1, <2>2 DEF HandStep
  <2>5. /\ UNCHANGED vars /\ Connected(v)
        /\ r.attempt \in pending_directives /\ r.gen = mem.attempts[r.attempt].gen
    BY <1>7, <2>4
  <2>6. b = durable.attempts[k] /\ status = "up"
    BY <2>1, <2>5 DEF vars, Connected
  <2>7. b.gen > r.gen \/ b.revalidation = "None"
    BY <1>1, <2>3, <2>5, <2>6 DEF PendingGranted
  <2>8. b.gen \in Nat
    BY <1>8, <2>1, OrderlyFacts
  <2>9. QED
    BY <2>3, <2>7, <2>8
<1>12. QED
  BY <1>2, <1>3, <1>6, <1>9, <1>10, <1>11 DEF HandInv

\* Nobody has anything in hand or in effect at first.
LEMMA HandInit == ApplierInit => HandInv
<1> SUFFICES ASSUME ApplierInit PROVE HandInv
  OBVIOUS
<1>1. LineageInv
  BY AuthorityInit DEF ApplierInit, AuthorityInv
<1>2. WorkInv
  BY WorkInit
<1>3. /\ status = "down"
      /\ worker = [w \in Workers |-> NoWorker] /\ effects = [w \in Workers |-> {}]
  BY DEF ApplierInit, Init
<1>4. NoStaleDirective /\ PendingGranted /\ InterruptedEarlier
  BY <1>3 DEF NoStaleDirective, Connected, PendingGranted, InterruptedEarlier
<1>5. \A w \in Workers : InHand(w) = {} /\ effects[w] = {}
  BY <1>3, ExitedProcess DEF InHand
<1>6. WorkRemembered /\ DeniedIsOver
  BY <1>5 DEF WorkRemembered, DeniedIsOver
<1>7. QED
  BY <1>1, <1>2, <1>4, <1>6 DEF HandInv

\* While no record is evicted and the generations of a link do not go back, the
\* whole invariant holds.
LEMMA HandHolds ==
    ASSUME Roomy, Advancing
    PROVE  ApplierSpec => []HandInv
<1>1. HandInv /\ [ApplierNext]_avars => HandInv'
  BY HandNext
<1>2. QED
  BY <1>1, HandInit, PTL DEF ApplierSpec

\* README, invariant 6, as an applier sees it, for every number of workers, restarts
\* and claims: what a worker connected to the running coordinator has in hand was
\* granted by that coordinator.
THEOREM NoStaleDirectiveHolds ==
    ASSUME Roomy, Advancing
    PROVE  ApplierSpec => []NoStaleDirective
<1>1. HandInv => NoStaleDirective
  BY DEF HandInv
<1>2. ApplierSpec => []HandInv
  BY HandHolds
<1>3. QED
  BY <1>1, <1>2, PTL

\* include/lff/engine.hpp, ApplyDirective: whatever effect a worker has in place, its
\* grant is on the medium, or a newer generation's record in its slot, with grants
\* that failed half way and workers that outlive their coordinator.
THEOREM EffectHasGrantHolds ==
    ASSUME Roomy, Advancing
    PROVE  ApplierSpec => []EffectHasGrant
<1>1. HandInv => EffectHasGrant
  <2>1. PastGrant \cap {"Absent", "Evaluated", "Refused"} = {}
    BY DEF PastGrant, HoldsAuthority
  <2>2. QED
    BY <2>1 DEF HandInv, WorkRemembered, Remembers, EffectHasGrant
<1>2. ApplierSpec => []HandInv
  BY HandHolds
<1>3. QED
  BY <1>1, <1>2, PTL

\* A truthful verdict of NotApplied, given once the workers of earlier boots are gone,
\* stays true: no worker, killed and restarted at will, brings the effect about after
\* all.
THEOREM DeniedHasNoEffectHolds ==
    ASSUME Roomy, Advancing
    PROVE  ApplierSpec => []DeniedHasNoEffect
<1>1. HandInv => DeniedHasNoEffect
  BY DEF HandInv, DeniedIsOver, DeniedHasNoEffect, InEffect
<1>2. ApplierSpec => []HandInv
  BY HandHolds
<1>3. QED
  BY <1>1, <1>2, PTL

=============================================================================
