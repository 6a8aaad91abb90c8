----------------------------- MODULE EvidenceProofs ----------------------------
(***************************************************************************)
(* Theorems about the engine's observations (Evidence), for any links,     *)
(* publishers, reports, policies and limits.                               *)
(***************************************************************************)
EXTENDS Evidence, SelectionProofs

--------------------------------------------------------------------------------
(* What the limits rest on *)

Shape ==
    /\ deployment \in DOMAIN Deployments
    /\ tick \in Nat /\ topology \in DOMAIN LinkGen
    /\ IsFiniteSet(table) /\ IsFiniteSet(Known)
    /\ \A s \in last : s.seq \in Nat
    /\ \A p \in Known : publishers[p] \in Boot
    /\ \A h \in table \cup heard :
          h.tick \in 0..tick /\ \E r \in Reports : h = Received(r, h.tick)

EvidenceInv == Shape /\ EntriesCounted /\ OnlyCurrentProcesses

--------------------------------------------------------------------------------
(* What the verdicts rest on *)

\* A publisher's processes differ in their epochs: a restarted publisher counts on
\* from the epoch it had.
OneProcessPerEpoch ==
    \A q, r \in Reports : q.pub = r.pub => (q.boot.inc = r.boot.inc <=> q.boot.epoch = r.boot.epoch)

\* The deployments the verdicts are about.
Regular == Roomy /\ IsFiniteSet(Reports) /\ OneProcessPerEpoch

\* A stamp is heard once.
HeardOnce ==
    \A g, h \in heard : <<g.link, g.pub, g.boot, g.seq>> = <<h.link, h.pub, h.boot, h.seq>> => g = h

\* The registry has the latest process of every publisher heard.
LatestProcess ==
    /\ \A h \in heard : h.pub \in Known /\ h.boot.epoch <= publishers[h.pub].epoch
    /\ \A p \in Known : \E h \in heard : h.pub = p /\ h.boot = publishers[p]

Present(h) == h.boot = publishers[h.pub]

\* last_observation_seq has the highest sequence heard from that process.
HighestSequence ==
    /\ \A s \in last : s.pub \in Known /\ \E h \in heard :
          Present(h) /\ <<h.link, h.pub, h.seq>> = <<s.link, s.pub, s.seq>>
    /\ \A h \in heard : Present(h) =>
          \E s \in last : s.link = h.link /\ s.pub = h.pub /\ s.seq >= h.seq

\* The table has the last words: not overtaken, and not superseded in their slot.
Stands(h) ==
    /\ Present(h) /\ ~Overtaken(h)
    /\ \A g \in heard :
          Slot(g) = Slot(h) /\ g.boot = h.boot => g.seq <= h.seq \/ Overtaken(g)

LastWords == table = {h \in heard : Stands(h)}

VerdictInv == HeardOnce /\ LatestProcess /\ HighestSequence /\ LastWords

--------------------------------------------------------------------------------
(* Lemmas *)

\* Replacing the one element of a slot, or adding to an empty one, counts as the
\* engine counts it.
LEMMA ReplaceCounted ==
  ASSUME NEW kept, IsFiniteSet(kept), NEW rest, NEW x, x \notin rest,
         rest = kept \/ \E e \in kept : rest = kept \ {e}
  PROVE  /\ IsFiniteSet(rest \cup {x})
         /\ Cardinality(kept) \in Nat
         /\ Cardinality(rest \cup {x}) = Cardinality(kept) + (IF rest = kept THEN 1 ELSE 0)
  <1>1. Cardinality(kept) \in Nat
    BY FS_CardinalityType
  <1>2. CASE rest = kept
    BY <1>1, <1>2, FS_AddElement
  <1>3. CASE rest # kept
    <2>1. PICK e \in kept : rest = kept \ {e}
      BY <1>3
    <2>2. IsFiniteSet(rest) /\ Cardinality(rest) = Cardinality(kept) - 1
      BY <2>1, FS_RemoveElement
    <2>3. IsFiniteSet(rest \cup {x}) /\ Cardinality(rest \cup {x}) = Cardinality(rest) + 1
      BY <2>2, FS_AddElement
    <2> QED BY <1>1, <1>3, <2>2, <2>3
  <1> QED BY <1>2, <1>3

\* Every report is one, and every deployment has its limits.
LEMMA ReportsTyped ==
  ASSUME deployment \in DOMAIN Deployments
  PROVE  /\ Reports \subseteq Report
         /\ {MaxAge, MaxPublishers, MaxEntries, MaxTick} \subseteq Nat
         /\ LinkGen \in Seq([Links -> Nat]) /\ LinkGen # <<>>
  BY EvidenceAssumption DEF Deployment, Reports, MaxAge, MaxPublishers, MaxEntries, MaxTick, LinkGen

\* A report is retained with all it said.
LEMMA ReceivedFields ==
  ASSUME NEW r, NEW t
  PROVE  /\ Received(r, t).link = r.link /\ Received(r, t).pub = r.pub
         /\ Received(r, t).boot = r.boot /\ Received(r, t).seq = r.seq
         /\ Received(r, t).says = r.says /\ Received(r, t).tick = t
         /\ Slot(Received(r, t)) = Slot(r)
  BY DEF Received, Slot

--------------------------------------------------------------------------------
(* The limits *)

\* An accepted report: who is known afterwards.
LEMMA RegisteredFacts ==
  ASSUME Shape, OnlyCurrentProcesses, NEW r \in Reports, Recognised(r), publishers' = Registered(r)
  PROVE  /\ Known' = Known \cup {r.pub}
         /\ publishers'[r.pub].inc = r.boot.inc
         /\ \A p \in Known' : publishers'[p] \in Boot
         /\ \A p \in Known : (~Restarts(r) \/ p # r.pub) => publishers'[p] = publishers[p]
         /\ Restarts(r) \/ r.pub \notin Known => publishers'[r.pub] = r.boot
  <1>1. r.boot \in Boot
    BY ReportsTyped DEF Shape, Report
  <1> QED BY <1>1 DEF Registered, Recognised, Restarts, Known, Shape

\* The registry stays within its limit.
LEMMA RegistryBounded ==
  ASSUME Shape, EntriesCounted, NEW r \in Reports, Recognised(r), Known' = Known \cup {r.pub},
         UNCHANGED deployment
  PROVE  IsFiniteSet(Known') /\ Cardinality(Known') <= MaxPublishers'
  <1>1. Cardinality(Known) \in Nat /\ MaxPublishers \in Nat /\ MaxPublishers' = MaxPublishers
    BY FS_CardinalityType, ReportsTyped DEF Shape, MaxPublishers
  <1>2. /\ IsFiniteSet(Known \cup {r.pub})
        /\ Cardinality(Known \cup {r.pub})
             = IF r.pub \in Known THEN Cardinality(Known) ELSE Cardinality(Known) + 1
    BY FS_AddElement DEF Shape
  <1>3. CASE r.pub \in Known
    BY <1>1, <1>2, <1>3 DEF EntriesCounted
  <1>4. CASE r.pub \notin Known
    BY <1>1, <1>2, <1>4 DEF Recognised
  <1> QED BY <1>3, <1>4

\* The counter follows the table.
LEMMA TableCounted ==
  ASSUME Shape, EntriesCounted, NEW r \in Reports, UNCHANGED deployment,
         (~Full(r) /\ Retains(r)) \/ (Full(r) /\ Overflows(r))
  PROVE  /\ IsFiniteSet(table') /\ entries' = Cardinality(table') /\ entries' <= MaxEntries'
         /\ \A e, f \in table' : Slot(e) = Slot(f) => e = f
         /\ \A e \in table' : e = Received(r, tick') \/ e \in Surviving(r, table)
  <1> DEFINE kept == Surviving(r, table)
             rest == {e \in kept : Slot(e) # Slot(r)}
             new == Received(r, tick')
  <1>1. kept \subseteq table
    BY DEF Surviving
  <1>2. /\ IsFiniteSet(kept) /\ Cardinality(kept) \in Nat /\ Cardinality(table) \in Nat
        /\ Cardinality(kept) <= Cardinality(table)
    BY <1>1, FS_Subset, FS_CardinalityType DEF Shape
  <1>3. MaxEntries \in Nat /\ MaxEntries' = MaxEntries
    BY ReportsTyped DEF Shape, MaxEntries
  <1>4. Slot(new) = Slot(r)
    BY ReceivedFields
  <1>5. entries = Cardinality(table) /\ entries <= MaxEntries
    BY DEF EntriesCounted
  <1>6. \A e, f \in kept : Slot(e) = Slot(f) => e = f
    BY <1>1 DEF EntriesCounted
  <1>7. CASE Full(r) /\ Overflows(r)
    <2>1. table' = kept /\ entries' = entries - (Cardinality(table) - Cardinality(kept))
      BY <1>7 DEF Overflows
    <2> HIDE DEF kept
    <2>2. entries' = Cardinality(kept)
      BY <1>2, <1>5, <2>1
    <2> QED BY <1>2, <1>3, <1>5, <1>6, <2>1, <2>2 DEF kept
  <1>8. CASE ~Full(r) /\ Retains(r)
    <2>1. /\ table' = rest \cup {new}
          /\ entries' = entries - (Cardinality(table) - Cardinality(kept))
                          + (IF rest = kept THEN 1 ELSE 0)
      BY <1>8 DEF Retains
    <2>2. rest = kept \/ \E e \in kept : rest = kept \ {e}
      BY <1>6
    <2>3. new \notin rest
      BY <1>4
    <2>4. rest = kept => entries - (Cardinality(table) - Cardinality(kept)) < MaxEntries
      <3>1. SUFFICES ASSUME rest = kept PROVE entries - (Cardinality(table) - Cardinality(kept)) < MaxEntries
        OBVIOUS
      <3>2. \A e \in kept : Slot(e) # Slot(r)
        BY <3>1
      <3>3. ~(entries - (Cardinality(table) - Cardinality(kept)) >= MaxEntries)
        BY <1>8, <3>2 DEF Full
      <3> HIDE DEF kept
      <3> QED BY <1>2, <1>3, <1>5, <3>3
    <2>5. \A e, f \in rest \cup {new} : Slot(e) = Slot(f) => e = f
      BY <1>4, <1>6
    <2>6. \A e \in rest \cup {new} : e = new \/ e \in kept
      OBVIOUS
    <2> HIDE DEF kept, rest, new
    <2>7. /\ IsFiniteSet(rest \cup {new})
          /\ Cardinality(rest \cup {new}) = Cardinality(kept) + (IF rest = kept THEN 1 ELSE 0)
      BY <1>2, <2>2, <2>3, ReplaceCounted
    <2>8. entries' = Cardinality(rest \cup {new}) /\ entries' <= MaxEntries
      BY <1>2, <1>3, <1>5, <2>1, <2>4, <2>7
    <2> QED BY <1>3, <2>1, <2>5, <2>6, <2>7, <2>8 DEF new, kept
  <1> QED BY <1>7, <1>8

\* What a delivery adds to what was heard.
LEMMA HeardFacts ==
  ASSUME NEW r, Publish(r)
  PROVE  /\ heard \subseteq heard' /\ heard' \subseteq heard \cup {Received(r, tick')}
         /\ \E h \in heard' : h = Received(r, h.tick)
  <1>1. CASE \E h \in heard : Received(r, h.tick) = h
    BY <1>1 DEF Publish
  <1>2. CASE ~\E h \in heard : Received(r, h.tick) = h
    <2>1. heard' = heard \cup {Received(r, tick')}
      BY <1>2 DEF Publish
    <2> QED BY <2>1, ReceivedFields
  <1> QED BY <1>1, <1>2

\* An accepted report keeps what the limits rest on.
LEMMA AcceptKeeps ==
  ASSUME EvidenceInv, NEW r \in Reports, Publish(r), Recognised(r), Advances(r),
         publishers' = Registered(r),
         (~Full(r) /\ Retains(r)) \/ (Full(r) /\ Overflows(r))
  PROVE  EvidenceInv'
  <1> USE DEF EvidenceInv
  <1>1. /\ Known' = Known \cup {r.pub}
        /\ publishers'[r.pub].inc = r.boot.inc
        /\ \A p \in Known' : publishers'[p] \in Boot
        /\ \A p \in Known : (~Restarts(r) \/ p # r.pub) => publishers'[p] = publishers[p]
    BY RegisteredFacts
  <1>2. UNCHANGED deployment /\ UNCHANGED topology /\ tick' = tick + 1 /\ tick \in Nat
    BY DEF Publish, Shape
  <1>3. Reports' = Reports /\ LinkGen' = LinkGen
    BY <1>2 DEF Reports, LinkGen
  <1>4. IsFiniteSet(Known') /\ Cardinality(Known') <= MaxPublishers'
    BY <1>1, <1>2, RegistryBounded
  <1>5. /\ IsFiniteSet(table') /\ entries' = Cardinality(table') /\ entries' <= MaxEntries'
        /\ \A e, f \in table' : Slot(e) = Slot(f) => e = f
        /\ \A e \in table' : e = Received(r, tick') \/ e \in Surviving(r, table)
    BY <1>2, TableCounted
  <1>6. /\ heard \subseteq heard' /\ heard' \subseteq heard \cup {Received(r, tick')}
        /\ \E h \in heard' : h = Received(r, h.tick)
    BY HeardFacts
  <1>7. \A e \in Surviving(r, table) : e \in table /\ (Restarts(r) => e.pub # r.pub)
    BY DEF Surviving
  <1>8. \A s \in last' : \/ s = [link |-> r.link, pub |-> r.pub, seq |-> r.seq]
                         \/ s \in last /\ (Restarts(r) => s.pub # r.pub)
    BY DEF Retains, Overflows, Surviving
  <1>9. EntriesCounted'
    BY <1>4, <1>5 DEF EntriesCounted
  <1>10. Shape'
    <2>1. \A s \in last' : s.seq \in Nat
      BY <1>8, <1>2, ReportsTyped DEF Shape, Report
    <2>2. \A h \in table' \cup heard' : h.tick \in 0..tick' /\ \E q \in Reports : h = Received(q, h.tick)
      <3> TAKE h \in table' \cup heard'
      <3>1. CASE h = Received(r, tick')
        BY <1>2, <3>1, ReceivedFields
      <3>2. CASE h \in table \cup heard
        BY <1>2, <3>2 DEF Shape
      <3> QED BY <1>5, <1>6, <1>7, <3>1, <3>2
    <2> QED BY <1>1, <1>2, <1>3, <1>4, <1>5, <2>1, <2>2 DEF Shape
  <1>11. OnlyCurrentProcesses'
    <2>1. ASSUME NEW e \in table' PROVE e.pub \in Known' /\ publishers'[e.pub].inc = e.boot.inc
      <3>1. CASE e = Received(r, tick')
        BY <1>1, <3>1, ReceivedFields
      <3>2. CASE e \in Surviving(r, table)
        <4>1. e \in table /\ (Restarts(r) => e.pub # r.pub)
          BY <1>7, <3>2
        <4>2. e.pub \in Known /\ publishers[e.pub].inc = e.boot.inc
          BY <4>1 DEF OnlyCurrentProcesses
        <4> QED BY <1>1, <4>1, <4>2
      <3> QED BY <1>5, <3>1, <3>2
    <2>2. ASSUME NEW s \in last'
          PROVE  \E e \in heard' : /\ e.link = s.link /\ e.pub = s.pub /\ e.seq = s.seq
                                   /\ e.pub \in Known' /\ publishers'[e.pub].inc = e.boot.inc
      <3>1. CASE s = [link |-> r.link, pub |-> r.pub, seq |-> r.seq]
        <4>1. PICK h \in heard' : h = Received(r, h.tick)
          BY <1>6
        <4>2. h.link = r.link /\ h.pub = r.pub /\ h.seq = r.seq /\ h.boot = r.boot
          BY <4>1, ReceivedFields
        <4> QED BY <1>1, <3>1, <4>2
      <3>2. CASE s \in last /\ (Restarts(r) => s.pub # r.pub)
        <4>1. PICK e \in heard : /\ e.link = s.link /\ e.pub = s.pub /\ e.seq = s.seq
                                 /\ e.pub \in Known /\ publishers[e.pub].inc = e.boot.inc
          BY <3>2 DEF OnlyCurrentProcesses
        <4> QED BY <1>1, <1>6, <3>2, <4>1
      <3> QED BY <1>8, <3>1, <3>2
    <2> QED BY <2>1, <2>2 DEF OnlyCurrentProcesses
  <1> QED BY <1>9, <1>10, <1>11

\* So does every other step: a refused report changes the clock and nothing else.
LEMMA EvidenceInvNext == ASSUME EvidenceInv, [Next]_vars PROVE EvidenceInv'
  <1> USE DEF EvidenceInv
  <1>1. ASSUME tables' = tables, UNCHANGED deployment, tick' \in Nat, tick <= tick',
               topology' \in DOMAIN LinkGen, heard \subseteq heard',
               \A h \in heard' : h \in heard \/ \E r \in Reports : h = Received(r, tick')
        PROVE  EvidenceInv'
    <2>1. /\ Reports' = Reports /\ LinkGen' = LinkGen /\ MaxEntries' = MaxEntries
          /\ MaxPublishers' = MaxPublishers /\ Known' = Known
          /\ UNCHANGED <<publishers, table, last, entries>>
      BY <1>1 DEF tables, Reports, LinkGen, MaxEntries, MaxPublishers, Known
    <2>2. \A h \in table' \cup heard' : h.tick \in 0..tick' /\ \E q \in Reports : h = Received(q, h.tick)
      <3> TAKE h \in table' \cup heard'
      <3>1. CASE h \in table \cup heard
        BY <1>1, <3>1 DEF Shape
      <3>2. CASE \E r \in Reports : h = Received(r, tick')
        BY <1>1, <3>2, ReceivedFields
      <3> QED BY <1>1, <2>1, <3>1, <3>2
    <2>3. Shape'
      BY <1>1, <2>1, <2>2 DEF Shape
    <2>4. EntriesCounted'
      BY <2>1 DEF EntriesCounted
    <2>5. OnlyCurrentProcesses'
      BY <1>1, <2>1 DEF OnlyCurrentProcesses
    <2> QED BY <2>3, <2>4, <2>5
  <1>2. ASSUME NEW r \in Reports, Publish(r) PROVE EvidenceInv'
    <2>1. CASE Recognised(r) /\ Advances(r)
      BY <1>2, <2>1, AcceptKeeps DEF Publish
    <2>2. CASE ~(Recognised(r) /\ Advances(r))
      <3>1. tables' = tables /\ UNCHANGED <<deployment, topology>> /\ tick' = tick + 1
        BY <1>2, <2>2 DEF Publish
      <3> QED BY <1>1, <1>2, <3>1, HeardFacts DEF Shape
    <2> QED BY <2>1, <2>2
  <1>3. ASSUME NEW t \in DOMAIN LinkGen, SetTopology(t) PROVE EvidenceInv'
    BY <1>1, <1>3 DEF SetTopology, Shape
  <1>4. CASE Request \/ UNCHANGED vars
    BY <1>1, <1>4 DEF Request, vars, tables, Shape
  <1>5. CASE Restart
    <2>1. UNCHANGED <<deployment, topology>> /\ LinkGen' = LinkGen /\ Known' = {}
      BY <1>5 DEF Restart, LinkGen, Known
    <2>2. /\ IsFiniteSet(table') /\ IsFiniteSet(Known')
          /\ Cardinality(table') = 0 /\ Cardinality(Known') = 0
      BY <1>5, <2>1, FS_EmptySet DEF Restart
    <2>3. MaxEntries' \in Nat /\ MaxPublishers' \in Nat
      BY <2>1, ReportsTyped DEF Shape, MaxEntries, MaxPublishers
    <2>4. Shape'
      BY <1>5, <2>1, <2>2 DEF Restart, Shape
    <2>5. EntriesCounted'
      BY <1>5, <2>2, <2>3 DEF Restart, EntriesCounted
    <2>6. OnlyCurrentProcesses'
      BY <1>5 DEF Restart, OnlyCurrentProcesses
    <2> QED BY <2>4, <2>5, <2>6
  <1> QED BY <1>2, <1>3, <1>4, <1>5 DEF Next

\* The engine starts with empty tables.
LEMMA EvidenceInvInit == ASSUME Init PROVE EvidenceInv
  <1>1. Known = {} /\ deployment \in DOMAIN Deployments
    BY DEF Init, Known
  <1>2. MaxEntries \in Nat /\ MaxPublishers \in Nat /\ 1 \in DOMAIN LinkGen
    BY <1>1, ReportsTyped
  <1>3. Shape
    BY <1>1, <1>2, FS_EmptySet DEF Init, Shape
  <1>4. EntriesCounted
    BY <1>1, <1>2, FS_EmptySet DEF Init, EntriesCounted
  <1>5. OnlyCurrentProcesses
    BY DEF Init, OnlyCurrentProcesses
  <1> QED BY <1>3, <1>4, <1>5 DEF EvidenceInv

\* The first invariant holds throughout.
LEMMA EvidenceInvHolds == Spec => []EvidenceInv
  BY EvidenceInvInit, EvidenceInvNext, PTL DEF Spec

\* The counter the limit is checked against is the number of entries retained, and
\* the limits hold, through replacements and restarts of publishers.
THEOREM EntriesAreCounted == Spec => []EntriesCounted
  BY EvidenceInvHolds, PTL DEF EvidenceInv

\* Nothing retained stems from a process its publisher has replaced.
THEOREM OnlyCurrentRetained == Spec => []OnlyCurrentProcesses
  BY EvidenceInvHolds, PTL DEF EvidenceInv

--------------------------------------------------------------------------------
(* The verdicts *)

\* The publishers and the slots of finitely many reports are finitely many.
LEMMA FinitelyMany ==
  ASSUME NEW R, IsFiniteSet(R)
  PROVE  IsFiniteSet({r.pub : r \in R}) /\ IsFiniteSet({Slot(r) : r \in R})
  <1>1. [r \in R |-> r.pub] \in Surjection(R, {r.pub : r \in R})
    BY DEF Surjection
  <1>2. [r \in R |-> Slot(r)] \in Surjection(R, {Slot(r) : r \in R})
    BY DEF Surjection
  <1> QED BY <1>1, <1>2, FS_Surjection

\* With room for everyone a report is refused neither by the registry
LEMMA RoomInRegistry ==
  ASSUME EvidenceInv, Regular, LatestProcess, NEW r \in Reports, r.pub \notin Known
  PROVE  Recognised(r)
  <1> DEFINE pubs == {q.pub : q \in Reports}
  <1>1. Known \subseteq pubs \ {r.pub}
    <2> SUFFICES ASSUME NEW p \in Known PROVE p \in pubs \ {r.pub}
      OBVIOUS
    <2>1. PICK h \in heard : h.pub = p
      BY DEF LatestProcess
    <2>2. PICK q \in Reports : h = Received(q, h.tick)
      BY DEF EvidenceInv, Shape
    <2>3. q.pub = p
      BY <2>1, <2>2, ReceivedFields
    <2> QED BY <2>3
  <1>2. IsFiniteSet(pubs) /\ Cardinality(pubs) \in Nat /\ Cardinality(pubs) <= MaxPublishers
    BY FinitelyMany, FS_CardinalityType DEF Regular, Roomy
  <1>3. r.pub \in pubs
    OBVIOUS
  <1>4. MaxPublishers \in Nat
    BY ReportsTyped DEF EvidenceInv, Shape
  <1> HIDE DEF pubs
  <1>5. IsFiniteSet(pubs \ {r.pub}) /\ Cardinality(pubs \ {r.pub}) = Cardinality(pubs) - 1
    BY <1>2, <1>3, FS_RemoveElement
  <1>6. Cardinality(Known) \in Nat /\ Cardinality(Known) <= Cardinality(pubs \ {r.pub})
    BY <1>1, <1>5, FS_Subset, FS_CardinalityType
  <1>7. Cardinality(Known) < MaxPublishers
    BY <1>2, <1>4, <1>5, <1>6
  <1> QED BY <1>7 DEF Recognised

\* ... nor by the table.
LEMMA RoomInTable ==
  ASSUME EvidenceInv, Regular, NEW r \in Reports
  PROVE  ~Full(r)
  <1> SUFFICES ASSUME Full(r) PROVE FALSE
    OBVIOUS
  <1> DEFINE kept == Surviving(r, table)
             slots == {Slot(q) : q \in Reports}
             f == [e \in kept |-> Slot(e)]
  <1>1. kept \subseteq table /\ \A e \in kept : Slot(e) # Slot(r)
    BY DEF Surviving, Full
  <1>2. entries - (Cardinality(table) - Cardinality(kept)) >= MaxEntries
    BY DEF Full
  <1>3. \A e \in table : Slot(e) \in slots
    <2> TAKE e \in table
    <2>1. PICK q \in Reports : e = Received(q, e.tick)
      BY DEF EvidenceInv, Shape
    <2>2. Slot(e) = Slot(q)
      BY <2>1, ReceivedFields
    <2> QED BY <2>2
  <1>4. f \in Injection(kept, slots \ {Slot(r)})
    BY <1>1, <1>3 DEF EvidenceInv, EntriesCounted, Injection, IsInjective
  <1>5. IsFiniteSet(slots) /\ Cardinality(slots) \in Nat /\ Cardinality(slots) <= MaxEntries
    BY FinitelyMany, FS_CardinalityType DEF Regular, Roomy
  <1>6. Slot(r) \in slots
    OBVIOUS
  <1>7. MaxEntries \in Nat
    BY ReportsTyped DEF EvidenceInv, Shape
  <1> HIDE DEF kept, slots, f
  <1>8. IsFiniteSet(slots \ {Slot(r)}) /\ Cardinality(slots \ {Slot(r)}) = Cardinality(slots) - 1
    BY <1>5, <1>6, FS_RemoveElement
  <1>9. Cardinality(kept) <= Cardinality(slots \ {Slot(r)})
    BY <1>4, <1>8, FS_Injection
  <1>10. /\ Cardinality(kept) \in Nat /\ Cardinality(table) \in Nat
         /\ entries = Cardinality(table)
    BY <1>1, FS_Subset, FS_CardinalityType DEF EvidenceInv, Shape, EntriesCounted
  <1> QED BY <1>2, <1>5, <1>7, <1>8, <1>9, <1>10

\* What was heard are reports, and of one publisher the epoch tells processes apart
\* as the incarnation does.
LEMMA Deliveries ==
  ASSUME EvidenceInv, Regular
  PROVE  /\ \A h \in heard : h.seq \in Nat /\ h.boot \in Boot /\ h.tick \in 0..tick
         /\ \A h \in heard, r \in Reports : h.pub = r.pub =>
               /\ h.boot = r.boot <=> h.boot.epoch = r.boot.epoch
               /\ h.boot = r.boot <=> h.boot.inc = r.boot.inc
         /\ \A h \in heard : \E r \in Reports : r.pub = h.pub /\ r.boot = h.boot
  <1>1. \A h \in heard : \E q \in Reports : /\ h.seq = q.seq /\ h.boot = q.boot /\ h.pub = q.pub
                                            /\ h.tick \in 0..tick
    <2> TAKE h \in heard
    <2>1. h.tick \in 0..tick /\ \E q \in Reports : h = Received(q, h.tick)
      BY DEF EvidenceInv, Shape
    <2>2. PICK q \in Reports : h = Received(q, h.tick)
      BY <2>1
    <2> QED BY <2>1, <2>2, ReceivedFields
  <1>2. \A q \in Reports : q.seq \in Nat /\ q.boot \in Boot
    BY ReportsTyped DEF EvidenceInv, Shape, Report
  <1>3. \A q, r \in Reports : q.pub = r.pub =>
           /\ q.boot = r.boot <=> q.boot.epoch = r.boot.epoch
           /\ q.boot = r.boot <=> q.boot.inc = r.boot.inc
    BY <1>2 DEF Regular, OneProcessPerEpoch, Boot
  <1> QED BY <1>1, <1>2, <1>3

\* A delivery is new by its stamp, or it changes nothing of what was heard.
LEMMA NewStamp ==
  ASSUME EvidenceInv, NEW r \in Reports, Consistent(r), Publish(r), HeardOnce
  PROVE  /\ HeardOnce'
         /\ \/ heard' = heard /\ \E h \in heard : h = Received(r, h.tick)
            \/ /\ heard' = heard \cup {Received(r, tick')}
               /\ \A g \in heard : <<g.link, g.pub, g.boot, g.seq>> # <<r.link, r.pub, r.boot, r.seq>>
  <1>1. CASE \E h \in heard : Received(r, h.tick) = h
    BY <1>1 DEF Publish, HeardOnce
  <1>2. CASE ~\E h \in heard : Received(r, h.tick) = h
    <2>1. heard' = heard \cup {Received(r, tick')}
      BY <1>2 DEF Publish
    <2>2. ASSUME NEW g \in heard, <<g.link, g.pub, g.boot, g.seq>> = <<r.link, r.pub, r.boot, r.seq>>
          PROVE  FALSE
      <3>1. g.says = r.says
        BY <2>2 DEF Consistent
      <3>2. PICK q \in Reports : g = Received(q, g.tick)
        BY DEF EvidenceInv, Shape
      <3>3. q.link = r.link /\ q.pub = r.pub /\ q.boot = r.boot /\ q.seq = r.seq /\ q.says = r.says
        BY <2>2, <3>1, <3>2, ReceivedFields
      <3>4. g = Received(r, g.tick)
        BY <3>2, <3>3 DEF Received
      <3> QED BY <1>2, <3>4
    <2>3. HeardOnce'
      BY <2>1, <2>2, ReceivedFields DEF HeardOnce
    <2> QED BY <2>1, <2>2, <2>3
  <1> QED BY <1>1, <1>2

\* A refused report comes from a process that was replaced, or is overtaken itself.
LEMMA RefusedKeeps ==
  ASSUME EvidenceInv, Regular, VerdictInv, NEW r \in Reports, Consistent(r), Publish(r),
         ~(Recognised(r) /\ Advances(r))
  PROVE  VerdictInv'
  <1>0. PICK new : new = Received(r, tick')
    OBVIOUS
  <1>1. UNCHANGED <<publishers, table, last, entries>> /\ Known' = Known
    BY DEF Publish, tables, Known
  <1>2. tick' = tick + 1 /\ tick \in Nat
    BY DEF Publish, EvidenceInv, Shape
  <1>3. /\ new.link = r.link /\ new.pub = r.pub /\ new.boot = r.boot /\ new.seq = r.seq
        /\ new.says = r.says /\ new.tick = tick' /\ Slot(new) = Slot(r)
    BY <1>0, ReceivedFields
  <1>4. r.seq \in Nat /\ r.boot \in Boot
    BY ReportsTyped DEF EvidenceInv, Shape, Report
  <1>5. \A h \in heard : h.seq \in Nat /\ h.boot \in Boot /\ h.tick \in 0..tick
    BY Deliveries
  <1>6. r.pub \in Known /\ publishers[r.pub] \in Boot
    <2>1. ASSUME r.pub \notin Known PROVE FALSE
      <3>1. Recognised(r) /\ ~Restarts(r)
        BY <2>1, RoomInRegistry DEF VerdictInv, Restarts
      <3>2. \A s \in last : s.pub \in Known
        BY DEF VerdictInv, HighestSequence
      <3>3. Advances(r)
        BY <2>1, <3>1, <3>2 DEF Advances, Surviving
      <3> QED BY <3>1, <3>3
    <2> QED BY <2>1 DEF EvidenceInv, Shape
  <1>7. PICK p \in heard : p.pub = r.pub /\ p.boot = publishers[r.pub]
    BY <1>6 DEF VerdictInv, LatestProcess
  <1>8. /\ publishers[r.pub] = r.boot <=> publishers[r.pub].epoch = r.boot.epoch
        /\ publishers[r.pub] = r.boot <=> publishers[r.pub].inc = r.boot.inc
    BY <1>7, Deliveries
  <1>9. ~Restarts(r)
    BY DEF Restarts, Recognised, Advances, Surviving
  <1>10. r.boot.epoch <= publishers[r.pub].epoch
    BY <1>4, <1>6, <1>8, <1>9 DEF Restarts, Boot
  <1>11. CASE heard' = heard
    BY <1>1, <1>11, NewStamp DEF VerdictInv, LatestProcess, HighestSequence, LastWords, Stands,
           Present, Overtaken
  <1>12. CASE /\ heard' = heard \cup {new}
              /\ \A g \in heard : <<g.link, g.pub, g.boot, g.seq>> # <<r.link, r.pub, r.boot, r.seq>>
    <2>1. r.boot = publishers[r.pub] =>
             \E h \in heard : h.boot = r.boot /\ h.pub = r.pub /\ h.link = r.link /\ h.seq > r.seq
      <3> SUFFICES ASSUME r.boot = publishers[r.pub]
                   PROVE  \E h \in heard : /\ h.boot = r.boot /\ h.pub = r.pub /\ h.link = r.link
                                           /\ h.seq > r.seq
        OBVIOUS
      <3>1. ~Advances(r)
        BY <1>6 DEF Recognised
      <3>2. PICK s \in last : s.link = r.link /\ s.pub = r.pub /\ ~(s.seq < r.seq)
        BY <1>9, <3>1 DEF Advances, Surviving
      <3>3. PICK h \in heard : Present(h) /\ <<h.link, h.pub, h.seq>> = <<s.link, s.pub, s.seq>>
        BY DEF VerdictInv, HighestSequence
      <3>4. h.boot = r.boot /\ h.pub = r.pub /\ h.link = r.link /\ ~(h.seq < r.seq)
        BY <3>2, <3>3 DEF Present
      <3>5. h.seq # r.seq
        BY <1>12, <3>4
      <3> QED BY <1>4, <1>5, <3>4, <3>5
    <2>2. \A h \in heard : Overtaken(h)' <=> Overtaken(h)
      BY <1>2, <1>3, <1>5, <1>12 DEF Overtaken
    <2>3. r.boot = publishers[r.pub] => Overtaken(new)'
      BY <1>2, <1>3, <1>5, <1>12, <2>1 DEF Overtaken
    <2>4. \A h \in heard : Stands(h)' <=> Stands(h)
      BY <1>1, <1>3, <1>12, <2>2, <2>3 DEF Stands, Present, Slot
    <2>5. ~Stands(new)'
      BY <1>1, <1>3, <2>3 DEF Stands, Present
    <2>6. LastWords'
      BY <1>1, <1>12, <2>4, <2>5 DEF VerdictInv, LastWords
    <2>7. LatestProcess'
      BY <1>1, <1>3, <1>6, <1>10, <1>12 DEF VerdictInv, LatestProcess
    <2>8. HighestSequence'
      <3>1. \A s \in last' : s.pub \in Known' /\ \E h \in heard' :
               Present(h)' /\ <<h.link, h.pub, h.seq>> = <<s.link, s.pub, s.seq>>
        BY <1>1, <1>12 DEF VerdictInv, HighestSequence, Present
      <3>2. ASSUME NEW h \in heard', Present(h)'
            PROVE  \E s \in last' : s.link = h.link /\ s.pub = h.pub /\ s.seq >= h.seq
        <4>1. CASE h \in heard
          BY <1>1, <3>2, <4>1 DEF VerdictInv, HighestSequence, Present
        <4>2. CASE h = new
          <5>1. PICK g \in heard : g.boot = r.boot /\ g.pub = r.pub /\ g.link = r.link /\ g.seq > r.seq
            BY <1>1, <1>3, <2>1, <3>2, <4>2 DEF Present
          <5>2. Present(g)
            BY <1>1, <1>3, <3>2, <4>2, <5>1 DEF Present
          <5>3. PICK s \in last : s.link = g.link /\ s.pub = g.pub /\ s.seq >= g.seq
            BY <5>2 DEF VerdictInv, HighestSequence
          <5>4. s.seq \in Nat /\ g.seq \in Nat
            BY <1>5 DEF EvidenceInv, Shape
          <5> QED BY <1>1, <1>3, <1>4, <4>2, <5>1, <5>3, <5>4
        <4> QED BY <1>12, <4>1, <4>2
      <3> QED BY <3>1, <3>2 DEF HighestSequence
    <2> QED BY <2>6, <2>7, <2>8, NewStamp DEF VerdictInv
  <1> QED BY <1>0, <1>11, <1>12, NewStamp DEF VerdictInv

\* An accepted report is the last word of its slot, and takes the place of the one
\* before, or of all the process before had said.
LEMMA AcceptedKeeps ==
  ASSUME EvidenceInv, Regular, VerdictInv, NEW r \in Reports, Consistent(r), Publish(r),
         Recognised(r), Advances(r)
  PROVE  VerdictInv'
  <1>0. PICK new : new = Received(r, tick')
    OBVIOUS
  <1> DEFINE mark == [link |-> r.link, pub |-> r.pub, seq |-> r.seq]
             Replaced(x) == Restarts(r) /\ x.pub = r.pub
  <1>1. publishers' = Registered(r) /\ Retains(r)
    BY RoomInTable DEF Publish
  <1>2. tick' = tick + 1 /\ tick \in Nat
    BY DEF Publish, EvidenceInv, Shape
  <1>3. /\ new.link = r.link /\ new.pub = r.pub /\ new.boot = r.boot /\ new.seq = r.seq
        /\ new.says = r.says /\ new.tick = tick' /\ Slot(new) = Slot(r)
    BY <1>0, ReceivedFields
  <1>4. r.seq \in Nat /\ r.boot \in Boot
    BY ReportsTyped DEF EvidenceInv, Shape, Report
  <1>5. \A h \in heard : h.seq \in Nat /\ h.boot \in Boot /\ h.tick \in 0..tick /\ h.pub \in Known
    BY Deliveries DEF VerdictInv, LatestProcess
  <1>6. /\ Known' = Known \cup {r.pub}
        /\ \A p \in Known : (~Restarts(r) \/ p # r.pub) => publishers'[p] = publishers[p]
        /\ Restarts(r) \/ r.pub \notin Known => publishers'[r.pub] = r.boot
    BY <1>1, RegisteredFacts DEF EvidenceInv
  <1>7. r.pub \in Known => publishers[r.pub] \in Boot
    BY DEF EvidenceInv, Shape
  <1>8. r.pub \in Known /\ ~Restarts(r) => publishers[r.pub] = r.boot
    <2> SUFFICES ASSUME r.pub \in Known, ~Restarts(r) PROVE publishers[r.pub] = r.boot
      OBVIOUS
    <2>1. publishers[r.pub].inc = r.boot.inc
      BY DEF Recognised
    <2>2. PICK p \in heard : p.pub = r.pub /\ p.boot = publishers[r.pub]
      BY DEF VerdictInv, LatestProcess
    <2> QED BY <2>1, <2>2, Deliveries
  <1>9. publishers'[r.pub] = r.boot
    BY <1>6, <1>8
  <1>10. \A h \in heard : h.pub = r.pub /\ Restarts(r) => h.boot # r.boot
    BY <1>4, <1>5, <1>7 DEF Restarts, VerdictInv, LatestProcess, Boot
  <1>11. \A h \in heard : Present(h)' <=> Present(h) /\ ~Replaced(h)
    BY <1>5, <1>6, <1>8, <1>9, <1>10 DEF Present
  <1>12. \A h \in heard : h.boot = r.boot /\ h.pub = r.pub /\ h.link = r.link => h.seq < r.seq
    <2> SUFFICES ASSUME NEW h \in heard, h.boot = r.boot, h.pub = r.pub, h.link = r.link
                 PROVE  h.seq < r.seq
      OBVIOUS
    <2>1. ~Restarts(r) /\ r.pub \in Known
      BY <1>5, <1>10
    <2>2. Present(h)
      BY <1>8, <2>1 DEF Present
    <2>3. PICK s \in last : s.link = h.link /\ s.pub = h.pub /\ s.seq >= h.seq
      BY <2>2 DEF VerdictInv, HighestSequence
    <2>4. s.seq < r.seq
      BY <2>1, <2>3 DEF Advances, Surviving
    <2>5. s.seq \in Nat /\ h.seq \in Nat
      BY <1>5 DEF EvidenceInv, Shape
    <2> QED BY <1>4, <2>3, <2>4, <2>5
  <1>13. heard' = heard \cup {new}
    <2>1. ~\E h \in heard : h = Received(r, h.tick)
      <3> SUFFICES ASSUME NEW h \in heard, h = Received(r, h.tick) PROVE FALSE
        OBVIOUS
      <3>1. h.boot = r.boot /\ h.pub = r.pub /\ h.link = r.link /\ h.seq = r.seq
        BY ReceivedFields
      <3> QED BY <1>4, <1>12, <3>1
    <2> QED BY <1>0, <2>1, NewStamp DEF VerdictInv
  <1>14. /\ \A h \in heard : Overtaken(h)' <=> Overtaken(h)
         /\ ~Overtaken(new)'
    <2>1. \A h \in heard : Overtaken(h)' <=> Overtaken(h)
      BY <1>2, <1>3, <1>5, <1>13 DEF Overtaken
    <2>2. ~Overtaken(new)'
      BY <1>3, <1>4, <1>5, <1>12, <1>13 DEF Overtaken
    <2> QED BY <2>1, <2>2
  <1>15. Stands(new)'
    BY <1>3, <1>4, <1>9, <1>12, <1>13, <1>14, <1>5 DEF Stands, Present, Slot
  <1>16. \A h \in heard : Stands(h)' <=> Stands(h) /\ ~Replaced(h) /\ Slot(h) # Slot(r)
    <2> TAKE h \in heard
    <2>1. ASSUME Stands(h)' PROVE Stands(h) /\ ~Replaced(h) /\ Slot(h) # Slot(r)
      <3>1. Stands(h) /\ ~Replaced(h)
        BY <1>11, <1>13, <1>14, <2>1 DEF Stands
      <3>2. ASSUME Slot(h) = Slot(r) PROVE FALSE
        <4>1. h.pub = r.pub /\ h.link = r.link
          BY <3>2 DEF Slot
        <4>2. h.boot = r.boot
          BY <1>9, <2>1, <4>1 DEF Stands, Present
        <4>3. new.seq <= h.seq
          BY <1>3, <1>13, <1>14, <2>1, <3>2, <4>2 DEF Stands
        <4> QED BY <1>3, <1>4, <1>5, <1>12, <4>1, <4>2, <4>3
      <3> QED BY <3>1, <3>2
    <2>2. ASSUME Stands(h), ~Replaced(h), Slot(h) # Slot(r) PROVE Stands(h)'
      BY <1>3, <1>11, <1>13, <1>14, <2>2 DEF Stands
    <2> QED BY <2>1, <2>2
  <1>17. /\ table' = {e \in table : ~Replaced(e) /\ Slot(e) # Slot(r)} \cup {new}
         /\ last' = {s \in last : ~Replaced(s) /\ ~(s.link = r.link /\ s.pub = r.pub)} \cup {mark}
    BY <1>0, <1>1 DEF Retains, Surviving
  <1>18. LastWords'
    BY <1>13, <1>15, <1>16, <1>17 DEF VerdictInv, LastWords
  <1>19. LatestProcess'
    <2>1. \A h \in heard' : h.pub \in Known' /\ h.boot.epoch <= publishers'[h.pub].epoch
      <3> TAKE h \in heard'
      <3>1. CASE h = new
        BY <1>3, <1>4, <1>6, <1>9, <3>1 DEF Boot
      <3>2. CASE h \in heard
        <4>1. h.pub \in Known /\ h.boot.epoch <= publishers[h.pub].epoch /\ h.boot \in Boot
          BY <1>5, <3>2 DEF VerdictInv, LatestProcess
        <4>2. CASE Replaced(h)
          BY <1>4, <1>6, <1>7, <1>9, <4>1, <4>2 DEF Restarts, Boot
        <4>3. CASE ~Replaced(h)
          BY <1>6, <4>1, <4>3
        <4> QED BY <4>2, <4>3
      <3> QED BY <1>13, <3>1, <3>2
    <2>2. \A p \in Known' : \E h \in heard' : h.pub = p /\ h.boot = publishers'[p]
      <3> TAKE p \in Known'
      <3>1. CASE p = r.pub
        BY <1>3, <1>9, <1>13, <3>1
      <3>2. CASE p # r.pub
        BY <1>6, <1>13, <3>2 DEF VerdictInv, LatestProcess
      <3> QED BY <3>1, <3>2
    <2> QED BY <2>1, <2>2 DEF LatestProcess
  <1>20. HighestSequence'
    <2>1. ASSUME NEW s \in last'
          PROVE  s.pub \in Known' /\ \E h \in heard' :
                    Present(h)' /\ <<h.link, h.pub, h.seq>> = <<s.link, s.pub, s.seq>>
      <3>1. CASE s = mark
        BY <1>3, <1>6, <1>9, <1>13, <3>1 DEF Present
      <3>2. CASE s \in last /\ ~Replaced(s)
        <4>1. PICK h \in heard : Present(h) /\ <<h.link, h.pub, h.seq>> = <<s.link, s.pub, s.seq>>
          BY <3>2 DEF VerdictInv, HighestSequence
        <4>2. s.pub \in Known
          BY <3>2 DEF VerdictInv, HighestSequence
        <4>3. Present(h)'
          BY <1>11, <3>2, <4>1
        <4> QED BY <1>6, <1>13, <4>1, <4>2, <4>3
      <3> QED BY <1>17, <3>1, <3>2
    <2>2. ASSUME NEW h \in heard', Present(h)'
          PROVE  \E s \in last' : s.link = h.link /\ s.pub = h.pub /\ s.seq >= h.seq
      <3>1. CASE h.link = r.link /\ h.pub = r.pub
        <4>1. h.seq <= r.seq
          <5>1. CASE h = new
            BY <1>3, <1>4, <5>1
          <5>2. CASE h \in heard
            <6>1. h.boot = r.boot
              BY <1>9, <2>2, <3>1 DEF Present
            <6> QED BY <1>4, <1>5, <1>12, <3>1, <5>2, <6>1
          <5> QED BY <1>13, <5>1, <5>2
        <4>2. h.seq \in Nat
          BY <1>3, <1>4, <1>5, <1>13
        <4>3. mark \in last' /\ mark.seq >= h.seq
          BY <1>4, <1>17, <4>1, <4>2
        <4> QED BY <3>1, <4>3
      <3>2. CASE ~(h.link = r.link /\ h.pub = r.pub)
        <4>1. h \in heard
          BY <1>3, <1>13, <3>2
        <4>2. Present(h) /\ ~Replaced(h)
          BY <1>11, <2>2, <4>1
        <4>3. PICK s \in last : s.link = h.link /\ s.pub = h.pub /\ s.seq >= h.seq
          BY <4>1, <4>2 DEF VerdictInv, HighestSequence
        <4> QED BY <1>17, <3>2, <4>2, <4>3
      <3> QED BY <3>1, <3>2
    <2> QED BY <2>1, <2>2 DEF HighestSequence
  <1> QED BY <1>18, <1>19, <1>20, NewStamp DEF VerdictInv

\* The other steps do not touch what was heard and retained, or empty it.
LEMMA VerdictInvNext ==
  ASSUME EvidenceInv, Regular, VerdictInv, [Next]_vars
  PROVE  VerdictInv'
  <1>1. ASSUME NEW r \in Reports, Consistent(r), Publish(r) PROVE VerdictInv'
    BY <1>1, RefusedKeeps, AcceptedKeeps
  <1>2. ASSUME UNCHANGED <<publishers, table, last, heard>> PROVE VerdictInv'
    BY <1>2 DEF VerdictInv, HeardOnce, LatestProcess, HighestSequence, LastWords, Stands, Present,
           Overtaken, Known
  <1>3. CASE Restart
    <2>1. Known' = {} /\ table' = {} /\ last' = {} /\ heard' = {}
      BY <1>3 DEF Restart, Known
    <2> QED BY <2>1 DEF VerdictInv, HeardOnce, LatestProcess, HighestSequence, LastWords
  <1> QED BY <1>1, <1>2, <1>3 DEF Next, SetTopology, Request, vars, tables

\* So does what the verdicts rest on, in the deployments it is stated for.
LEMMA VerdictInvHolds == Spec => [](EvidenceInv /\ (Regular => VerdictInv))
  <1>1. Init => (Regular => VerdictInv)
    <2> SUFFICES ASSUME Init PROVE VerdictInv
      OBVIOUS
    <2>1. Known = {} /\ table = {} /\ last = {} /\ heard = {}
      BY DEF Init, Known
    <2> QED BY <2>1 DEF VerdictInv, HeardOnce, LatestProcess, HighestSequence, LastWords
  <1>2. [Next]_vars => (Regular' => Regular)
    <2>1. [Next]_vars => UNCHANGED deployment
      BY DEF Next, Publish, SetTopology, Request, Restart, vars
    <2> QED BY <2>1 DEF Regular, Roomy, OneProcessPerEpoch, Reports, MaxPublishers, MaxEntries
  <1>3. EvidenceInv /\ (Regular => VerdictInv) /\ [Next]_vars => (EvidenceInv /\ (Regular => VerdictInv))'
    BY <1>2, EvidenceInvNext, VerdictInvNext
  <1> QED BY <1>1, <1>3, EvidenceInvInit, PTL DEF Spec

\* The publishers' last words are what the table holds and the engine may use.
LEMMA TestimonyIsTable ==
  ASSUME EvidenceInv, Regular, VerdictInv, NEW kind, NEW l
  PROVE  Testimony(kind, l) = {e \in Usable(kind, l) : Current(e)}
  <1>1. ASSUME NEW h \in heard PROVE Present(h) <=> \A g \in heard : g.pub = h.pub => g.boot.epoch <= h.boot.epoch
    <2>1. PICK p \in heard : p.pub = h.pub /\ p.boot = publishers[h.pub]
      BY DEF VerdictInv, LatestProcess
    <2>2. p.boot \in Boot /\ h.boot \in Boot
      BY Deliveries
    <2>3. h.boot.epoch <= p.boot.epoch
      BY <2>1 DEF VerdictInv, LatestProcess
    <2>4. h.boot = p.boot <=> h.boot.epoch = p.boot.epoch
      BY <2>1, Deliveries
    <2>5. ASSUME Present(h), NEW g \in heard, g.pub = h.pub PROVE g.boot.epoch <= h.boot.epoch
      BY <2>5 DEF Present, VerdictInv, LatestProcess
    <2>6. ASSUME \A g \in heard : g.pub = h.pub => g.boot.epoch <= h.boot.epoch PROVE Present(h)
      <3>1. p.boot.epoch = h.boot.epoch
        BY <2>1, <2>2, <2>3, <2>6 DEF Boot
      <3> QED BY <2>1, <2>4, <3>1 DEF Present
    <2> QED BY <2>5, <2>6
  <1>2. \A h \in heard : h \in table <=> Stands(h)
    BY DEF VerdictInv, LastWords
  <1>3. \A h \in heard : h.pub \in Known
    BY DEF VerdictInv, LatestProcess
  <1>4. table \subseteq heard
    BY DEF VerdictInv, LastWords
  <1>5. ASSUME NEW h \in heard, h.says.kind = kind, h.link = l
        PROVE  Stands(h) <=> /\ ~Overtaken(h)
                             /\ \A g \in heard : g.pub = h.pub =>
                                   /\ g.boot.epoch <= h.boot.epoch
                                   /\ g.link = l /\ g.says.kind = kind /\ g.boot = h.boot =>
                                         g.seq <= h.seq \/ Overtaken(g)
    BY <1>1, <1>5 DEF Stands, Slot
  <1>6. \A h \in heard : Stands(h) => publishers[h.pub].inc = h.boot.inc
    BY DEF Stands, Present
  <1>7. ASSUME NEW h \in heard
        PROVE  h \in Testimony(kind, l) <=> h \in {e \in Usable(kind, l) : Current(e)}
    BY <1>2, <1>3, <1>5, <1>6, <1>7 DEF Testimony, Usable
  <1>8. Testimony(kind, l) \subseteq heard /\ {e \in Usable(kind, l) : Current(e)} \subseteq heard
    BY <1>4 DEF Testimony, Usable
  <1> QED BY <1>7, <1>8

\* How evaluate_failure counts, in terms of the sets it counts.
LEMMA CountingAgrees ==
  ASSUME NEW S, IsFiniteSet(S), NEW F \in SUBSET S
  PROVE  /\ Cardinality(S) \in Nat /\ Cardinality(F) \in Nat
         /\ Cardinality(S) = 0 <=> S = {}
         /\ Cardinality(F) = Cardinality(S) <=> F = S
         /\ 2 * Cardinality(F) > Cardinality(S) <=> Cardinality(F) > Cardinality(S \ F)
         /\ 2 * Cardinality(F) > Cardinality(S) => F # {}
  <1>1. Cardinality(S) \in Nat /\ IsFiniteSet(F) /\ Cardinality(F) \in Nat
    BY FS_CardinalityType, FS_Subset
  <1>2. Cardinality(S) = 0 <=> S = {}
    BY FS_EmptySet
  <1>3. Cardinality(F) = Cardinality(S) <=> F = S
    BY FS_Subset
  <1>4. IsFiniteSet(S \ F) /\ Cardinality(S \ F) \in Nat
    BY FS_Subset, FS_CardinalityType
  <1>5. Cardinality(F \cup (S \ F)) = Cardinality(F) + Cardinality(S \ F) - Cardinality(F \cap (S \ F))
    BY <1>1, <1>4, FS_Union
  <1>6. F \cup (S \ F) = S /\ F \cap (S \ F) = {}
    OBVIOUS
  <1>7. Cardinality(S) = Cardinality(F) + Cardinality(S \ F)
    BY <1>1, <1>4, <1>5, <1>6, FS_EmptySet
  <1>8. F = {} => Cardinality(F) = 0
    BY FS_EmptySet
  <1> QED BY <1>1, <1>2, <1>3, <1>4, <1>7, <1>8

\* Failure is established if and only if the publishers' last words say so under the
\* policy (evaluate_failure), for every order, repetition and delay of deliveries
\* among processes that count on from the epoch of the one before.
THEOREM EstablishedAsTestified ==
  Spec => [](IsFiniteSet(Reports) /\ OneProcessPerEpoch => EstablishedByTestimony)
  <1>1. ASSUME EvidenceInv, Regular, VerdictInv PROVE EstablishedByTestimony
    <2> SUFFICES ASSUME NEW l \in Links
                 PROVE  LET said == {h \in Testimony("failure", l) :
                                        /\ h.says.confidence >= MinFailureConfidence
                                        /\ h.says.state # "Unknown"}
                            failed == {h \in said : ReportsFailure(h)}
                        IN  evaluate_failure(l) = "Established" <=>
                                /\ failed # {}
                                /\ IF Unanimous THEN failed = said
                                   ELSE Cardinality(failed) > Cardinality(said \ failed)
      BY DEF EstablishedByTestimony
    <2> DEFINE said == {h \in Testimony("failure", l) : /\ h.says.confidence >= MinFailureConfidence
                                                        /\ h.says.state # "Unknown"}
               failed == {h \in said : ReportsFailure(h)}
    <2>1. said = Qualified(l)
      BY <1>1, TestimonyIsTable DEF Qualified
    <2>2. Qualified(l) \subseteq table
      BY DEF Qualified, Usable
    <2>3. IsFiniteSet(said) /\ failed \subseteq said
      BY <1>1, <2>1, <2>2, FS_Subset DEF EvidenceInv, Shape
    <2>4. failed = {e \in Qualified(l) : ReportsFailure(e)}
      BY <2>1
    <2> DEFINE q == Cardinality(said)
               f == Cardinality(failed)
    <2>5. /\ q \in Nat /\ f \in Nat /\ (q = 0 <=> said = {}) /\ (f = q <=> failed = said)
          /\ 2 * f > q <=> f > Cardinality(said \ failed)
          /\ 2 * f > q => failed # {}
      <3> HIDE DEF said, failed
      <3> QED BY <2>3, CountingAgrees
    <2>6. evaluate_failure(l) = "Established"
            <=> q > 0 /\ IF Unanimous THEN f = q ELSE 2 * f > q
      <3> HIDE DEF said, failed
      <3>1. q = Cardinality(Qualified(l)) /\ f = Cardinality({e \in Qualified(l) : ReportsFailure(e)})
        BY <2>1, <2>4
      <3> HIDE DEF q, f
      <3> QED BY <2>5, <3>1 DEF evaluate_failure
    <2>7. evaluate_failure(l) = "Established"
            <=> /\ failed # {}
                /\ IF Unanimous THEN failed = said ELSE f > Cardinality(said \ failed)
      <3> HIDE DEF said, failed, q, f
      <3>1. CASE Unanimous
        BY <2>3, <2>5, <2>6, <3>1
      <3>2. CASE ~Unanimous
        <4>1. 2 * f > q => q > 0
          <5>1. 2 * f > q => said # {}
            BY <2>3, <2>5
          <5> QED BY <2>5, <5>1
        <4> QED BY <2>5, <2>6, <3>2, <4>1
      <3> QED BY <3>1, <3>2
    <2> QED BY <2>7
  <1>2. EvidenceInv /\ (Regular => VerdictInv)
          => (IsFiniteSet(Reports) /\ OneProcessPerEpoch => EstablishedByTestimony)
    <2>1. CASE Roomy
      BY <1>1, <2>1 DEF Regular
    <2>2. CASE ~Roomy
      BY <2>2 DEF EstablishedByTestimony
    <2> QED BY <2>1, <2>2
  <1> QED BY VerdictInvHolds, <1>2, PTL

\* An alternate is eligible, or disproven, only if there is current testimony of the
\* required confidence and all of it says so (candidate resolution and
\* assess_candidate), under the same conditions.
THEOREM AlternatesAsTestified ==
  Spec => [](IsFiniteSet(Reports) /\ OneProcessPerEpoch => AlternatesByTestimony)
  <1>1. ASSUME EvidenceInv, Regular, VerdictInv PROVE AlternatesByTestimony
    <2> SUFFICES ASSUME NEW l \in Links \ {Subject}
                 PROVE  LET said == {h.says.state : h \in {h \in Testimony("replacement", l) :
                                                              h.says.confidence >= MinConfidence}}
                            verdict == Assess(Resolved(l)).verdict
                        IN  /\ verdict = "Eligible" =>
                                  said = {"Up"} \/ (AllowsDegraded /\ said = {"Degraded"})
                            /\ verdict = "Disproven" =>
                                  said # {} /\ said \subseteq {"Degraded", "Down", "Unusable"}
      BY DEF AlternatesByTestimony
    <2> DEFINE qualified == {h \in Testimony("replacement", l) : h.says.confidence >= MinConfidence}
               said == {h.says.state : h \in qualified}
               c == Resolved(l)
    <2>1. qualified = {e \in Usable("replacement", l) : QualifiedReplacement(e)}
      BY <1>1, TestimonyIsTable DEF QualifiedReplacement
    <2>2. \A e \in Usable("replacement", l) : e.says.state \in States /\ e.says.confidence \in Nat
      <3> TAKE e \in Usable("replacement", l)
      <3>1. e \in table
        BY DEF Usable
      <3>2. PICK r \in Reports : e = Received(r, e.tick)
        BY <1>1, <3>1 DEF EvidenceInv, Shape
      <3>3. r \in Report
        BY <1>1, <3>2, ReportsTyped DEF EvidenceInv, Shape
      <3>4. e.says \in Content
        BY <3>2, <3>3, ReceivedFields DEF Report
      <3> QED BY <3>4 DEF Content
    <2>3. c.link = l /\ c.capacity = MinCapacity /\ c.adjacent
      BY DEF Resolved
    <2>4. ASSUME Assess(c).verdict \in {"Eligible", "Disproven"}
          PROVE  /\ For(c) \/ Against(c)
                 /\ \E best \in qualified : c.state = best.says.state /\ \A e \in qualified :
                       e.says.state = best.says.state
      <3>1. For(c) \/ Against(c)
        BY <2>4, AssessmentSound
      <3>2. /\ c.present /\ ~c.conflicted /\ c.freshness \notin {"PriorIncarnation", "Expired", "Future"}
            /\ ~(c.confidence < MinConfidence)
        BY <2>3, <3>1 DEF For, Against
      <3>3. Best(l) # {}
        BY <3>2 DEF Resolved
      <3> DEFINE best == CHOOSE e \in Best(l) : TRUE
      <3>4. best \in Best(l)
        BY <3>3
      <3>5. best \in Usable("replacement", l)
        BY <3>4 DEF Best
      <3>6. /\ c.conflicted = Conflicted(l, best) /\ c.state = best.says.state
            /\ c.freshness = (IF Current(best) THEN "Current" ELSE "Expired")
            /\ c.confidence = best.says.confidence
        BY <3>3 DEF Resolved
      <3> HIDE DEF best
      <3>7. Current(best)
        BY <3>2, <3>6
      <3>8. best.says.confidence >= MinConfidence
        BY <2>2, <3>2, <3>5, <3>6, SelectorAssumption
      <3>9. best \in qualified
        BY <2>1, <3>5, <3>7, <3>8 DEF QualifiedReplacement
      <3>10. ~Conflicted(l, best)
        BY <3>2, <3>6
      <3>11. \A e \in qualified : e.says.state = best.says.state
        BY <2>1, <3>10 DEF Conflicted
      <3> QED BY <3>1, <3>6, <3>9, <3>11
    <2>5. ASSUME Assess(c).verdict = "Eligible"
          PROVE  said = {"Up"} \/ (AllowsDegraded /\ said = {"Degraded"})
      <3>1. PICK best \in qualified : c.state = best.says.state /\ \A e \in qualified :
                                         e.says.state = best.says.state
        BY <2>4, <2>5
      <3>2. c.state \notin {"Unknown", "Down", "Unusable"} /\ (c.state = "Degraded" => AllowsDegraded)
        BY <2>5, AssessmentSound DEF For
      <3>3. best.says.state = "Up" \/ (AllowsDegraded /\ best.says.state = "Degraded")
        BY <2>1, <2>2, <3>1, <3>2 DEF States
      <3> QED BY <3>1, <3>3
    <2>6. ASSUME Assess(c).verdict = "Disproven"
          PROVE  said # {} /\ said \subseteq {"Degraded", "Down", "Unusable"}
      <3>1. PICK best \in qualified : c.state = best.says.state /\ \A e \in qualified :
                                         e.says.state = best.says.state
        BY <2>4, <2>6
      <3>2. Against(c)
        BY <2>6, AssessmentSound
      <3>3. c.state \in {"Degraded", "Down", "Unusable"}
        BY <2>3, <3>2, SelectorAssumption DEF Against
      <3> QED BY <3>1, <3>3
    <2> QED BY <2>5, <2>6
  <1>2. EvidenceInv /\ (Regular => VerdictInv)
          => (IsFiniteSet(Reports) /\ OneProcessPerEpoch => AlternatesByTestimony)
    <2>1. CASE Roomy
      BY <1>1, <2>1 DEF Regular
    <2>2. CASE ~Roomy
      BY <2>2 DEF AlternatesByTestimony
    <2> QED BY <2>1, <2>2
  <1> QED BY VerdictInvHolds, <1>2, PTL

=============================================================================
