----------------------------- MODULE LineageProofs -----------------------------
(***************************************************************************)
(* Theorems about Lineage, for every set of records and every number of    *)
(* appends: what the files hold between any two steps, and that the store  *)
(* implements DurableLog.                                                  *)
(***************************************************************************)
EXTENDS Lineage, FiniteSetTheorems, SequenceTheorems, TLAPS

(***************************************************************************)
(* Replay of a contiguous journal.                                         *)
(***************************************************************************)

\* The records of a file lie at the positions that follow its base.
Placement(recs, base) == \A i \in DOMAIN recs : recs[i].seq = base + i

\* The watermark lies within what base and records span: the records beyond it
\* are a suffix.
LEMMA BeyondSuffix ==
    ASSUME NEW recs \in Seq(JournalRecord), NEW base \in Nat, NEW covers \in Nat,
           Placement(recs, base), base <= covers, covers <= base + Len(recs)
    PROVE  Beyond(recs, covers) = SubSeq(recs, covers - base + 1, Len(recs))
<1>1. Len(recs) \in Nat /\ DOMAIN recs = 1..Len(recs)
  OBVIOUS
<1>2. Skipped(recs, covers) = 1..(covers - base)
  BY <1>1 DEF Skipped, Placement
<1>3. Cardinality(1..(covers - base)) = covers - base
  <2>1. covers - base \in Nat
    OBVIOUS
  <2>2. QED
    BY <2>1, FS_Interval
<1>4. QED
  BY <1>2, <1>3 DEF Beyond

\* What a replay makes of a snapshot's state and a file.
Replayed(st, covers, recs) == st \o RecordsOf(Beyond(recs, covers))

\* Its length and contents.
LEMMA ReplayedProperties ==
    ASSUME NEW st \in Seq(Record), NEW covers \in Nat, Len(st) = covers,
           NEW recs \in Seq(JournalRecord), NEW base \in Nat,
           Placement(recs, base), base <= covers, covers <= base + Len(recs)
    PROVE  /\ Replayed(st, covers, recs) \in Seq(Record)
           /\ Len(Replayed(st, covers, recs)) = base + Len(recs)
           /\ \A i \in 1..(base + Len(recs)) :
                 Replayed(st, covers, recs)[i] = IF i <= covers THEN st[i]
                                                 ELSE recs[i - base].record
<1> DEFINE tail == Beyond(recs, covers)
           added == RecordsOf(tail)
           from == covers - base + 1
           to == Len(recs)
<1>1. to \in Nat /\ \A i \in 1..to : recs[i] \in JournalRecord
  OBVIOUS
<1>2. from \in Int /\ to \in Int /\ from \in Nat \ {0} /\ from <= to + 1
  BY <1>1
<1>3. \A i \in from..to : recs[i] \in JournalRecord
  BY <1>1, <1>2
<1>4. tail = SubSeq(recs, from, to)
  BY BeyondSuffix
<1> HIDE DEF from, to
<1>5. /\ SubSeq(recs, from, to) \in Seq(JournalRecord)
      /\ Len(SubSeq(recs, from, to)) = IF from <= to THEN to - from + 1 ELSE 0
      /\ \A i \in 1..(to - from + 1) : SubSeq(recs, from, to)[i] = recs[from + i - 1]
  BY <1>2, <1>3, SubSeqProperties
<1> HIDE DEF tail
<1>6. /\ tail \in Seq(JournalRecord) /\ Len(tail) = to - from + 1
      /\ \A i \in 1..Len(tail) : tail[i] = recs[from + i - 1]
  BY <1>2, <1>4, <1>5
<1>7. /\ added \in Seq(Record) /\ Len(added) = Len(tail)
      /\ \A i \in 1..Len(tail) : added[i] = tail[i].record
  <2>1. DOMAIN tail = 1..Len(tail) /\ Len(tail) \in Nat
    BY <1>6
  <2>2. \A i \in 1..Len(tail) : tail[i].record \in Record
    <3>1. \A i \in 1..Len(tail) : tail[i] \in JournalRecord
      BY <1>6, ElementOfSeq
    <3>2. QED
      BY <3>1 DEF JournalRecord
  <2>3. added = [i \in 1..Len(tail) |-> tail[i].record]
    BY <2>1 DEF RecordsOf
  <2>4. QED
    BY <2>1, <2>2, <2>3
<1>8. Replayed(st, covers, recs) = st \o added
  BY DEF Replayed, tail
<1> HIDE DEF added
<1>9. /\ st \o added \in Seq(Record)
      /\ Len(st \o added) = covers + Len(added)
      /\ \A i \in 1..(covers + Len(added)) : (st \o added)[i] =
            IF i <= covers THEN st[i] ELSE added[i - covers]
  <2>1. st \in Seq(Record) /\ added \in Seq(Record)
    BY <1>7
  <2>2. /\ st \o added \in Seq(Record)
        /\ Len(st \o added) = Len(st) + Len(added)
        /\ \A i \in 1..(Len(st) + Len(added)) : (st \o added)[i] =
              IF i <= Len(st) THEN st[i] ELSE added[i - Len(st)]
    BY ONLY <2>1, ConcatProperties
  <2>3. QED
    BY <2>2
<1>10. covers + Len(added) = base + Len(recs)
  BY <1>1, <1>6, <1>7 DEF from, to
<1>11. ASSUME NEW i \in 1..(base + Len(recs)), ~(i <= covers)
       PROVE  added[i - covers] = recs[i - base].record
  <2>1. i - covers \in 1..Len(tail) /\ from + (i - covers) - 1 = i - base
    BY <1>1, <1>6, <1>11 DEF from, to
  <2>2. QED
    BY <1>6, <1>7, <2>1
<1>12. QED
  BY <1>8, <1>9, <1>10, <1>11

\* An appended record is the next one a replay finds.
LEMMA ReplayedAppend ==
    ASSUME NEW st \in Seq(Record), NEW covers \in Nat, Len(st) = covers,
           NEW recs \in Seq(JournalRecord), NEW base \in Nat,
           Placement(recs, base), base <= covers, covers <= base + Len(recs),
           NEW r \in JournalRecord, r.seq = base + Len(recs) + 1
    PROVE  /\ Append(recs, r) \in Seq(JournalRecord)
           /\ Len(Append(recs, r)) = Len(recs) + 1
           /\ Placement(Append(recs, r), base)
           /\ Replayed(st, covers, Append(recs, r)) = Append(Replayed(st, covers, recs), r.record)
<1> DEFINE more == Append(recs, r)
           old == Replayed(st, covers, recs)
           new == Replayed(st, covers, more)
           n == base + Len(recs)
<1>1. Len(recs) \in Nat /\ n \in Nat
  OBVIOUS
<1>2. /\ more \in Seq(JournalRecord) /\ Len(more) = Len(recs) + 1
      /\ \A i \in 1..Len(recs) : more[i] = recs[i]
      /\ more[Len(recs) + 1] = r
  OBVIOUS
<1> HIDE DEF more
<1>3. Placement(more, base)
  <2> SUFFICES ASSUME NEW i \in DOMAIN more PROVE more[i].seq = base + i
    BY DEF Placement
  <2>1. i \in 1..(Len(recs) + 1)
    BY <1>2
  <2>2. CASE i = Len(recs) + 1
    BY <1>1, <1>2, <2>2
  <2>3. CASE i \in 1..Len(recs)
    BY <1>2, <2>3 DEF Placement
  <2>4. QED
    BY <1>1, <2>1, <2>2, <2>3
<1>4. /\ old \in Seq(Record) /\ Len(old) = n
      /\ \A i \in 1..n : old[i] = IF i <= covers THEN st[i] ELSE recs[i - base].record
  BY ReplayedProperties
<1>5. /\ new \in Seq(Record) /\ Len(new) = base + Len(more)
      /\ \A i \in 1..(base + Len(more)) :
            new[i] = IF i <= covers THEN st[i] ELSE more[i - base].record
  <2>1. covers <= base + Len(more)
    BY <1>1, <1>2
  <2>2. QED
    BY <1>2, <1>3, <2>1, ReplayedProperties
<1> HIDE DEF old, new
<1>6. base + Len(more) = n + 1
  BY <1>1, <1>2
<1>7. r.record \in Record
  BY DEF JournalRecord
<1>8. /\ Append(old, r.record) \in Seq(Record) /\ Len(Append(old, r.record)) = n + 1
      /\ \A i \in 1..n : Append(old, r.record)[i] = old[i]
      /\ Append(old, r.record)[n + 1] = r.record
  BY <1>1, <1>4, <1>7
<1>9. ASSUME NEW i \in 1..(n + 1) PROVE new[i] = Append(old, r.record)[i]
  <2>1. CASE i = n + 1
    <3>1. ~(i <= covers) /\ i - base = Len(recs) + 1
      BY <1>1, <2>1
    <3>2. QED
      BY <1>2, <1>5, <1>6, <1>8, <2>1, <3>1
  <2>2. CASE i # n + 1
    <3>1. i \in 1..n
      BY <1>1, <2>2
    <3>2. ~(i <= covers) => i - base \in 1..Len(recs)
      BY <1>1, <3>1
    <3>3. QED
      BY <1>2, <1>4, <1>5, <1>6, <1>8, <3>1, <3>2
  <2>3. QED
    BY <2>1, <2>2
<1>10. new = Append(old, r.record)
  BY <1>5, <1>6, <1>8, <1>9, SeqEqual
<1>11. QED
  BY <1>2, <1>3, <1>10 DEF more, old, new

\* With a snapshot of everything, a replay applies nothing.
LEMMA ReplayedCovered ==
    ASSUME NEW st \in Seq(Record), NEW covers \in Nat, Len(st) = covers,
           NEW recs \in Seq(JournalRecord), NEW base \in Nat,
           Placement(recs, base), covers = base + Len(recs)
    PROVE  Replayed(st, covers, recs) = st
<1>1. Len(recs) \in Nat /\ base <= covers
  OBVIOUS
<1>2. /\ Replayed(st, covers, recs) \in Seq(Record)
      /\ Len(Replayed(st, covers, recs)) = covers
      /\ \A i \in 1..covers : Replayed(st, covers, recs)[i] = st[i]
  BY <1>1, ReplayedProperties
<1>3. QED
  BY <1>2, SeqEqual

\* Nor does it if there are no records.
LEMMA ReplayedEmpty ==
    ASSUME NEW st \in Seq(Record), NEW covers \in Nat
    PROVE  Replayed(st, covers, <<>>) = st
<1>1. Skipped(<<>>, covers) = {}
  BY DEF Skipped
<1>2. Beyond(<<>>, covers) = <<>>
  BY <1>1, FS_EmptySet DEF Beyond
<1>3. RecordsOf(<<>>) = <<>>
  BY DEF RecordsOf
<1>4. QED
  BY <1>2, <1>3 DEF Replayed

\* Checksums do not take part.
LEMMA ReplayedAlike ==
    ASSUME NEW st, NEW covers \in Nat, NEW recs \in Seq(JournalRecord),
           NEW other \in Seq(JournalRecord), Len(other) = Len(recs),
           \A i \in 1..Len(recs) : /\ other[i].seq = recs[i].seq
                                   /\ other[i].record = recs[i].record
    PROVE  Replayed(st, covers, other) = Replayed(st, covers, recs)
<1> DEFINE k == Cardinality(Skipped(recs, covers)) + 1
           n == Len(recs)
           a == SubSeq(recs, k, n)
           b == SubSeq(other, k, n)
<1>1. DOMAIN recs = 1..n /\ DOMAIN other = 1..n /\ n \in Nat
  OBVIOUS
<1>2. Skipped(other, covers) = Skipped(recs, covers)
  BY <1>1 DEF Skipped
<1>3. Skipped(recs, covers) \subseteq 1..n
  BY <1>1 DEF Skipped
<1>4. k \in Nat \ {0}
  <2>1. IsFiniteSet(1..n)
    BY <1>1, FS_Interval
  <2>2. IsFiniteSet(Skipped(recs, covers))
    BY <1>3, <2>1, FS_Subset
  <2>3. Cardinality(Skipped(recs, covers)) \in Nat
    BY <2>2, FS_CardinalityType
  <2>4. QED
    BY <2>3
<1>5. \A i \in k..n : recs[i] \in JournalRecord /\ other[i] \in JournalRecord
  BY <1>1, <1>4
<1>6. Beyond(recs, covers) = a /\ Beyond(other, covers) = b
  BY <1>2 DEF Beyond
<1> HIDE DEF k, n
<1>7. /\ a \in Seq(JournalRecord) /\ b \in Seq(JournalRecord) /\ Len(a) = Len(b)
      /\ Len(a) = IF k <= n THEN n - k + 1 ELSE 0
      /\ \A i \in 1..(n - k + 1) : a[i] = recs[k + i - 1] /\ b[i] = other[k + i - 1]
  BY <1>1, <1>4, <1>5, SubSeqProperties
<1> HIDE DEF a, b
<1>8. Len(a) \in Nat /\ DOMAIN a = 1..Len(a) /\ DOMAIN b = 1..Len(a)
  BY <1>7, LenProperties
<1>9. \A i \in 1..Len(a) : b[i].record = a[i].record
  <2> SUFFICES ASSUME NEW i \in 1..Len(a) PROVE b[i].record = a[i].record
    OBVIOUS
  <2>1. i \in 1..(n - k + 1) /\ k + i - 1 \in 1..n
    BY <1>1, <1>4, <1>7
  <2>2. QED
    BY <1>7, <2>1 DEF n
<1>10. RecordsOf(b) = RecordsOf(a)
  BY <1>8, <1>9 DEF RecordsOf
<1>11. QED
  BY <1>6, <1>10 DEF Replayed

(***************************************************************************)
(* The inductive invariant.  Contiguous and MemoryMatchesMedium say        *)
(* nothing of a checkpoint half way and of the end of the journal of an    *)
(* open store, on which the next append and the next rotation rely.        *)
(***************************************************************************)

Underway ==
    proc = "up" =>
        /\ journal.file = "whole"
        /\ \/ journal.base + Len(journal.recs) = last
           \/ failed /\ journal.base + Len(journal.recs) = last + 1
        /\ pc # "idle" => ~failed /\ snap.covers = last /\ snap.state = state

LineageInv == TypeOK /\ Contiguous /\ MemoryMatchesMedium /\ Underway

\* The last position of a file whose records are in place.
LEMMA LastOfPlaced ==
    ASSUME NEW j \in Journal, Placement(j.recs, j.base)
    PROVE  /\ j.recs \in Seq(JournalRecord) /\ j.base \in Nat /\ Len(j.recs) \in Nat
           /\ LastOf(j) = j.base + Len(j.recs)
<1>1. j.recs \in Seq(JournalRecord) /\ j.base \in Nat
  BY DEF Journal
<1>2. Len(j.recs) \in Nat /\ DOMAIN j.recs = 1..Len(j.recs)
  BY <1>1
<1>3. CASE j.recs = <<>>
  BY <1>1, <1>3 DEF LastOf
<1>4. CASE j.recs # <<>>
  <2>1. Len(j.recs) \in DOMAIN j.recs
    BY <1>1, <1>2, <1>4
  <2>2. QED
    BY <1>1, <1>2, <1>4, <2>1 DEF LastOf, Placement
<1>5. QED
  BY <1>3, <1>4

\* What the invariant says of the files in terms of Replayed.
LEMMA FileFacts ==
    ASSUME TypeOK, Contiguous
    PROVE  /\ journal.recs \in Seq(JournalRecord) /\ Len(journal.recs) \in Nat
           /\ journal.base \in Nat /\ snap.covers \in Nat /\ snap.state \in Seq(Record)
           /\ Placement(journal.recs, journal.base)
           /\ LastOf(journal) = journal.base + Len(journal.recs)
           /\ OnMedium = Replayed(snap.state, snap.covers, journal.recs)
           /\ OnMedium \in Seq(Record)
           /\ journal.file = "whole" =>
                 /\ journal.base <= snap.covers
                 /\ snap.covers <= journal.base + Len(journal.recs)
                 /\ Len(OnMedium) = journal.base + Len(journal.recs)
           /\ journal.file # "whole" => journal.recs = <<>> /\ OnMedium = snap.state
<1>1. Placement(journal.recs, journal.base)
  BY DEF Contiguous, Placement
<1>2. /\ journal.recs \in Seq(JournalRecord) /\ Len(journal.recs) \in Nat
      /\ journal.base \in Nat
      /\ LastOf(journal) = journal.base + Len(journal.recs)
  BY <1>1, LastOfPlaced DEF TypeOK
<1>3. snap.covers \in Nat /\ snap.state \in Seq(Record) /\ Len(snap.state) = snap.covers
  BY DEF TypeOK, Contiguous
<1>4. OnMedium = Replayed(snap.state, snap.covers, journal.recs)
  BY DEF OnMedium, Folded, Replayed
<1>5. CASE journal.file = "whole"
  <2>1. journal.base <= snap.covers /\ snap.covers <= journal.base + Len(journal.recs)
    BY <1>2, <1>5 DEF Contiguous
  <2>2. /\ Replayed(snap.state, snap.covers, journal.recs) \in Seq(Record)
        /\ Len(Replayed(snap.state, snap.covers, journal.recs)) =
              journal.base + Len(journal.recs)
    BY <1>1, <1>2, <1>3, <2>1, ReplayedProperties
  <2>3. QED
    BY <1>1, <1>2, <1>3, <1>4, <1>5, <2>1, <2>2
<1>6. CASE journal.file # "whole"
  <2>1. journal.recs = <<>>
    BY <1>6 DEF Contiguous, NoJournal
  <2>2. OnMedium = snap.state
    BY <1>3, <1>4, <2>1, ReplayedEmpty
  <2>3. QED
    BY <1>1, <1>2, <1>3, <1>4, <1>6, <2>1, <2>2
<1>7. QED
  BY <1>5, <1>6

\* The invariant of the next state, from its files.
LEMMA InvFromFiles ==
    ASSUME TypeOK', Placement(journal'.recs, journal'.base),
           Len(snap'.state) = snap'.covers,
           journal'.file = "whole" =>
              /\ journal'.base <= snap'.covers
              /\ snap'.covers <= journal'.base + Len(journal'.recs),
           journal'.file # "whole" => journal' = [NoJournal EXCEPT !.file = journal'.file]
    PROVE  /\ Contiguous'
           /\ OnMedium' = Replayed(snap'.state, snap'.covers, journal'.recs)
<1>1. journal' \in Journal
  BY DEF TypeOK
<1>2. LastOf(journal') = journal'.base + Len(journal'.recs)
  BY <1>1, LastOfPlaced
<1>3. LastOf(journal)' = LastOf(journal')
  BY DEF LastOf
<1>4. \A i \in DOMAIN journal'.recs : journal'.recs[i].seq = journal'.base + i
  BY DEF Placement
<1>5. OnMedium' = Replayed(snap'.state, snap'.covers, journal'.recs)
  BY DEF OnMedium, Folded, Replayed
<1>6. QED
  BY <1>2, <1>3, <1>4, <1>5 DEF Contiguous

\* It holds initially.
LEMMA InvInit == Init => LineageInv
<1> SUFFICES ASSUME Init PROVE LineageInv
  OBVIOUS
<1>1. <<>> \in Seq(JournalRecord) /\ <<>> \in Seq(Record)
  OBVIOUS
<1>2. NoJournal \in Journal
  BY <1>1 DEF NoJournal, Journal
<1>3. TypeOK
  BY <1>1, <1>2 DEF Init, TypeOK
<1>4. QED
  BY <1>3 DEF Init, LineageInv, Contiguous, MemoryMatchesMedium, Underway, NoJournal

\* A record written behind the others is the last of the medium's.
LEMMA AppendedFacts ==
    ASSUME LineageInv, proc = "up", ~failed, NEW r \in Record,
           journal' = [journal EXCEPT !.recs = Append(@, Placed(r))], UNCHANGED snap
    PROVE  /\ journal' \in Journal
           /\ journal'.file = "whole" /\ journal'.base = journal.base
           /\ Placement(journal'.recs, journal'.base)
           /\ journal'.base + Len(journal'.recs) = last + 1
           /\ snap.covers <= last + 1 /\ journal.base <= snap.covers
           /\ Replayed(snap'.state, snap'.covers, journal'.recs) = Append(state, r)
<1>1. /\ journal.recs \in Seq(JournalRecord) /\ Len(journal.recs) \in Nat
      /\ journal.base \in Nat /\ snap.covers \in Nat /\ snap.state \in Seq(Record)
      /\ Placement(journal.recs, journal.base)
      /\ OnMedium = Replayed(snap.state, snap.covers, journal.recs)
      /\ journal.file = "whole" => /\ journal.base <= snap.covers
                                   /\ snap.covers <= journal.base + Len(journal.recs)
  BY FileFacts DEF LineageInv
<1>2. /\ journal.file = "whole" /\ journal.base + Len(journal.recs) = last
      /\ OnMedium = state /\ last \in Nat /\ Len(snap.state) = snap.covers
      /\ journal \in Journal
  BY DEF LineageInv, Underway, MemoryMatchesMedium, TypeOK, Contiguous
<1>3. /\ Placed(r) \in JournalRecord /\ Placed(r).seq = last + 1 /\ Placed(r).record = r
  BY <1>2 DEF Placed, JournalRecord
<1>4. /\ Append(journal.recs, Placed(r)) \in Seq(JournalRecord)
      /\ Len(Append(journal.recs, Placed(r))) = Len(journal.recs) + 1
      /\ Placement(Append(journal.recs, Placed(r)), journal.base)
      /\ Replayed(snap.state, snap.covers, Append(journal.recs, Placed(r))) = Append(state, r)
  <2> DEFINE new == Placed(r)
  <2>1. new \in JournalRecord /\ new.seq = journal.base + Len(journal.recs) + 1 /\ new.record = r
    BY <1>1, <1>2, <1>3
  <2> HIDE DEF new
  <2>2. /\ Append(journal.recs, new) \in Seq(JournalRecord)
        /\ Len(Append(journal.recs, new)) = Len(journal.recs) + 1
        /\ Placement(Append(journal.recs, new), journal.base)
        /\ Replayed(snap.state, snap.covers, Append(journal.recs, new)) =
              Append(Replayed(snap.state, snap.covers, journal.recs), new.record)
    <3> DEFINE st == snap.state
               covers == snap.covers
               recs == journal.recs
               base == journal.base
    <3>1. /\ st \in Seq(Record) /\ covers \in Nat /\ Len(st) = covers
          /\ recs \in Seq(JournalRecord) /\ base \in Nat
          /\ Placement(recs, base) /\ base <= covers /\ covers <= base + Len(recs)
          /\ new.seq = base + Len(recs) + 1
      BY <1>1, <1>2, <2>1
    <3> HIDE DEF st, covers, recs, base
    <3>2. /\ Append(recs, new) \in Seq(JournalRecord)
          /\ Len(Append(recs, new)) = Len(recs) + 1
          /\ Placement(Append(recs, new), base)
          /\ Replayed(st, covers, Append(recs, new)) =
                Append(Replayed(st, covers, recs), new.record)
      BY <2>1, <3>1, ReplayedAppend
    <3>3. QED
      BY <3>2 DEF st, covers, recs, base
  <2>3. QED
    BY <1>1, <1>2, <2>1, <2>2 DEF new
<1>5. /\ journal' \in Journal /\ journal'.recs = Append(journal.recs, Placed(r))
      /\ journal'.file = "whole" /\ journal'.base = journal.base
  BY <1>2, <1>4 DEF Journal
<1>6. journal'.base + Len(journal'.recs) = last + 1
  BY <1>1, <1>2, <1>4, <1>5
<1>7. snap.covers <= last + 1 /\ journal.base <= snap.covers
  BY <1>1, <1>2
<1>8. snap' = snap
  OBVIOUS
<1>9. QED
  BY <1>4, <1>5, <1>6, <1>7, <1>8, Zenon

\* Decay spoils checksums and nothing else.
LEMMA DecayKeeps ==
    ASSUME LineageInv, Decay
    PROVE  /\ TypeOK' /\ journal'.file = journal.file /\ journal'.base = journal.base
           /\ snap'.covers = snap.covers /\ snap'.state = snap.state
           /\ Len(journal'.recs) = Len(journal.recs)
           /\ \A i \in 1..Len(journal.recs) :
                 /\ journal'.recs[i].seq = journal.recs[i].seq
                 /\ journal'.recs[i].record = journal.recs[i].record
           /\ journal.recs = <<>> => journal' = journal
           /\ UNCHANGED <<staging, proc, memory>>
<1>1. /\ TypeOK /\ journal \in Journal /\ journal.recs \in Seq(JournalRecord)
      /\ UNCHANGED <<staging, proc, memory>>
  BY DEF LineageInv, TypeOK, Journal, Decay
<1>2. CASE snap' = [snap EXCEPT !.sound = FALSE] /\ UNCHANGED journal
  BY <1>1, <1>2 DEF TypeOK, memory
<1>3. CASE /\ \E i \in DOMAIN journal.recs :
                 journal' = [journal EXCEPT !.recs[i].sound = FALSE]
           /\ UNCHANGED snap
  <2>1. PICK i \in DOMAIN journal.recs : journal' = [journal EXCEPT !.recs[i].sound = FALSE]
    BY <1>3
  <2> DEFINE bad == [journal.recs[i] EXCEPT !.sound = FALSE]
             recs == [journal.recs EXCEPT ![i] = bad]
  <2>2. /\ i \in 1..Len(journal.recs) /\ journal.recs[i] \in JournalRecord
        /\ journal.recs # <<>>
    BY <1>1
  <2>3. bad \in JournalRecord /\ bad.seq = journal.recs[i].seq /\ bad.record = journal.recs[i].record
    BY <2>2 DEF JournalRecord
  <2>4. journal'.recs = recs /\ journal'.file = journal.file /\ journal'.base = journal.base
        /\ journal' = [journal EXCEPT !.recs = recs]
    BY <1>1, <2>1 DEF Journal
  <2> HIDE DEF bad
  <2>5. /\ recs \in Seq(JournalRecord) /\ Len(recs) = Len(journal.recs)
        /\ \A j \in 1..Len(journal.recs) : recs[j] = IF j = i THEN bad ELSE journal.recs[j]
    BY <1>1, <2>2, <2>3, ExceptSeq
  <2> HIDE DEF recs
  <2>6. journal' \in Journal
    BY <1>1, <2>4, <2>5 DEF Journal
  <2>7. TypeOK'
    BY <1>1, <1>3, <2>6 DEF TypeOK, memory
  <2>8. QED
    BY <1>1, <1>3, <2>2, <2>3, <2>4, <2>5, <2>7
<1>4. QED
  BY <1>2, <1>3 DEF Decay

\* Every step keeps it.
LEMMA InvNext == LineageInv /\ [Next]_vars => LineageInv'
<1> SUFFICES ASSUME LineageInv, [Next]_vars PROVE LineageInv'
  OBVIOUS
<1>1. /\ journal.recs \in Seq(JournalRecord) /\ Len(journal.recs) \in Nat
      /\ journal.base \in Nat /\ snap.covers \in Nat /\ snap.state \in Seq(Record)
      /\ Placement(journal.recs, journal.base)
      /\ LastOf(journal) = journal.base + Len(journal.recs)
      /\ OnMedium = Replayed(snap.state, snap.covers, journal.recs)
      /\ OnMedium \in Seq(Record)
      /\ journal.file = "whole" =>
            /\ journal.base <= snap.covers
            /\ snap.covers <= journal.base + Len(journal.recs)
            /\ Len(OnMedium) = journal.base + Len(journal.recs)
      /\ journal.file # "whole" => journal.recs = <<>> /\ OnMedium = snap.state
  BY FileFacts DEF LineageInv
<1>2. TypeOK /\ Len(snap.state) = snap.covers /\ Contiguous /\ MemoryMatchesMedium /\ Underway
  BY DEF LineageInv, Contiguous
<1>3. Repaired \in Journal /\ Repaired.recs = journal.recs /\ Repaired.base = journal.base
      /\ Repaired.file = journal.file /\ LastOf(Repaired) = LastOf(journal)
  BY <1>2 DEF Repaired, Replay, TypeOK, Journal, LastOf
<1>4. /\ \A n \in Nat : /\ NewJournal(n) \in Journal /\ NewJournal(n).file = "whole"
                        /\ NewJournal(n).base = n /\ NewJournal(n).recs = <<>>
                        /\ Placement(NewJournal(n).recs, n)
      /\ NoJournal \in Journal /\ [NoJournal EXCEPT !.file = "short"] \in Journal
      /\ <<>> \in Seq(JournalRecord) /\ Len(<<>>) = 0
  <2>1. <<>> \in Seq(JournalRecord) /\ Len(<<>>) = 0
    OBVIOUS
  <2>2. \A n \in Nat : /\ NewJournal(n) \in Journal /\ NewJournal(n).file = "whole"
                        /\ NewJournal(n).base = n /\ NewJournal(n).recs = <<>>
    BY <2>1 DEF NewJournal, Journal
  <2>3. \A n \in Nat : Placement(<<>>, n)
    BY DEF Placement
  <2>4. NoJournal \in Journal
    BY <2>1 DEF NoJournal, Journal
  <2>5. [NoJournal EXCEPT !.file = "short"] \in Journal
    BY <2>4 DEF Journal
  <2>6. QED
    BY <2>1, <2>2, <2>3, <2>4, <2>5
<1>5. ASSUME NEW repair \in BOOLEAN, OpenExisting(repair) PROVE LineageInv'
  <2>1. /\ journal' = Repaired /\ UNCHANGED snap /\ journal.file = "whole"
        /\ journal.base >= snap.covers
        /\ state' = Folded(Repaired.recs) /\ proc' = "up" /\ failed' = FALSE
        /\ pc' = "idle" /\ staging' = FALSE
        /\ last' = IF LastOf(Repaired) < snap.covers THEN snap.covers ELSE LastOf(Repaired)
    BY <1>5 DEF OpenExisting, BaseMatches
  <2>2. state' = OnMedium
    BY <1>3, <2>1 DEF OnMedium
  <2>3. last' = journal.base + Len(journal.recs)
    BY <1>1, <1>3, <2>1
  <2>4. TypeOK'
    <3>1. last' \in Nat /\ state' \in Seq(Record) /\ journal' \in Journal
      BY <1>1, <1>3, <2>1, <2>2, <2>3
    <3>2. QED
      BY <1>2, <2>1, <3>1 DEF TypeOK
  <2>5. Contiguous' /\ OnMedium' = Replayed(snap'.state, snap'.covers, journal'.recs)
    BY <1>1, <1>2, <1>3, <2>1, <2>4, InvFromFiles
  <2>6. MemoryMatchesMedium'
    BY <1>1, <1>3, <2>1, <2>2, <2>3, <2>5 DEF MemoryMatchesMedium
  <2>7. Underway'
    BY <1>3, <2>1, <2>3 DEF Underway
  <2>8. QED
    BY <2>4, <2>5, <2>6, <2>7 DEF LineageInv
<1>6. ASSUME NEW repair \in BOOLEAN, OpenCreates(repair) PROVE LineageInv'
  <2>1. /\ journal' = NewJournal(snap.covers) /\ UNCHANGED snap
        /\ last' = snap.covers /\ state' = snap.state
        /\ proc' = "up" /\ failed' = FALSE /\ pc' = "idle" /\ staging' = FALSE
    BY <1>6 DEF OpenCreates
  <2>2. TypeOK'
    BY <1>1, <1>2, <1>4, <2>1 DEF TypeOK
  <2>3. Contiguous' /\ OnMedium' = Replayed(snap'.state, snap'.covers, journal'.recs)
    BY <1>1, <1>2, <1>4, <2>1, <2>2, InvFromFiles
  <2>4. OnMedium' = snap.state
    BY <1>1, <1>4, <2>1, <2>3, ReplayedEmpty
  <2>5. MemoryMatchesMedium' /\ Underway'
    BY <1>1, <1>2, <1>4, <2>1, <2>4 DEF MemoryMatchesMedium, Underway
  <2>6. QED
    BY <2>2, <2>3, <2>5 DEF LineageInv
<1>7. ASSUME NEW repair \in BOOLEAN, OpenAborts(repair) PROVE LineageInv'
  <2>1. /\ \/ journal' = journal
           \/ journal.file = "whole" /\ journal' = Repaired
           \/ journal' \in {NoJournal, [NoJournal EXCEPT !.file = "short"]}
        /\ proc = "down" /\ staging' = FALSE /\ UNCHANGED <<snap, proc, memory>>
    BY <1>7 DEF OpenAborts
  <2>2. TypeOK'
    <3>1. journal' \in Journal
      BY <1>2, <1>3, <1>4, <2>1 DEF TypeOK
    <3>2. QED
      BY <1>2, <2>1, <3>1 DEF TypeOK, memory
  <2>3. CASE journal' = journal \/ (journal.file = "whole" /\ journal' = Repaired)
    <3>1. journal'.file # "whole" => journal' = [NoJournal EXCEPT !.file = journal'.file]
      BY <1>2, <1>3, <2>3 DEF Contiguous
    <3>2. Contiguous'
      BY <1>1, <1>2, <1>3, <2>1, <2>2, <2>3, <3>1, InvFromFiles
    <3>3. QED
      BY <2>1, <2>2, <3>2 DEF LineageInv, MemoryMatchesMedium, Underway
  <2>4. CASE journal' \in {NoJournal, [NoJournal EXCEPT !.file = "short"]}
    <3>1. /\ journal'.file # "whole" /\ journal'.recs = <<>>
          /\ journal' = [NoJournal EXCEPT !.file = journal'.file]
      <4>1. CASE journal' = NoJournal
        BY <4>1 DEF NoJournal
      <4>2. CASE journal' = [NoJournal EXCEPT !.file = "short"]
        BY <4>2 DEF NoJournal
      <4>3. QED
        BY <2>4, <4>1, <4>2
    <3>2. Placement(journal'.recs, journal'.base)
      BY <3>1 DEF Placement
    <3>3. Contiguous'
      BY <1>2, <2>1, <2>2, <3>1, <3>2, InvFromFiles
    <3>4. QED
      BY <2>1, <2>2, <3>3 DEF LineageInv, MemoryMatchesMedium, Underway
  <2>5. QED
    BY <2>1, <2>3, <2>4
<1>8. ASSUME NEW r \in Record, CanCommit, Commits(r), pc' = "idle" PROVE LineageInv'
  <2>1. /\ journal' = [journal EXCEPT !.recs = Append(@, Placed(r))]
        /\ last' = last + 1 /\ state' = Append(state, r)
        /\ UNCHANGED <<snap, staging, proc, failed>> /\ proc = "up" /\ ~failed
    BY <1>8 DEF Commits, CanCommit
  <2>2. /\ journal' \in Journal
        /\ journal'.file = "whole" /\ journal'.base = journal.base
        /\ Placement(journal'.recs, journal'.base)
        /\ journal'.base + Len(journal'.recs) = last + 1
        /\ snap.covers <= last + 1 /\ journal.base <= snap.covers
        /\ Replayed(snap'.state, snap'.covers, journal'.recs) = Append(state, r)
    BY <2>1, AppendedFacts
  <2>3. TypeOK'
    BY <1>2, <1>8, <2>1, <2>2 DEF TypeOK
  <2>4. Contiguous' /\ OnMedium' = state'
    BY <1>2, <2>1, <2>2, <2>3, InvFromFiles
  <2>5. Len(state') = last'
    BY <1>2, <2>1 DEF MemoryMatchesMedium, TypeOK
  <2>6. QED
    BY <1>8, <2>1, <2>2, <2>3, <2>4, <2>5 DEF LineageInv, MemoryMatchesMedium, Underway
<1>9. ASSUME NEW r \in Record, CanCommit, CommitFails(r), pc' = "idle" PROVE LineageInv'
  <2>1. /\ \/ journal' = journal \/ journal' = [journal EXCEPT !.torn = TRUE]
           \/ journal' = [journal EXCEPT !.recs = Append(@, Placed(r))]
        /\ failed' = TRUE
        /\ UNCHANGED <<snap, staging, proc, last, state>> /\ proc = "up" /\ ~failed
    BY <1>9 DEF CommitFails, CanCommit
  <2>2. /\ journal.file = "whole" /\ journal.base + Len(journal.recs) = last
        /\ OnMedium = state /\ Len(state) = last
    BY <1>2, <2>1 DEF Underway, MemoryMatchesMedium
  <2>3. CASE journal' = journal \/ journal' = [journal EXCEPT !.torn = TRUE]
    <3>1. /\ journal' \in Journal /\ journal'.file = "whole"
          /\ journal'.recs = journal.recs /\ journal'.base = journal.base
      BY <1>2, <2>2, <2>3 DEF TypeOK, Journal
    <3>2. TypeOK'
      BY <1>2, <1>9, <2>1, <3>1 DEF TypeOK
    <3>3. Contiguous' /\ OnMedium' = Replayed(snap'.state, snap'.covers, journal'.recs)
      BY <1>1, <1>2, <2>1, <2>2, <3>1, <3>2, InvFromFiles
    <3>4. OnMedium' = state'
      BY <1>1, <2>1, <2>2, <3>1, <3>3
    <3>5. QED
      BY <1>9, <2>1, <2>2, <3>1, <3>2, <3>3, <3>4
         DEF LineageInv, MemoryMatchesMedium, Underway
  <2>4. CASE journal' = [journal EXCEPT !.recs = Append(@, Placed(r))]
    <3>1. /\ journal' \in Journal
          /\ journal'.file = "whole" /\ journal'.base = journal.base
          /\ Placement(journal'.recs, journal'.base)
          /\ journal'.base + Len(journal'.recs) = last + 1
          /\ snap.covers <= last + 1 /\ journal.base <= snap.covers
          /\ Replayed(snap'.state, snap'.covers, journal'.recs) = Append(state, r)
      BY <2>1, <2>4, AppendedFacts
    <3>2. TypeOK'
      BY <1>2, <1>9, <2>1, <3>1 DEF TypeOK
    <3>3. Contiguous' /\ OnMedium' = Append(state', r)
      BY <1>2, <2>1, <3>1, <3>2, InvFromFiles
    <3>4. QED
      BY <1>9, <2>1, <2>2, <3>1, <3>2, <3>3 DEF LineageInv, MemoryMatchesMedium, Underway
  <2>5. QED
    BY <2>1, <2>3, <2>4
<1>10. ASSUME NEW r \in Payloads, Commit(r) PROVE LineageInv'
  <2>1. r \in Record /\ CanCommit /\ pc' = "idle" /\ (Commits(r) \/ CommitFails(r))
    BY <1>10 DEF Commit, Record
  <2>2. QED
    BY <1>8, <1>9, <2>1
<1>11. CASE RecordCompaction
  <2>1. /\ Compaction \in Record /\ CanCommit /\ pc' = "idle"
        /\ Commits(Compaction) \/ CommitFails(Compaction)
    BY <1>11 DEF RecordCompaction, Record
  <2>2. QED
    BY <1>8, <1>9, <2>1
<1>12. CASE WriteSnapshot
  <2>1. /\ snap' = [covers |-> last, state |-> state, sound |-> TRUE]
        /\ pc' = "snapshot" /\ proc = "up" /\ ~failed
        /\ UNCHANGED <<journal, staging, proc, last, state, failed>>
    BY <1>12 DEF WriteSnapshot
  <2>2. /\ journal.file = "whole" /\ journal.base + Len(journal.recs) = last
        /\ Len(state) = last
    BY <1>2, <2>1 DEF Underway, MemoryMatchesMedium
  <2>3. TypeOK'
    BY <1>2, <2>1 DEF TypeOK
  <2>4. Contiguous' /\ OnMedium' = Replayed(state, last, journal.recs)
    BY <1>1, <2>1, <2>2, <2>3, InvFromFiles
  <2>5. OnMedium' = state'
    BY <1>1, <1>2, <2>1, <2>2, <2>4, ReplayedCovered DEF TypeOK
  <2>6. QED
    BY <2>1, <2>2, <2>3, <2>4, <2>5 DEF LineageInv, MemoryMatchesMedium, Underway
<1>13. CASE Stage
  <2>1. /\ UNCHANGED <<journal, snap, proc, last, state>> /\ proc = "up" /\ pc = "snapshot"
        /\ staging' \in BOOLEAN
        /\ \/ pc' = "staged" /\ UNCHANGED failed
           \/ pc' = "idle" /\ failed' = TRUE
    BY <1>13 DEF Stage
  <2>2. OnMedium' = OnMedium /\ Contiguous'
    BY <1>2, <2>1 DEF OnMedium, Folded, Contiguous, LastOf
  <2>3. TypeOK'
    BY <1>2, <2>1 DEF TypeOK
  <2>4. QED
    BY <1>2, <2>1, <2>2, <2>3 DEF LineageInv, MemoryMatchesMedium, Underway
<1>14. CASE Rotate
  <2>1. /\ UNCHANGED <<snap, proc, last, state>> /\ proc = "up" /\ pc = "staged"
        /\ \/ /\ journal' = NewJournal(last) /\ staging' = FALSE
              /\ pc' = "rotated" /\ UNCHANGED failed
           \/ pc' = "idle" /\ failed' = TRUE /\ UNCHANGED <<journal, staging>>
    BY <1>14 DEF Rotate, Rotated
  <2>2. ~failed /\ snap.covers = last /\ snap.state = state /\ last \in Nat
    BY <1>2, <2>1 DEF Underway, TypeOK
  <2>3. CASE journal' = NewJournal(last) /\ staging' = FALSE
             /\ pc' = "rotated" /\ UNCHANGED failed
    <3>1. TypeOK'
      <4>1. journal' \in Journal
        BY <1>4, <2>2, <2>3
      <4>2. QED
        BY <1>2, <2>1, <2>3, <4>1 DEF TypeOK
    <3>2. Contiguous' /\ OnMedium' = Replayed(snap.state, snap.covers, <<>>)
      BY <1>2, <1>4, <2>1, <2>2, <2>3, <3>1, InvFromFiles
    <3>3. OnMedium' = state'
      BY <1>1, <2>1, <2>2, <3>2, ReplayedEmpty
    <3>4. QED
      BY <1>2, <1>4, <2>1, <2>2, <2>3, <3>1, <3>2, <3>3
         DEF LineageInv, MemoryMatchesMedium, Underway
  <2>4. CASE pc' = "idle" /\ failed' = TRUE /\ UNCHANGED <<journal, staging>>
    <3>1. OnMedium' = OnMedium /\ Contiguous'
      BY <1>2, <2>1, <2>4 DEF OnMedium, Folded, Contiguous, LastOf
    <3>2. TypeOK'
      BY <1>2, <2>1, <2>4 DEF TypeOK
    <3>3. QED
      BY <1>2, <2>1, <2>4, <3>1, <3>2 DEF LineageInv, MemoryMatchesMedium, Underway
  <2>5. QED
    BY <2>1, <2>3, <2>4
<1>15. CASE Stop
  <2>1. /\ UNCHANGED <<journal, snap, staging>> /\ proc' = "down"
        /\ last' = 0 /\ state' = <<>> /\ failed' = FALSE /\ pc' = "idle"
    BY <1>15 DEF Stop
  <2>2. TypeOK'
    <3>1. <<>> \in Seq(Record)
      OBVIOUS
    <3>2. state' \in Seq(Record)
      BY <2>1, <3>1
    <3>3. QED
      BY <1>2, <2>1, <3>2 DEF TypeOK
  <2>3. Contiguous'
    BY <1>2, <2>1 DEF Contiguous, LastOf
  <2>4. QED
    BY <2>1, <2>2, <2>3 DEF LineageInv, MemoryMatchesMedium, Underway
<1>16. CASE Decay
  <2>1. /\ TypeOK' /\ journal'.file = journal.file /\ journal'.base = journal.base
        /\ snap'.covers = snap.covers /\ snap'.state = snap.state
        /\ Len(journal'.recs) = Len(journal.recs)
        /\ \A i \in 1..Len(journal.recs) : /\ journal'.recs[i].seq = journal.recs[i].seq
                                           /\ journal'.recs[i].record = journal.recs[i].record
        /\ journal.recs = <<>> => journal' = journal
        /\ UNCHANGED <<staging, proc, memory>>
    BY <1>16, DecayKeeps DEF LineageInv
  <2>2. journal'.recs \in Seq(JournalRecord)
    BY <2>1 DEF TypeOK, Journal
  <2>3. Placement(journal'.recs, journal'.base)
    <3>1. DOMAIN journal'.recs = 1..Len(journal.recs) /\ DOMAIN journal.recs = 1..Len(journal.recs)
      BY <1>1, <2>1, <2>2
    <3>2. QED
      BY <1>1, <2>1, <3>1 DEF Placement
  <2>4. journal'.file # "whole" => journal' = [NoJournal EXCEPT !.file = journal'.file]
    BY <1>1, <1>2, <2>1 DEF Contiguous
  <2>5. Contiguous' /\ OnMedium' = Replayed(snap.state, snap.covers, journal'.recs)
    BY <1>1, <1>2, <2>1, <2>3, <2>4, InvFromFiles
  <2>6. OnMedium' = OnMedium
    BY <1>1, <2>1, <2>2, <2>5, ReplayedAlike
  <2>7. QED
    BY <1>2, <2>1, <2>5, <2>6 DEF LineageInv, MemoryMatchesMedium, Underway, memory
<1>17. CASE UNCHANGED vars
  BY <1>2, <1>17 DEF vars, LineageInv, TypeOK, Contiguous, MemoryMatchesMedium, Underway,
     OnMedium, Folded, LastOf
<1>18. QED
  BY <1>5, <1>6, <1>7, <1>10, <1>11, <1>12, <1>13, <1>14, <1>15, <1>16, <1>17 DEF Next

\* The invariant holds in every reachable state.
LEMMA InvHolds == Spec => []LineageInv
BY InvInit, InvNext, PTL DEF Spec

\* Type correctness: the files and the store keep their shapes, for every set of
\* records and any number of appends.
THEOREM LineageTyped == Spec => []TypeOK
BY InvHolds, PTL DEF LineageInv

\* Snapshot and journal together hold every position once, after every step of an
\* open, an append, a checkpoint or a crash.
THEOREM ContiguousHolds == Spec => []Contiguous
BY InvHolds, PTL DEF LineageInv

\* What the open store believes is what is on the medium, up to the one record of a
\* failed append.
THEOREM MemoryMatches == Spec => []MemoryMatchesMedium
BY InvHolds, PTL DEF LineageInv

(***************************************************************************)
(* Refinement.                                                             *)
(***************************************************************************)

\* The store starts as an empty log that is down.
LEMMA RefinesInit == Init => DL!Init
<1> SUFFICES ASSUME Init PROVE Log = <<>> /\ Mode = "down"
  BY DEF DL!Init
<1>1. /\ proc = "down" /\ journal = NoJournal
      /\ snap = [covers |-> 0, state |-> <<>>, sound |-> TRUE]
  BY DEF Init
<1>2. journal.recs = <<>> /\ snap.state = <<>> /\ snap.covers = 0
  BY <1>1 DEF NoJournal
<1>3. <<>> \in Seq(Record) /\ 0 \in Nat
  OBVIOUS
<1>4. OnMedium = Replayed(snap.state, snap.covers, journal.recs)
  BY DEF OnMedium, Folded, Replayed
<1>5. OnMedium = <<>>
  BY <1>2, <1>3, <1>4, ReplayedEmpty
<1>6. QED
  BY <1>1, <1>5 DEF Log, Mode

\* Every step of the store is a step of the log or leaves it as it was.
LEMMA RefinesNext ==
    ASSUME LineageInv, LineageInv', [Next]_vars
    PROVE  [DL!Next]_<<Log, Mode>>
<1> DEFINE Step == DL!Next \/ UNCHANGED <<Log, Mode>>
<1>1. TypeOK /\ TypeOK' /\ MemoryMatchesMedium
  BY DEF LineageInv
<1>2. proc \in {"down", "up"} /\ failed \in BOOLEAN /\ proc' \in {"down", "up"}
  BY <1>1 DEF TypeOK
<1>3. /\ journal.recs \in Seq(JournalRecord) /\ Len(journal.recs) \in Nat
      /\ snap.covers \in Nat /\ snap.state \in Seq(Record)
      /\ OnMedium = Replayed(snap.state, snap.covers, journal.recs)
      /\ journal.file # "whole" => OnMedium = snap.state
  BY FileFacts DEF LineageInv
<1>4. OnMedium' = Replayed(snap'.state, snap'.covers, journal'.recs)
  BY DEF OnMedium, Folded, Replayed
<1>5. Repaired.recs = journal.recs
  BY <1>1 DEF Repaired, Replay, TypeOK, Journal
<1>6. ASSUME NEW repair \in BOOLEAN, OpenExisting(repair) PROVE Step
  <2>1. state' = OnMedium /\ proc = "down" /\ proc' = "up" /\ failed' = FALSE
    BY <1>5, <1>6 DEF OpenExisting, OnMedium
  <2>2. DL!Start
    BY <2>1 DEF DL!Start, Log, Mode
  <2>3. QED
    BY <2>2 DEF DL!Next
<1>7. ASSUME NEW repair \in BOOLEAN, OpenCreates(repair) PROVE Step
  <2>1. state' = OnMedium /\ proc = "down" /\ proc' = "up" /\ failed' = FALSE
    BY <1>3, <1>7 DEF OpenCreates
  <2>2. DL!Start
    BY <2>1 DEF DL!Start, Log, Mode
  <2>3. QED
    BY <2>2 DEF DL!Next
<1>8. ASSUME NEW repair \in BOOLEAN, OpenAborts(repair) PROVE Step
  <2>1. /\ proc = "down" /\ proc' = "down" /\ snap' = snap
        /\ \/ journal' = journal \/ journal' = Repaired
           \/ journal.file # "whole" /\ journal' \in {NoJournal, [NoJournal EXCEPT !.file = "short"]}
    BY <1>8 DEF OpenAborts
  <2>2. CASE journal'.recs = journal.recs
    <3>1. OnMedium' = OnMedium
      BY <1>3, <1>4, <2>1, <2>2
    <3>2. QED
      BY <2>1, <3>1 DEF Log, Mode
  <2>3. CASE journal.file # "whole" /\ journal'.recs = <<>>
    <3>1. OnMedium' = OnMedium
      BY <1>3, <1>4, <2>1, <2>3, ReplayedEmpty
    <3>2. QED
      BY <2>1, <3>1 DEF Log, Mode
  <2>4. journal' \in {NoJournal, [NoJournal EXCEPT !.file = "short"]} => journal'.recs = <<>>
    BY DEF NoJournal
  <2>5. QED
    BY <1>5, <2>1, <2>2, <2>3, <2>4
<1>9. ASSUME NEW r \in Record, CanCommit, Commits(r) PROVE Step
  <2>1. DL!Append1(r)
    BY <1>9 DEF CanCommit, Commits, DL!Append1, Log, Mode
  <2>2. QED
    BY <2>1 DEF DL!Next
<1>10. ASSUME NEW r \in Record, CanCommit, CommitFails(r) PROVE Step
  <2>1. DL!Fail
    BY <1>10 DEF CanCommit, CommitFails, DL!Fail, Log, Mode
  <2>2. QED
    BY <2>1 DEF DL!Next
<1>11. ASSUME NEW r \in Payloads, Commit(r) PROVE Step
  BY <1>9, <1>10, <1>11 DEF Commit, Record
<1>12. CASE RecordCompaction
  BY <1>9, <1>10, <1>12 DEF RecordCompaction, Record
<1>13. CASE WriteSnapshot
  BY <1>13 DEF WriteSnapshot, Log, Mode
<1>14. ASSUME proc = "up", ~failed, UNCHANGED <<proc, state>>, failed' \in BOOLEAN PROVE Step
  <2>1. CASE failed'
    <3>1. DL!Fail
      BY <1>14, <2>1 DEF DL!Fail, Log, Mode
    <3>2. QED
      BY <3>1 DEF DL!Next
  <2>2. CASE ~failed'
    BY <1>14, <2>2 DEF Log, Mode
  <2>3. QED
    BY <2>1, <2>2
<1>15. CASE Stage \/ Rotate
  <2>1. proc = "up" /\ pc # "idle" /\ UNCHANGED <<proc, state>> /\ failed' \in BOOLEAN
    BY <1>2, <1>15 DEF Stage, Rotate
  <2>2. ~failed
    BY <2>1 DEF LineageInv, Underway
  <2>3. QED
    BY <1>14, <2>1, <2>2
<1>16. CASE Stop
  <2>1. /\ proc = "up" /\ proc' = "down" /\ journal' = journal /\ snap' = snap
    BY <1>16 DEF Stop
  <2>2. OnMedium' = OnMedium
    BY <1>3, <1>4, <2>1
  <2>3. OnMedium = state \/ (failed /\ \E r \in Record : OnMedium = Append(state, r))
    BY <1>1, <2>1 DEF MemoryMatchesMedium
  <2>4. DL!Stop
    BY <1>2, <2>1, <2>2, <2>3 DEF DL!Stop, Log, Mode
  <2>5. QED
    BY <2>4 DEF DL!Next
<1>17. CASE Decay
  <2>1. /\ TypeOK' /\ snap'.covers = snap.covers /\ snap'.state = snap.state
        /\ Len(journal'.recs) = Len(journal.recs)
        /\ \A i \in 1..Len(journal.recs) : /\ journal'.recs[i].seq = journal.recs[i].seq
                                           /\ journal'.recs[i].record = journal.recs[i].record
        /\ UNCHANGED <<proc, memory>>
    BY <1>17, DecayKeeps
  <2>2. journal'.recs \in Seq(JournalRecord)
    BY <2>1 DEF TypeOK, Journal
  <2>3. OnMedium' = OnMedium
    BY <1>3, <1>4, <2>1, <2>2, ReplayedAlike
  <2>4. QED
    BY <2>1, <2>3 DEF Log, Mode, memory
<1>18. CASE UNCHANGED vars
  BY <1>18 DEF vars, Log, Mode, OnMedium, Folded
<1>19. QED
  BY <1>6, <1>7, <1>8, <1>11, <1>12, <1>13, <1>15, <1>16, <1>17, <1>18 DEF Next

\* LineageStore implements DurableLog: through every open, failed append, torn
\* write, interrupted compaction, crash and damaged record, what a client of the
\* store sees is a log that loses, repeats and reorders nothing.
THEOREM Refinement == Spec => ImplementsDurableLog
BY InvHolds, RefinesInit, RefinesNext, PTL DEF Spec, ImplementsDurableLog, DL!Spec

=============================================================================
