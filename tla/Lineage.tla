-------------------------------- MODULE Lineage --------------------------------
(***************************************************************************)
(* The durable lineage as files: LineageStore (src/store.cpp) over the     *)
(* record journal (src/journal.cpp) and the atomically replaced snapshot   *)
(* (src/detail/fsutil.cpp).                                                *)
(*                                                                         *)
(* A DurableState is the fold of the records applied to it, so it is       *)
(* represented by the sequence of those records.  A file is represented by *)
(* what a reader can tell of it: absent, shorter than its header, or a     *)
(* header with complete records and perhaps a partial one at the end.      *)
(*                                                                         *)
(* The store is used under the engine's mutex; only the end of the process *)
(* can fall between the steps of a checkpoint.  A process that dies inside *)
(* an append is CommitFails followed by Stop.  A file may also decay: a    *)
(* record or the snapshot that is all there but fails its checksum.  What  *)
(* a rename did is taken to last, although no directory is ever synced.    *)
(*                                                                         *)
(* A definition whose name continues that of the next one after an         *)
(* underscore is a seeded fault of it, used to show that a property can    *)
(* fail.                                                                   *)
(***************************************************************************)
EXTENDS Integers, Sequences, FiniteSets

CONSTANTS
    Payloads,   \* records the engine appends
    Fences,     \* those of type Fence
    Compaction, \* the Checkpoint record
    MaxSeq      \* bound: records ever appended

ASSUME PayloadsAssumption == Fences \subseteq Payloads /\ Compaction \notin Payloads
ASSUME MaxSeqAssumption == MaxSeq \in Nat

Record == Payloads \cup {Compaction}

\* A journal record: its position, its content, the position a Fence payload claims
\* for itself, and whether its checksums match.
JournalRecord == [seq: Nat, record: Record, claims: Nat, sound: BOOLEAN]
Journal == [file: {"none", "short", "whole"}, base: Nat, recs: Seq(JournalRecord),
            torn: BOOLEAN]
NoJournal == [file |-> "none", base |-> 0, recs |-> <<>>, torn |-> FALSE]
NewJournal(base) == [file |-> "whole", base |-> base, recs |-> <<>>, torn |-> FALSE]

VARIABLES
    journal,   \* lineage.jrnl
    snap,      \* lineage.snap: [covers, state, sound]; covers 0 if there is none
    staging,   \* does a staging journal exist
    proc,      \* "up" while a LineageStore is open
    last,      \* its state.last_seq
    state,     \* its state
    failed,    \* its sticky failure flag
    pc         \* where its checkpoint() is

vars == <<journal, snap, staging, proc, last, state, failed, pc>>
memory == <<last, state, failed, pc>>

--------------------------------------------------------------------------------
(* Replay *)

\* The records a replay applies: it skips those up to the snapshot's watermark.
\* Positions ascend in a file, so that they are the first ones.
Skipped(recs, covers) == {i \in DOMAIN recs : recs[i].seq <= covers}
Beyond(recs, covers) == SubSeq(recs, Cardinality(Skipped(recs, covers)) + 1, Len(recs))

RecordsOf(recs) == [i \in DOMAIN recs |-> recs[i].record]

\* The DurableState that complete records make of the snapshot's.
Folded(recs) == snap.state \o RecordsOf(Beyond(recs, snap.covers))

\* What the medium holds, readable or not.
OnMedium == Folded(journal.recs)

LastOf(j) == IF j.recs = <<>> THEN j.base ELSE j.recs[Len(j.recs)].seq

\* JournalReader::replay: a complete record that fails a check refuses the whole
\* file; otherwise every complete record is kept, and only the rest is cut off.
Damaged(j) == {i \in DOMAIN j.recs : ~j.recs[i].sound}
Replay_EndsAtDamage(j) ==
    [refuses |-> FALSE,
     keeps |-> SubSeq(j.recs, 1, IF Damaged(j) = {} THEN Len(j.recs)
                                 ELSE (CHOOSE i \in Damaged(j) : TRUE) - 1)]
Replay(j) == [refuses |-> Damaged(j) # {}, keeps |-> j.recs]

\* apply_record refuses a Fence that does not claim its own position.
FencesInPlace ==
    \A i \in DOMAIN journal.recs :
        LET r == journal.recs[i] IN
        r.seq > snap.covers /\ r.record \in Fences => r.claims = r.seq

\* JournalWriter::open compares the header with the larger of base and watermark.
BaseMatches == journal.file = "whole" => journal.base >= snap.covers

--------------------------------------------------------------------------------
(* LineageStore::open.  It removes a staging file first and repairs a torn
   tail, if the caller asked for that, before it can still refuse. *)

\* Replay succeeds; whether the tail may be repaired is the caller's option.
ReplayAccepts(repair) ==
    /\ snap.sound
    /\ journal.file = "short" \/ journal.torn => repair
    /\ journal.file = "whole" => ~Replay(journal).refuses /\ FencesInPlace

\* The file a successful replay leaves.
Repaired == [journal EXCEPT !.torn = FALSE, !.recs = Replay(journal).keeps]

OpenExisting(repair) ==
    /\ proc = "down" /\ ReplayAccepts(repair)
    /\ journal.file = "whole" /\ BaseMatches
    /\ journal' = Repaired
    /\ last' = IF LastOf(Repaired) < snap.covers THEN snap.covers ELSE LastOf(Repaired)
    /\ state' = Folded(Repaired.recs)
    /\ proc' = "up" /\ failed' = FALSE /\ pc' = "idle" /\ staging' = FALSE
    /\ UNCHANGED snap

\* No journal, or one without a complete header: a new one starts at the
\* watermark.
OpenCreates(repair) ==
    /\ proc = "down" /\ ReplayAccepts(repair)
    /\ journal.file # "whole"
    /\ journal' = NewJournal(snap.covers)
    /\ last' = snap.covers /\ state' = snap.state
    /\ proc' = "up" /\ failed' = FALSE /\ pc' = "idle" /\ staging' = FALSE
    /\ UNCHANGED snap

\* The open fails, or the process dies in it.
OpenAborts(repair) ==
    /\ proc = "down"
    /\ \/ ~ReplayAccepts(repair) /\ UNCHANGED journal
       \/ /\ ReplayAccepts(repair) /\ journal.file = "whole"
          /\ journal' = Repaired
       \/ /\ ReplayAccepts(repair) /\ journal.file # "whole"
          /\ journal' \in {NoJournal, [NoJournal EXCEPT !.file = "short"]}
    /\ staging' = FALSE
    /\ UNCHANGED <<snap, proc, memory>>

--------------------------------------------------------------------------------
(* LineageStore::commit *)

\* The payload of a Fence is encoded before its position is known.
Placed(r) == [seq |-> last + 1, record |-> r, claims |-> 0, sound |-> TRUE]

CanCommit == proc = "up" /\ ~failed /\ last < MaxSeq

\* Memory is changed only once the record is on the medium.
Commits(r) ==
    /\ journal' = [journal EXCEPT !.recs = Append(@, Placed(r))]
    /\ last' = last + 1 /\ state' = Append(state, r)
    /\ UNCHANGED <<snap, staging, proc, failed>>

\* The append reports an error with none, a part, or all of the record written.
CommitFails_KeepsServing(r) ==
    /\ journal' \in {journal, [journal EXCEPT !.recs = Append(@, Placed(r))]}
    /\ UNCHANGED <<snap, staging, proc, last, state, failed>>
CommitFails(r) ==
    /\ journal' \in {journal, [journal EXCEPT !.torn = TRUE],
                     [journal EXCEPT !.recs = Append(@, Placed(r))]}
    /\ failed' = TRUE
    /\ UNCHANGED <<snap, staging, proc, last, state>>

Commit(r) ==
    /\ CanCommit /\ pc = "idle"
    /\ Commits(r) \/ CommitFails(r)
    /\ UNCHANGED pc

--------------------------------------------------------------------------------
(* LineageStore::checkpoint, step by step *)

\* The snapshot replaces the old one atomically.  A failed write changes nothing.
WriteSnapshot ==
    /\ proc = "up" /\ ~failed /\ pc = "idle"
    /\ snap' = [covers |-> last, state |-> state, sound |-> TRUE]
    /\ pc' = "snapshot"
    /\ UNCHANGED <<journal, staging, proc, last, state, failed>>

\* Close the writer, create the staging journal.
Stage ==
    /\ proc = "up" /\ pc = "snapshot"
    /\ \/ staging' = TRUE /\ pc' = "staged" /\ UNCHANGED failed
       \/ staging' \in BOOLEAN /\ pc' = "idle" /\ failed' = TRUE
    /\ UNCHANGED <<journal, snap, proc, last, state>>

\* Rename it over the journal; the new base is last_seq.
Rotated_FromOldBase(l) == NewJournal(journal.base)
Rotated_BeforeLast(l) == NewJournal(l - 1)
Rotated(l) == NewJournal(l)

Rotate ==
    /\ proc = "up" /\ pc = "staged"
    /\ \/ /\ journal' = Rotated(last) /\ staging' = FALSE
          /\ pc' = "rotated" /\ UNCHANGED failed
       \/ pc' = "idle" /\ failed' = TRUE /\ UNCHANGED <<journal, staging>>
    /\ UNCHANGED <<snap, proc, last, state>>

\* Reopen the writer and record the compaction.
RecordCompaction ==
    /\ CanCommit /\ pc = "rotated"
    /\ Commits(Compaction) \/ CommitFails(Compaction)
    /\ pc' = "idle"

\* close(), or the process dies.  Nothing in memory survives.
Stop ==
    /\ proc = "up"
    /\ proc' = "down" /\ last' = 0 /\ state' = <<>> /\ failed' = FALSE /\ pc' = "idle"
    /\ UNCHANGED <<journal, snap, staging>>

\* The medium decays, one item at a time.
Decay ==
    /\ snap.sound /\ Damaged(journal) = {}
    /\ \/ /\ snap.covers > 0 /\ snap' = [snap EXCEPT !.sound = FALSE]
          /\ UNCHANGED journal
       \/ /\ \E i \in DOMAIN journal.recs :
                journal' = [journal EXCEPT !.recs[i].sound = FALSE]
          /\ UNCHANGED snap
    /\ UNCHANGED <<staging, proc, memory>>

--------------------------------------------------------------------------------
Init ==
    /\ journal = NoJournal /\ snap = [covers |-> 0, state |-> <<>>, sound |-> TRUE]
    /\ staging = FALSE /\ proc = "down"
    /\ last = 0 /\ state = <<>> /\ failed = FALSE /\ pc = "idle"

Next ==
    \/ \E repair \in BOOLEAN :
          OpenExisting(repair) \/ OpenCreates(repair) \/ OpenAborts(repair)
    \/ \E r \in Payloads : Commit(r)
    \/ WriteSnapshot \/ Stage \/ Rotate \/ RecordCompaction \/ Stop \/ Decay

Spec == Init /\ [][Next]_vars

--------------------------------------------------------------------------------
(* Properties *)

\* Every variable has its shape.
TypeOK ==
    /\ journal \in Journal
    /\ snap \in [covers: Nat, state: Seq(Record), sound: BOOLEAN]
    /\ staging \in BOOLEAN /\ failed \in BOOLEAN
    /\ proc \in {"down", "up"} /\ pc \in {"idle", "snapshot", "staged", "rotated"}
    /\ last \in Nat /\ state \in Seq(Record)

\* The files never overlap or leave a gap: the snapshot holds one record per
\* position up to its watermark, the journal holds the positions from its base on,
\* and the base lies at or below the watermark, so that snapshot and journal
\* together hold every position exactly once.
Contiguous ==
    /\ Len(snap.state) = snap.covers
    /\ \A i \in DOMAIN journal.recs : journal.recs[i].seq = journal.base + i
    /\ journal.file = "whole" => /\ journal.base <= snap.covers
                                 /\ snap.covers <= LastOf(journal)
    /\ journal.file # "whole" => journal = [NoJournal EXCEPT !.file = journal.file]

\* The running store and the medium agree: what the store believes is what was
\* written, except for at most one last record, and that only after an append
\* failed.
MemoryMatchesMedium ==
    proc = "up" =>
        /\ Len(state) = last
        /\ \/ OnMedium = state
           \/ failed /\ \E r \in Record : OnMedium = Append(state, r)

\* The lineage and the mode of DurableLog, as a client of the store sees them.
Log == IF proc = "up" THEN state ELSE OnMedium
Mode == IF proc = "down" THEN "down" ELSE IF failed THEN "failed" ELSE "serving"

\* LineageStore implements DurableLog: no crash, torn write, failed append,
\* interrupted compaction or damaged record makes an open lose, duplicate or
\* reorder a record whose append succeeded (README, "Recovery rules").
DL == INSTANCE DurableLog WITH log <- Log, mode <- Mode
ImplementsDurableLog == DL!Spec

--------------------------------------------------------------------------------
(* What the repository says of itself that the code does not keep. *)

\* README, "Restart semantics": on open the store loads the committed lineage and
\* its fences.  A stopped lineage that nothing has damaged must therefore replay,
\* given leave to repair its tail.
FencesReplay ==
    proc = "down" /\ snap.sound /\ Damaged(journal) = {} => ReplayAccepts(TRUE)

\* checkpoint()'s comment: "A crash here leaves the previous journal segment plus
\* a snapshot that covers a prefix of it; replay skips the covered prefix."
CoveredPrefixSkipped == proc = "down" /\ ReplayAccepts(TRUE) => BaseMatches

=============================================================================
