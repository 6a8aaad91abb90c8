-------------------------------- MODULE Evidence -------------------------------
(***************************************************************************)
(* The engine's observations (src/engine.cpp): the publisher registry, the *)
(* failure and replacement evidence tables, their ageing by coordinator    *)
(* ticks, and what a failover request concludes from them about the        *)
(* subject (evaluate_failure) and about an alternate (candidate            *)
(* resolution, then Selector).                                             *)
(*                                                                         *)
(* Publishers reach the engine over sessions of their own, so reports      *)
(* arrive in any order, twice, late or never, and from a process the       *)
(* publisher has since replaced.  A publisher says one thing per stamp:    *)
(* (incarnation, epoch, link, sequence) determines the content.            *)
(*                                                                         *)
(* Publishers are numbers that stand for names in their order.  Requests   *)
(* that fail structural checks do not reach the tables.  A definition      *)
(* named X_... just above X is a seeded fault: X as a plausible bug would  *)
(* write it.                                                               *)
(***************************************************************************)
EXTENDS Selector

CONSTANTS
    Links,          \* the links observed
    MinFailureConfidence,   \* policy.min_failure_confidence
    Deployments     \* by name: what is fixed while the engine runs, and the bounds

Kinds == {"failure", "replacement"}

\* The publisher's process is its incarnation and epoch.
Boot == [inc: Nat, epoch: Nat]
Content == [kind: Kinds, gen: Nat, topo: Nat, state: States, confidence: Nat]
Report == [link: Links, pub: Nat, boot: Boot, seq: Nat, says: Content]

\* LinkGen[t][l] is the generation of l in topology t, 0 if it is absent.
Deployment ==
    [Reports: SUBSET Report,        \* what publishers may report
     LinkGen: Seq([Links -> Nat]),
     Unanimous: BOOLEAN,            \* policy.agreement: unanimous or strict majority
     MaxAge: Nat,                   \* policy.evidence_max_age_ticks
     MaxPublishers: Nat,            \* EngineLimits::max_tracked_publishers
     MaxEntries: Nat,               \* EngineLimits::max_evidence_entries
     MaxTick: Nat]                  \* bound: ticks explored

ASSUME EvidenceAssumption ==
    /\ Links \subseteq Nat /\ MinFailureConfidence \in Nat
    /\ \A d \in DOMAIN Deployments :
          Deployments[d] \in Deployment /\ Deployments[d].LinkGen # <<>>

VARIABLES
    deployment,  \* the name of the deployment
    publishers,  \* registry: the boot last accepted, per known publisher
    table,       \* retained evidence of both kinds
    last,        \* last_observation_seq: [link, pub, seq]
    entries,     \* evidence_entries, the counter the limit is checked against
    tick,
    topology,
    heard        \* history: every report delivered, with the tick it first arrived

vars == <<deployment, publishers, table, last, entries, tick, topology, heard>>
tables == <<publishers, table, last, entries>>

Reports == Deployments[deployment].Reports
LinkGen == Deployments[deployment].LinkGen
Unanimous == Deployments[deployment].Unanimous
MaxAge == Deployments[deployment].MaxAge
MaxPublishers == Deployments[deployment].MaxPublishers
MaxEntries == Deployments[deployment].MaxEntries
MaxTick == Deployments[deployment].MaxTick

--------------------------------------------------------------------------------
(* publish_failure_report and publish_replacement_report differ in the table
   they write; registry and sequence are shared. *)

Known == DOMAIN publishers

\* The report comes from a later process of a known publisher.
Restarts(r) ==
    /\ r.pub \in Known /\ publishers[r.pub].inc # r.boot.inc
    /\ r.boot.epoch > publishers[r.pub].epoch

Recognised(r) ==
    IF r.pub \in Known THEN publishers[r.pub].inc = r.boot.inc \/ Restarts(r)
    ELSE Cardinality(Known) < MaxPublishers

\* What a publisher's earlier process reported is retired.
Surviving_OnThisLink(r, S) ==
    IF Restarts(r) THEN {e \in S : ~(e.pub = r.pub /\ e.link = r.link)} ELSE S
Surviving(r, S) == IF Restarts(r) THEN {e \in S : e.pub # r.pub} ELSE S

\* With its own incarnation accepted, the registry keeps the epoch it has.
Registered(r) ==
    [p \in Known \cup {r.pub} |->
        IF p = r.pub /\ (r.pub \notin Known \/ Restarts(r)) THEN r.boot ELSE publishers[p]]

\* The sequence of a publisher advances strictly, per link and over both kinds.
Advances_AnyOrder(r) ==
    \A s \in Surviving(r, last) : s.link = r.link /\ s.pub = r.pub => s.seq # r.seq
Advances(r) ==
    \A s \in Surviving(r, last) : s.link = r.link /\ s.pub = r.pub => s.seq < r.seq

Slot(e) == <<e.says.kind, e.link, e.pub>>

\* The report as retained.
Received(r, t) ==
    [link |-> r.link, pub |-> r.pub, boot |-> r.boot, seq |-> r.seq, says |-> r.says, tick |-> t]

Retains_CountsReplacements(r) ==
    LET kept == Surviving(r, table)
        rest == {e \in kept : Slot(e) # Slot(r)}
    IN  /\ table' = rest \cup {Received(r, tick')}
        /\ last' = {s \in Surviving(r, last) : ~(s.link = r.link /\ s.pub = r.pub)}
                      \cup {[link |-> r.link, pub |-> r.pub, seq |-> r.seq]}
        /\ entries' = entries + 1
Retains(r) ==
    LET kept == Surviving(r, table)
        rest == {e \in kept : Slot(e) # Slot(r)}
    IN  /\ table' = rest \cup {Received(r, tick')}
        /\ last' = {s \in Surviving(r, last) : ~(s.link = r.link /\ s.pub = r.pub)}
                      \cup {[link |-> r.link, pub |-> r.pub, seq |-> r.seq]}
        /\ entries' = entries - (Cardinality(table) - Cardinality(kept))
                              + (IF rest = kept THEN 1 ELSE 0)

\* The table is full and the report replaces nothing.
Full(r) ==
    LET kept == Surviving(r, table)
    IN  /\ \A e \in kept : Slot(e) # Slot(r)
        /\ entries - (Cardinality(table) - Cardinality(kept)) >= MaxEntries

Overflows(r) ==
    LET kept == Surviving(r, table)
    IN  /\ table' = kept /\ last' = Surviving(r, last)
        /\ entries' = entries - (Cardinality(table) - Cardinality(kept))

\* One delivered report.  The clock advances whether or not it is accepted, and
\* a refusal for lack of room comes after the registry has changed.
Publish(r) ==
    /\ tick < MaxTick /\ tick' = tick + 1
    /\ heard' = IF \E h \in heard : Received(r, h.tick) = h THEN heard
                ELSE heard \cup {Received(r, tick')}
    /\ \/ /\ ~(Recognised(r) /\ Advances(r))
          /\ UNCHANGED tables
       \/ /\ Recognised(r) /\ Advances(r)
          /\ publishers' = Registered(r)
          /\ \/ ~Full(r) /\ Retains(r)
             \/ Full(r) /\ Overflows(r)
    /\ UNCHANGED <<deployment, topology>>

\* Every other request of the engine advances the clock too.
Request ==
    /\ tick < MaxTick /\ tick' = tick + 1
    /\ UNCHANGED <<deployment, tables, topology, heard>>

SetTopology(t) ==
    /\ t > topology /\ topology' = t
    /\ UNCHANGED <<deployment, tables, tick, heard>>

\* Engine::open starts with empty tables and its own clock.
Restart ==
    /\ publishers' = <<>> /\ table' = {} /\ last' = {} /\ entries' = 0
    /\ tick' = 0 /\ heard' = {}
    /\ UNCHANGED <<deployment, topology>>

--------------------------------------------------------------------------------
(* evaluate_failure *)

\* classify_receipt, in the process that received the report.
Current(e) == tick - e.tick <= MaxAge

Bound(e) == e.says.gen = LinkGen[topology][e.link] /\ e.says.topo = topology

\* The evidence of one kind about a link that is from a current process and bound
\* to the current generations.
Usable(kind, l) ==
    {e \in table : /\ e.says.kind = kind /\ e.link = l
                   /\ e.pub \in Known /\ publishers[e.pub].inc = e.boot.inc
                   /\ Bound(e)}

Qualified(l) ==
    {e \in Usable("failure", l) : /\ Current(e)
                                  /\ e.says.confidence >= MinFailureConfidence
                                  /\ e.says.state # "Unknown"}

\* observation_state_is_failure, with treat_degraded_as_failed off as by default.
ReportsFailure(e) == e.says.state \in {"Down", "Unusable"}

evaluate_failure(l) ==
    LET qualified == Cardinality(Qualified(l))
        failures  == Cardinality({e \in Qualified(l) : ReportsFailure(e)})
        agreed    == IF Unanimous THEN failures = qualified ELSE 2 * failures > qualified
        conflict  == IF Unanimous THEN failures > 0 ELSE 2 * failures = qualified
    IN  CASE qualified = 0 -> "Unknown"
          [] qualified > 0 /\ agreed -> "Established"
          [] qualified > 0 /\ ~agreed /\ conflict -> "Indeterminate"
          [] OTHER -> "Refused"

--------------------------------------------------------------------------------
(* Candidate resolution: the evidence an alternate is judged by. *)

QualifiedReplacement(e) == Current(e) /\ e.says.confidence >= MinConfidence

\* Higher confidence, then younger, then the earlier publisher name.
Preferred(a, b) ==
    \/ a.says.confidence > b.says.confidence
    \/ a.says.confidence = b.says.confidence /\ a.tick > b.tick
    \/ a.says.confidence = b.says.confidence /\ a.tick = b.tick /\ a.pub < b.pub

\* The loop starts from the first publisher's evidence, qualified or not, and from
\* there moves only to preferred qualified evidence.
Best(l) ==
    LET usable == Usable("replacement", l)
        first  == {e \in usable : \A f \in usable : e.pub <= f.pub}
        pool   == first \cup {e \in usable : QualifiedReplacement(e)}
    IN  {e \in pool : \A f \in pool : ~Preferred(f, e)}

Conflicted_Never(l, best) == FALSE
Conflicted(l, best) ==
    \E e \in Usable("replacement", l) \ {best} :
        QualifiedReplacement(e) /\ e.says.state # best.says.state

\* The candidate as the selector sees it.  Capacity, cost and adjacency are good.
Resolved(l) ==
    LET missing == [link |-> l, gen |-> LinkGen[topology][l], present |-> FALSE,
                    conflicted |-> FALSE, matched |-> TRUE, freshness |-> "PriorIncarnation",
                    state |-> "Unknown", confidence |-> 0, capacity |-> MinCapacity,
                    cost |-> 0, adjacent |-> TRUE, age |-> 0]
    IN  IF Best(l) = {} THEN missing
        ELSE LET best == CHOOSE e \in Best(l) : TRUE
             IN  [missing EXCEPT !.present = TRUE, !.conflicted = Conflicted(l, best),
                                 !.freshness = IF Current(best) THEN "Current" ELSE "Expired",
                                 !.state = best.says.state,
                                 !.confidence = best.says.confidence, !.age = tick - best.tick]

--------------------------------------------------------------------------------
Init ==
    /\ deployment \in DOMAIN Deployments
    /\ publishers = <<>> /\ table = {} /\ last = {} /\ entries = 0
    /\ tick = 0 /\ topology = 1 /\ heard = {}

\* A publisher does not say two things under one stamp.
Consistent(r) ==
    \A h \in heard :
        <<h.link, h.pub, h.boot, h.seq>> = <<r.link, r.pub, r.boot, r.seq>> => h.says = r.says

Next ==
    \/ \E r \in Reports : Consistent(r) /\ Publish(r)
    \/ \E t \in DOMAIN LinkGen : SetTopology(t)
    \/ Request \/ Restart

Spec == Init /\ [][Next]_vars

--------------------------------------------------------------------------------
(* Properties *)

\* README, invariant 10, for observations: the counter the limit is checked against
\* is the number of entries retained, through replacements and publisher restarts
\* that erase entries of both kinds, and neither exceeds the limit.
EntriesCounted ==
    /\ entries = Cardinality(table) /\ entries <= MaxEntries
    /\ \A e, f \in table : Slot(e) = Slot(f) => e = f
    /\ Cardinality(Known) <= MaxPublishers

\* "Every observation it made under the previous incarnation is retired": nothing
\* retained, and no sequence, stems from a process its publisher has replaced.
OnlyCurrentProcesses ==
    /\ \A e \in table : e.pub \in Known /\ publishers[e.pub].inc = e.boot.inc
    /\ \A s \in last : \E e \in heard :
          /\ e.link = s.link /\ e.pub = s.pub /\ e.seq = s.seq
          /\ e.pub \in Known /\ publishers[e.pub].inc = e.boot.inc

\* A later report of the same process on the link, of either kind, arrived first.
Overtaken(h) ==
    \E g \in heard : /\ <<g.pub, g.boot, g.link>> = <<h.pub, h.boot, h.link>>
                     /\ g.seq > h.seq /\ g.tick < h.tick

\* What the publishers' last words are, from the deliveries alone: the reports on
\* link l that were not overtaken, that no later process has retired and no such
\* later report of the same kind has superseded, received within the window for the
\* current generations.
Testimony(kind, l) ==
    {h \in heard :
        /\ h.says.kind = kind /\ h.link = l /\ Bound(h) /\ Current(h) /\ ~Overtaken(h)
        /\ \A g \in heard : g.pub = h.pub =>
              /\ g.boot.epoch <= h.boot.epoch
              /\ g.link = l /\ g.says.kind = kind /\ g.boot = h.boot =>
                    g.seq <= h.seq \/ Overtaken(g)}

\* The limits leave room for everyone who may report, so no report is refused for
\* lack of it.
Roomy ==
    /\ Cardinality({r.pub : r \in Reports}) <= MaxPublishers
    /\ Cardinality({Slot(r) : r \in Reports}) <= MaxEntries

\* README, invariants 3 and 5: failure is established if and only if the publishers'
\* last words say so under the policy, however reports were delayed, duplicated,
\* reordered or sent by a process since replaced.  (A full table refuses reports,
\* and the verdict is then the one of those retained.)
EstablishedByTestimony ==
    Roomy => \A l \in Links :
        LET said == {h \in Testimony("failure", l) : /\ h.says.confidence >= MinFailureConfidence
                                                     /\ h.says.state # "Unknown"}
            failed == {h \in said : ReportsFailure(h)}
        IN  evaluate_failure(l) = "Established" <=>
                /\ failed # {}
                /\ IF Unanimous THEN failed = said
                   ELSE Cardinality(failed) > Cardinality(said \ failed)

\* README, invariants 1 and 4: an alternate is eligible, or disproven, only if there
\* is current testimony of the required confidence and all of it says so, degraded
\* counting as up where the policy allows it (with room for every report, as above).
AlternatesByTestimony ==
    Roomy => \A l \in Links \ {Subject} :
        LET said == {h.says.state : h \in {h \in Testimony("replacement", l) :
                                              h.says.confidence >= MinConfidence}}
            verdict == Assess(Resolved(l)).verdict
        IN  /\ verdict = "Eligible" => said = {"Up"} \/ (AllowsDegraded /\ said = {"Degraded"})
            /\ verdict = "Disproven" => said # {} /\ said \subseteq {"Degraded", "Down", "Unusable"}

=============================================================================
