------------------------------- MODULE MCEvidence ------------------------------
(* Evidence on small instances: link 0 is the subject of a failover. *)
EXTENDS Evidence

Says(kind, topo, state, confidence) ==
    [kind |-> kind, gen |-> topo, topo |-> topo, state |-> state, confidence |-> confidence]

\* Two processes of a publisher in succession, and one that claims the epoch of
\* the second.
InSuccession == {[inc |-> 1, epoch |-> 1], [inc |-> 2, epoch |-> 2]}
Rivals == InSuccession \cup {[inc |-> 3, epoch |-> 2]}

ReportsOf(links, pubs, boots, seqs, contents) ==
    [link: links, pub: pubs, boot: boots, seq: seqs, says: contents]

\* Publisher 1 is replaced by a later process, publisher 2 speaks once.
Spoken(links, contents) ==
    ReportsOf(links, {1}, InSuccession, {1, 2}, contents)
       \cup ReportsOf(links, {2}, {[inc |-> 1, epoch |-> 1]}, {1}, contents)

\* Who may speak, with nothing to tell contents apart but their kind: the first
\* publisher about everything, the second once.
Contended ==
    ReportsOf({0, 1}, {1}, Rivals, {1, 2},
              {Says("failure", 1, "Down", 1), Says("replacement", 1, "Up", 1)})
       \cup ReportsOf({0}, {2}, {[inc |-> 1, epoch |-> 1]}, {1}, {Says("failure", 1, "Down", 1)})

\* What is said about one subject.
Symptoms ==
    Spoken({0},
           {Says("failure", 1, s, 1) : s \in {"Up", "Down", "Unknown"}}
              \cup {Says("failure", 1, "Down", 0), Says("failure", 2, "Down", 1)})
Votes ==
    ReportsOf({0}, {1, 2, 3}, {[inc |-> 1, epoch |-> 1]}, {1, 2},
              {Says("failure", 1, s, 1) : s \in {"Up", "Down"}})

\* What is said about one alternate.
Offers ==
    Spoken({1},
           {Says("replacement", 1, s, 1) : s \in {"Up", "Down"}}
              \cup {Says("replacement", 1, "Down", 2), Says("replacement", 1, "Up", 0),
                    Says("replacement", 2, "Up", 1)})

\* A link that is reported on both as failed and as an alternate, by one publisher
\* under one sequence, while another confirms.
Mixed ==
    ReportsOf({1}, {1}, {[inc |-> 1, epoch |-> 1]}, {1, 2, 3},
              {Says(k, 1, s, 1) : k \in Kinds, s \in {"Up", "Down"}})
       \cup ReportsOf({1}, {2}, {[inc |-> 1, epoch |-> 1]}, {1},
                      {Says(k, 1, "Down", 1) : k \in Kinds})

SubjectAndAlternate == {0, 1}
OneTopology == <<[l \in {0, 1} |-> 1]>>
TwoTopologies == <<[l \in {0, 1} |-> 1], [l \in {0, 1} |-> 2]>>

Unlimited(reports, topologies, unanimous, ticks) ==
    [Reports |-> reports, LinkGen |-> topologies, Unanimous |-> unanimous, MaxAge |-> 2,
     MaxPublishers |-> 3, MaxEntries |-> 4, MaxTick |-> ticks]

Five ==
    [contended |-> [Unlimited(Contended, OneTopology, TRUE, 4) EXCEPT
                        !.MaxAge = 4, !.MaxPublishers = 1, !.MaxEntries = 2],
     failure   |-> Unlimited(Symptoms, TwoTopologies, TRUE, 4),
     majority  |-> Unlimited(Votes, OneTopology, FALSE, 5),
     alternate |-> Unlimited(Offers, TwoTopologies, TRUE, 4),
     mixed     |-> Unlimited(Mixed, OneTopology, TRUE, 5)]
=============================================================================
