-------------------------------- MODULE Selection ------------------------------
(***************************************************************************)
(* The selector over every set of candidates a caller can build up.        *)
(***************************************************************************)
EXTENDS Selector

CONSTANTS
    Candidates,     \* the candidates a request may list
    MaxCandidates   \* policy.max_candidates

ASSUME CandidatesAssumption ==
    Candidates \subseteq ResolvedCandidate /\ MaxCandidates \in Nat

VARIABLE offered   \* the resolved candidates of the request

SelectionInit == offered = {}

\* request_failover refuses a second candidate with the same link.
Offer(c) ==
    /\ Cardinality(offered) < MaxCandidates
    /\ \A d \in offered : d.link # c.link
    /\ offered' = offered \cup {c}

SelectionNext == \E c \in Candidates : Offer(c)

SelectionSpec == SelectionInit /\ [][SelectionNext]_offered

--------------------------------------------------------------------------------
(* Properties *)

\* Whatever is selected, the engine's independent validation accepts it: the
\* branch "internal selection validation failed" is unreachable.
SelectionValidated == validate_selection(offered, select_replacement(offered))

\* include/lff/selector.hpp, OPTIMAL and DETERMINISTIC: on distinct links the
\* objective is a strict total order, so the maximum exists and is unique.
ObjectiveTotal ==
    /\ \A a, b \in offered :
          a # b => /\ objective_better(a, b) \/ objective_better(b, a)
                   /\ ~(objective_better(a, b) /\ objective_better(b, a))
    /\ \A a, b, c \in offered :
          objective_better(a, b) /\ objective_better(b, c) => objective_better(a, c)

\* The candidate is known, by evidence that counts, not to be an alternate.
RuledOut(c) ==
    \/ c.link = Subject
    \/ /\ c.present /\ c.matched /\ ~c.conflicted
       /\ c.freshness = "Current" /\ c.confidence >= MinConfidence
       /\ \/ c.state \in {"Down", "Unusable"}
          \/ c.state = "Degraded" /\ ~AllowsDegraded
          \/ c.state # "Unknown" /\ (c.capacity < MinCapacity \/ (NeedsAdjacency /\ ~c.adjacent))

\* README, invariant 4: infeasibility is claimed only with current evidence against
\* every alternate; one undecided alternate downgrades the answer.
InfeasibleCertified ==
    select_replacement(offered).status = "ProvenInfeasible" => \A c \in offered : RuledOut(c)

=============================================================================
