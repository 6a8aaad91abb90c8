-------------------------------- MODULE Selector -------------------------------
(***************************************************************************)
(* Replacement eligibility and selection (src/selector.cpp): a pure        *)
(* function from the candidates the engine resolved against its evidence   *)
(* to one alternate, to a proof that there is none, or to neither.         *)
(*                                                                         *)
(* Candidates are a set: the engine rejects a request that names a link    *)
(* twice, and the selector sorts them before it decides.  Links are        *)
(* numbers that stand for names in their order.                            *)
(*                                                                         *)
(* A definition whose name continues that of the next one after an         *)
(* underscore is a seeded fault of it, used to show that a property can    *)
(* fail.                                                                   *)
(***************************************************************************)
EXTENDS Integers, FiniteSetsExt, Sequences

CONSTANTS
    Subject,         \* the failed link
    MinConfidence,   \* policy.min_replacement_confidence
    MinCapacity,     \* input.min_replacement_capacity
    NeedsAdjacency,  \* policy.require_adjacency_authorization
    AllowsDegraded   \* policy.allow_degraded_replacement

ASSUME SelectorAssumption ==
    /\ Subject \in Nat /\ MinConfidence \in Nat /\ MinCapacity \in Nat
    /\ NeedsAdjacency \in BOOLEAN /\ AllowsDegraded \in BOOLEAN

States == {"Unknown", "Up", "Degraded", "Down", "Unusable"}
Freshness == {"Current", "Expired", "PriorIncarnation", "Future"}

\* ResolvedCandidate: matched is false when the caller asserted a generation that
\* is not the candidate's.
ResolvedCandidate ==
    [link: Nat, gen: Nat, present: BOOLEAN, conflicted: BOOLEAN, matched: BOOLEAN,
     freshness: Freshness, state: States, confidence: Nat, capacity: Nat, cost: Nat,
     adjacent: BOOLEAN, age: Nat]

--------------------------------------------------------------------------------
(* Assessment *)

\* The tests of a candidate in their order: <<holds, verdict, reason>>.
Tests_StateBeforeFreshness(c) ==
    <<<<c.link = Subject, "Disproven", "ReplacementIsSubject">>,
      <<c.conflicted, "Indeterminate", "EvidenceConflicted">>,
      <<~c.present, "Indeterminate", "EvidenceMissing">>,
      <<~c.matched, "Indeterminate", "ReplacementGenerationMismatch">>,
      <<c.state \in {"Down", "Unusable"}, "Disproven", "ReplacementStateUnusable">>,
      <<c.freshness # "Current", "Indeterminate", "EvidenceStale">>,
      <<c.confidence < MinConfidence, "Indeterminate", "EvidenceLowConfidence">>>>
Tests(c) ==
    <<<<c.link = Subject, "Disproven", "ReplacementIsSubject">>,
      <<c.conflicted, "Indeterminate", "EvidenceConflicted">>,
      <<~c.present, "Indeterminate", "EvidenceMissing">>,
      <<~c.matched, "Indeterminate", "ReplacementGenerationMismatch">>,
      <<c.freshness = "PriorIncarnation", "Indeterminate", "EvidenceFromPriorIncarnation">>,
      <<c.freshness \in {"Expired", "Future"}, "Indeterminate", "EvidenceStale">>,
      <<c.confidence < MinConfidence, "Indeterminate", "EvidenceLowConfidence">>,
      <<c.state = "Unknown", "Indeterminate", "EvidenceUnknown">>,
      <<c.state \in {"Down", "Unusable"}, "Disproven", "ReplacementStateUnusable">>,
      <<c.state = "Degraded" /\ ~AllowsDegraded, "Disproven", "ReplacementNotEligible">>,
      <<c.capacity < MinCapacity, "Disproven", "ReplacementInsufficientCapacity">>,
      <<NeedsAdjacency /\ ~c.adjacent, "Disproven", "ReplacementNotAdjacencyAuthorized">>>>

\* The first test that holds decides; if none does, the candidate is eligible.
Assess(c) ==
    LET hits == {i \in DOMAIN Tests(c) : Tests(c)[i][1]}
    IN  IF hits = {} THEN [verdict |-> "Eligible", reason |-> "SelectedHighestObjective"]
        ELSE LET t == Tests(c)[Min(hits)] IN [verdict |-> t[2], reason |-> t[3]]

reason_is_conclusive(reason) ==
    reason \in {"ReplacementIsSubject", "ReplacementStateUnusable", "ReplacementNotEligible",
                "ReplacementInsufficientCapacity", "ReplacementNotAdjacencyAuthorized"}

--------------------------------------------------------------------------------
(* Objective and selection *)

\* ObjectiveKey, each component turned so that the larger is the better.
ObjectiveKey(c) ==
    <<IF c.adjacent THEN 1 ELSE 0, c.confidence, -c.age, c.capacity, -c.cost, c.gen, -c.link>>

\* The first component that differs decides.
objective_better_WithoutName(a, b) ==
    LET j == ObjectiveKey(a)
        k == ObjectiveKey(b)
    IN  \E i \in 1..6 : j[i] > k[i] /\ \A h \in 1..(i - 1) : j[h] = k[h]
objective_better(a, b) ==
    LET j == ObjectiveKey(a)
        k == ObjectiveKey(b)
    IN  \E i \in DOMAIN k : j[i] > k[i] /\ \A h \in 1..(i - 1) : j[h] = k[h]

\* The candidates in link order.
LinkOrder(cands) ==
    CHOOSE o \in [1..Cardinality(cands) -> cands] :
        \A i, j \in DOMAIN o : i < j => o[i].link < o[j].link

\* The loop over the eligible candidates: the best of the first i.
Scan_KeepsLater(cands) ==
    LET order == LinkOrder(cands)
        best[i \in DOMAIN order] ==
            IF i = 1 \/ objective_better(best[i - 1], order[i]) THEN order[i] ELSE best[i - 1]
    IN  best[Cardinality(cands)]
Scan(cands) ==
    LET order == LinkOrder(cands)
        best[i \in DOMAIN order] ==
            IF i = 1 \/ objective_better(order[i], best[i - 1]) THEN order[i] ELSE best[i - 1]
    IN  best[Cardinality(cands)]

\* select_replacement: a status, and the chosen candidates (none or one).
select_replacement(cands) ==
    LET with(v) == {c \in cands : Assess(c).verdict = v} IN
    IF cands = {} THEN [status |-> "EmptyCandidateSet", chosen |-> {}]
    ELSE IF with("Eligible") # {}
         THEN [status |-> "Selected", chosen |-> {Scan(with("Eligible"))}]
    ELSE IF with("Indeterminate") = {} THEN [status |-> "ProvenInfeasible", chosen |-> {}]
    ELSE [status |-> "Indeterminate", chosen |-> {}]

\* validate_selection: the engine's own check before it grants.
validate_selection(cands, outcome) ==
    /\ \A c \in cands :
          Assess(c).verdict = "Disproven" => reason_is_conclusive(Assess(c).reason)
    /\ outcome.status = "EmptyCandidateSet" => cands = {}
    /\ outcome.status = "ProvenInfeasible" => \A c \in cands : Assess(c).verdict = "Disproven"
    /\ outcome.status = "Indeterminate" => \A c \in cands : Assess(c).verdict # "Eligible"
    /\ outcome.status = "Selected" =>
          \E chosen \in outcome.chosen :
             /\ Assess(chosen).verdict = "Eligible" /\ chosen.link # Subject
             /\ \A c \in cands : Assess(c).verdict = "Eligible" => ~objective_better(c, chosen)

=============================================================================
