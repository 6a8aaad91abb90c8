----------------------------- MODULE MCCoordinator -----------------------------
(***************************************************************************)
(* Instances of Coordinator for TLC.                                       *)
(***************************************************************************)
EXTENDS Coordinator

Policy(verified, budget) == [enabled |-> TRUE, verified |-> verified, budget |-> budget]

OneLink == {1}
TwoLinks == {1, 2}

\* The default policy, and one that takes an acknowledgement for the effect.
VerifiedTwice == <<Policy(TRUE, 2)>>
VerifiedThenTrusting == <<Policy(TRUE, 2), Policy(FALSE, 2)>>
TrustingThenDisabled ==
    <<Policy(FALSE, 2), [enabled |-> FALSE, verified |-> TRUE, budget |-> 2]>>

\* The link keeps its generation over one topology change and advances over the
\* next.
SameThenNext == <<[l \in OneLink |-> 1], [l \in OneLink |-> 1], [l \in OneLink |-> 2]>>
OneLinkFixed == <<[l \in OneLink |-> 1]>>
TwoLinksFixed == <<[l \in TwoLinks |-> 1]>>
\* The second link leaves the topology.
OneLeaves == <<[l \in TwoLinks |-> 1], [l \in TwoLinks |-> IF l = 1 THEN 1 ELSE 0]>>

=============================================================================
