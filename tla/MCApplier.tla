------------------------------- MODULE MCApplier -------------------------------
(* Applier on a small instance. *)
EXTENDS Applier

Policy(verified) == [enabled |-> TRUE, verified |-> verified, budget |-> 1]

OneLink == {1}
Fixed == <<[l \in OneLink |-> 1]>>

\* Under the second policy an acknowledgement commits.
VerifiedThenTrusting == <<Policy(TRUE), Policy(FALSE)>>

=============================================================================
