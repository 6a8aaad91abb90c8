------------------------------- MODULE DurableLog ------------------------------
(***************************************************************************)
(* What LineageStore promises the engine (include/lff/store.hpp, README    *)
(* "Persistence"): an append that returned success is never lost,          *)
(* reordered or duplicated, whatever crashes, torn writes, failed appends  *)
(* and compactions follow; an append that did not return success is        *)
(* either absent after the next open or is the last record found.          *)
(***************************************************************************)
EXTENDS Sequences

CONSTANT Record

VARIABLES
    log,   \* the records the lineage consists of
    mode   \* "serving", "failed" (an append failed: no more appends) or "down"

Init == log = <<>> /\ mode = "down"

Start == mode = "down" /\ mode' = "serving" /\ UNCHANGED log

Append1(r) == mode = "serving" /\ log' = Append(log, r) /\ UNCHANGED mode

Fail == mode = "serving" /\ mode' = "failed" /\ UNCHANGED log

\* The process ends.  A record whose append failed may surface.
Stop ==
    /\ mode \in {"serving", "failed"} /\ mode' = "down"
    /\ \/ UNCHANGED log
       \/ mode = "failed" /\ \E r \in Record : log' = Append(log, r)

Next == Start \/ Fail \/ Stop \/ \E r \in Record : Append1(r)

Spec == Init /\ [][Next]_<<log, mode>>

=============================================================================
