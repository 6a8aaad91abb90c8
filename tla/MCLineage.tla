------------------------------- MODULE MCLineage -------------------------------
(* Lineage on a small instance: two ordinary records and a fence. *)
EXTENDS Lineage

CONSTANTS a, b, fence

Mixed == {a, b, fence}
Plain == {a, b}
OneFence == {fence}
NoFence == {}
=============================================================================
