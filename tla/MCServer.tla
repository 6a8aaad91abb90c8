-------------------------------- MODULE MCServer -------------------------------
(* Server on small instances. *)
EXTENDS Server

CONSTANTS s1, s2, d0, d1, d2

TwoConnections == {s1, s2}
ThreeDescriptors == {d0, d1, d2}
=============================================================================
