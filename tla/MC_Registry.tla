---------------------------- MODULE MC_Registry ----------------------------
(* A registry small enough for TLC: goroutines as model values. *)
EXTENDS Registry

CONSTANTS main, c1, c2

TwoClients == {c1, c2}
=============================================================================
