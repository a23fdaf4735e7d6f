----------------------------- MODULE MCUiBroker -----------------------------
(* Instances of UiBroker for TLC.                                            *)
EXTENDS UiBroker

CONSTANTS a, b, x, y

Symmetry == Permutations({a, b}) \cup Permutations({x, y})
=============================================================================
