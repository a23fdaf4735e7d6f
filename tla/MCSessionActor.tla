--------------------------- MODULE MCSessionActor ---------------------------
(* Instances of SessionActor for TLC.                                        *)
EXTENDS SessionActor, TLC

CONSTANTS m1, m2, m3, c1, c2

InputSymmetry == Permutations({m1, m2, m3} \cap Inputs)
=============================================================================
