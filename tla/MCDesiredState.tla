--------------------------- MODULE MCDesiredState ---------------------------
(* Model-checking instances of DesiredState.                               *)
EXTENDS DesiredState, TLC

Symmetry == Permutations(Req)
=============================================================================
