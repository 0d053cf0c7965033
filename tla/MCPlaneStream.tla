--------------------------- MODULE MCPlaneStream ---------------------------
(* Model-checking instances of PlaneStream.                                *)
EXTENDS PlaneStream, TLC

Symmetry == Permutations(Req)
=============================================================================
