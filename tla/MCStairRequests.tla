--------------------------- MODULE MCStairRequests ---------------------------
(* The step edges are interchangeable.                                      *)
EXTENDS StairRequests, TLC

Symmetry == Permutations(Risers)
=============================================================================
