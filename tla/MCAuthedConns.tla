--------------------------- MODULE MCAuthedConns ---------------------------
(* Three connections of one peer: two can close against each other while   *)
(* the third one logs in.                                                  *)
EXTENDS AuthedConns, TLC

Symmetry == Permutations(Conns)
=============================================================================
