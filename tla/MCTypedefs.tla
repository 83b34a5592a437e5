----------------------------- MODULE MCTypedefs -----------------------------
(* Typedefs with two names, for TLC *)
EXTENDS Typedefs, TLC

Symmetry == Permutations(Ids)
=============================================================================
