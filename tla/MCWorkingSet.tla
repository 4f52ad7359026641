---------------------------- MODULE MCWorkingSet ----------------------------
(* A small instance of WorkingSet for TLC. *)
EXTENDS WorkingSet, TLC

CONSTANTS k1, k2, k3   \* exact scopes
ThreeScopes == {k1, k2, k3}

\* No definition tells the scopes apart.
Symmetry == Permutations(Scopes)
=============================================================================
