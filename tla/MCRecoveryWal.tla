--------------------------- MODULE MCRecoveryWal ---------------------------
(* A small instance of RecoveryWal for TLC. *)
EXTENDS RecoveryWal, TLC

CONSTANTS k1, k2, k3   \* exact scopes
ThreeScopes == {k1, k2, k3}

\* one death, at a row or inside the compaction; or a disk that fails a write
\* whole and cuts another short
None == [f \in FaultKinds |-> 0]
DeathOrDisk == {[None EXCEPT !["crash"] = 1], [None EXCEPT !["compaction"] = 1],
                [None EXCEPT !["throw"] = 1, !["short"] = 1]}

\* No definition tells the scopes apart.
Symmetry == Permutations(Scopes)
=============================================================================
