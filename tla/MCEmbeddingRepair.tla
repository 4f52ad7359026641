------------------------- MODULE MCEmbeddingRepair --------------------------
(* A small instance of EmbeddingRepair for TLC. *)
EXTENDS EmbeddingRepair

CONSTANTS h1, d1

OneHandler == {h1}
OneDrain == {d1}

\* two spellings of one summary, and another summary
ThreeSummaries == {"plain", "Plain", "other"}
Spelling == [s \in ThreeSummaries |-> IF s = "Plain" THEN "plain" ELSE s]
=============================================================================
