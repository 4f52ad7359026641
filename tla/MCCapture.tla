----------------------------- MODULE MCCapture -----------------------------
\* An instance of Capture for TLC.
EXTENDS Capture, TLC

\* no definition tells two sessions or two hooks apart
Symmetry == Permutations(Sessions) \cup Permutations(Hooks)
=============================================================================
