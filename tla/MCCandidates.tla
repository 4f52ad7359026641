---------------------------- MODULE MCCandidates ----------------------------
(***************************************************************************)
(* An instance of Candidates for TLC: four candidates.                     *)
(***************************************************************************)
EXTENDS Candidates, TLC

\* all content differs
Different == [c \in Candidates |-> c]

\* 3 is the second half of an exchange whose head is 2
SplitTail == [c \in Candidates |-> IF c = 3 THEN 2 ELSE None]

\* 1 <- 2 <- 4: each is near the next, and 1 and 4 are not near each other; 4 is
\* as near to 3, a part of 2, which is near nothing older
ChainAndTail == (1 :> 10) @@ (2 :> 11) @@ (3 :> 13) @@ (4 :> 12)

\* executions of one kind of job are interchangeable
ExecutionSymmetry == Permutations(Passes) \cup Permutations(Routers)
=============================================================================
