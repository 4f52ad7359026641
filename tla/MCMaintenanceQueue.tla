-------------------------- MODULE MCMaintenanceQueue ------------------------
(***************************************************************************)
(* Instances of MaintenanceQueue for TLC: one or two runners with one      *)
(* slot each, small clocks, one or two attempts.                           *)
(***************************************************************************)
EXTENDS MaintenanceQueue, TLC

CONSTANTS k1, k2, s1, s2, r1, r2

\* s1 is retried once, s2 never
AttemptsOf == [s \in Specs |-> IF s = s1 THEN 2 ELSE 1]

\* worker 1: the only slot of runner r1
OneSlot == (1 :> r1)

\* workers 1 and 2: one slot for each of two runners
OneSlotEach == (1 :> r1) @@ (2 :> r2)

NoSkew == [r \in Runners |-> 0]

\* the clock of r2 runs ahead, so it sees leases of r1 expire early
AheadSkew == [r \in Runners |-> IF r = r2 THEN 1 ELSE 0]

\* callers of enqueue are interchangeable
CallerSymmetry == Permutations(Callers)
=============================================================================
