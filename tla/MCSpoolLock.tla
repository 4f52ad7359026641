---------------------------- MODULE MCSpoolLock ----------------------------
(* A small instance of SpoolLock for TLC. *)
EXTENDS SpoolLock

CONSTANTS p1, p2

TwoProcs == {p1, p2}
=============================================================================
