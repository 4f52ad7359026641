------------------------------ MODULE MCSpool ------------------------------
(* Small instances of Spool for TLC. *)
EXTENDS Spool

CONSTANTS p1, p2, ns1, ns2

TwoProcs == {p1, p2}
Steady1 == {p1}
TwoNamespaces == {ns1, ns2}
Shared == [p \in TwoProcs |-> ns1]
Foreign == {[id |-> 0, size |-> 1, namespace |-> ns2]}
=============================================================================
