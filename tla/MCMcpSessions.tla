--------------------------- MODULE MCMcpSessions ---------------------------
(* A small instance of McpSessions for TLC. *)
EXTENDS McpSessions

CONSTANTS c1, c2, c3, q1, q2

ThreeInits == {c1, c2, c3}
TwoRequests == {q1, q2}
=============================================================================
