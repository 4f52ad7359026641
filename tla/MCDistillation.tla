--------------------------- MODULE MCDistillation ---------------------------
\* An instance of Distillation for TLC: one lane and two sessions.  Turn 2 was
\* there before migration 036 and turn 3 acknowledges.
EXTENDS Distillation

LaneOf == [t \in Turns |-> 1]
SessionOf == [t \in Turns |-> IF t = 1 THEN 1 ELSE 2]
WhenOf == [t \in Turns |-> IF t = 1 THEN 2 ELSE t]
KindOf == [t \in Turns |-> IF t = 2 THEN "tool" ELSE IF t = 3 THEN "ack" ELSE "claim"]
TextOf == [t \in Turns |-> t]
=============================================================================
