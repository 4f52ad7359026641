-------------------------- MODULE DurableDelivery --------------------------
(***************************************************************************)
(* What a spool promises: at-least-once delivery.  A write that was taken  *)
(* in is held until all its records were delivered, or set aside for a     *)
(* human; nothing that was delivered and let go is ever held again.        *)
(***************************************************************************)
EXTENDS Integers

CONSTANTS
    Units,     \* the writes
    Size       \* the number of records of each, [Units -> Nat]

VARIABLES
    queue,      \* writes held for delivery
    parked,     \* writes set aside
    done,       \* writes let go
    delivered   \* records the server took: <<write, record>>

dvars == <<queue, parked, done, delivered>>

\* Something may be held from the start.
Init == queue \subseteq Units /\ parked = {} /\ done = {} /\ delivered = {}

Deliver ==
    /\ delivered \subseteq delivered'
    /\ UNCHANGED <<queue, parked, done>>

TakeIn(u) ==
    /\ u \notin queue \cup parked \cup done
    /\ queue' = queue \cup {u}
    /\ UNCHANGED <<parked, done, delivered>>

\* At once: some held writes are let go, each with all its records delivered,
\* and some are set aside.
Settle(gone, aside) ==
    /\ \A u \in gone : \A i \in 1 .. Size[u] : <<u, i>> \in delivered
    /\ queue' = queue \ (gone \cup aside)
    /\ parked' = (parked \ gone) \cup aside
    /\ done' = done \cup gone
    /\ UNCHANGED delivered

Next ==
    \/ Deliver
    \/ \E u \in Units : TakeIn(u)
    \/ \E gone \in SUBSET (queue \cup parked) :
         \E aside \in SUBSET (queue \ gone) : Settle(gone, aside)

Spec == Init /\ [][Next]_dvars
=============================================================================
