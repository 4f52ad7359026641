------------------------- MODULE McpSessionsProofs -------------------------
(***************************************************************************)
(* Proofs about McpSessions for any number of initialize calls and         *)
(* requests, any cap and any TTL.                                          *)
(***************************************************************************)
EXTENDS McpSessions, FiniteSetTheorems, TLAPS

\* A handshake that may still add a session has an open transport.
HandshakeOpen ==
    \A c \in Inits :
        init[c] \in {"connecting", "handling"} /\ c \notin initialized
          => transport[c] = "open"

\* Only calls under way or over have a session; a request runs on one of these.
SessionsWereInitialized ==
    /\ \A c \in initialized : init[c] \notin {"none", "connecting"}
    /\ \A r \in Requests : serving[r] # NoSession => serving[r] \in initialized

IInv ==
    /\ TypeOK /\ CapHolds /\ BusyIsExact /\ LiveIsOpen
    /\ HandshakeOpen /\ SessionsWereInitialized

LEMMA InitIInv == Init => IInv
<1> SUFFICES ASSUME Init PROVE IInv OBVIOUS
<1> USE SessionAssumption
<1>1. Calling = {} /\ Coming = {} BY DEF Init, Calling, Coming
<1>2. IsFiniteSet({}) /\ Cardinality({}) = 0 BY FS_EmptySet
<1>3. TypeOK
  <2>1. 0 \in Ages BY DEF Ages
  <2>2. /\ busy \in [Inits -> Nat] /\ age \in [Inits -> Ages]
        /\ serving \in [Requests -> Inits \cup {NoSession}]
    BY <2>1 DEF Init
  <2>3. IsFiniteSet(live) /\ IsFiniteSet(Calling) /\ pending = Cardinality(Calling)
    BY <1>1, <1>2 DEF Init
  <2>4. /\ init \in [Inits -> {"none", "connecting", "handling", "failing", "done"}]
        /\ transport \in [Inits -> {"none", "open", "closing", "closed"}]
    BY DEF Init
  <2>5. /\ live \subseteq initialized /\ initialized \subseteq Inits
        /\ pending \in Nat /\ closed \in BOOLEAN
    BY DEF Init
  <2> QED BY <2>2, <2>3, <2>4, <2>5 DEF TypeOK
<1>4. live = {} BY DEF Init
<1>5. CapHolds BY <1>1, <1>2, <1>4 DEF CapHolds
<1> QED BY <1>3, <1>4, <1>5
        DEF Init, IInv, BusyIsExact, LiveIsOpen, HandshakeOpen, SessionsWereInitialized

(***************************************************************************)
(* The ways out.  Leaves(S): the sessions S, idle or closed, leave the     *)
(* store; of the others, and of handshakes, the transport stays open.      *)
(***************************************************************************)
Leaves(S) ==
    /\ S \subseteq Inits
    /\ live' = live \ S
    /\ busy' = [c \in Inits |-> IF c \in S THEN 0 ELSE busy[c]]
    /\ age' \in [Inits -> Ages]
    /\ transport' \in [Inits -> {"none", "open", "closing", "closed"}]
    /\ \A s \in live \ S : transport'[s] = transport[s]
    /\ \A c \in Inits \ initialized :
          transport[c] = "open" /\ init'[c] \in {"connecting", "handling"}
            => transport'[c] = "open"
    /\ \A s \in S \cap live : Idle(s) \/ transport'[s] = "closed"
    /\ UNCHANGED <<initialized, serving>>

LEMMA ExpireLeaves ==
  ASSUME TypeOK, NEW S \in SUBSET Inits, Expire(S), UNCHANGED <<initialized, serving>>
  PROVE  Leaves({s \in S \cap live : Idle(s)})
<1> DEFINE gone == {s \in S \cap live : Idle(s)}
<1>1. age' \in [Inits -> Ages]
  BY SessionAssumption DEF Expire, TypeOK, Ages
<1>2. transport' \in [Inits -> {"none", "open", "closing", "closed"}]
  BY DEF Expire, TypeOK
<1>3. \A c \in Inits \ gone : transport'[c] = transport[c]
  BY DEF Expire
<1>4. gone \subseteq initialized BY DEF TypeOK
<1> QED BY <1>1, <1>2, <1>3, <1>4 DEF Leaves, Expire, Drop, TypeOK

LEMMA SweepLeaves == ASSUME IInv, Sweep \/ Close PROVE \E S \in SUBSET Inits : Leaves(S)
<1>0. TypeOK /\ live \subseteq Inits BY DEF IInv, TypeOK
<1>1. PICK S \in SUBSET Inits : Expire(S) BY <1>0 DEF Sweep, Close
<1>2. UNCHANGED <<initialized, serving>> BY DEF Sweep, Close, StoreOnly
<1>3. Leaves({s \in S \cap live : Idle(s)}) BY <1>0, <1>1, <1>2, ExpireLeaves
<1> QED BY <1>3

LEMMA ExitsLeave ==
  ASSUME IInv, NEW c \in Inits,
         Delete(c) \/ TimerFires(c) \/ TransportCloses(c) \/ CloseEnds(c)
  PROVE  (\E S \in SUBSET Inits : Leaves(S)) /\ UNCHANGED <<pending, init>>
<1>0. TypeOK BY DEF IInv
<1>1. CASE Delete(c) \/ TimerFires(c)
  <2>1. Expire({c}) /\ UNCHANGED <<pending, init, initialized, serving>>
    BY <1>1 DEF Delete, TimerFires, StoreOnly
  <2>2. Leaves({s \in {c} \cap live : Idle(s)}) BY <1>0, <2>1, ExpireLeaves
  <2> QED BY <2>1, <2>2
<1>2. CASE TransportCloses(c) \/ CloseEnds(c)
  <2>1. UNCHANGED <<pending, init, initialized, serving>> /\ Drop({c})
    BY <1>2 DEF TransportCloses, CloseEnds, StoreOnly
  <2>2. /\ age' \in [Inits -> Ages]
        /\ transport' \in [Inits -> {"none", "open", "closing", "closed"}]
        /\ transport'[c] = "closed"
        /\ \A d \in Inits \ {c} : transport'[d] = transport[d]
    BY <1>0, <1>2, SessionAssumption DEF TransportCloses, CloseEnds, TypeOK, Ages
  <2>3. c \in initialized \/ transport[c] = "closing"
    BY <1>2 DEF TransportCloses, CloseEnds
  <2>4. Leaves({c}) BY <1>0, <2>1, <2>2, <2>3 DEF Leaves, Drop, TypeOK
  <2> QED BY <2>1, <2>4
<1> QED BY <1>1, <1>2

(***************************************************************************)
(* The initialize calls.                                                   *)
(***************************************************************************)
\* How the set of calls under way, and the counter with it, may change.
LEMMA CallingGrows ==
  ASSUME TypeOK, NEW c \in Inits \ Calling, Calling' = Calling \cup {c},
         pending' = pending + 1
  PROVE  pending' \in Nat /\ IsFiniteSet(Calling') /\ pending' = Cardinality(Calling')
BY FS_AddElement, FS_CardinalityType DEF TypeOK

LEMMA CallingShrinks ==
  ASSUME TypeOK, NEW c \in Calling, Calling' = Calling \ {c},
         pending' = Decremented(pending)
  PROVE  pending' \in Nat /\ IsFiniteSet(Calling') /\ pending' = Cardinality(Calling')
<1>1. IsFiniteSet(Calling') /\ Cardinality(Calling') = Cardinality(Calling) - 1
  BY FS_RemoveElement DEF TypeOK
<1>2. Cardinality(Calling) \in Nat /\ Cardinality(Calling') \in Nat
  BY <1>1, FS_CardinalityType DEF TypeOK
<1> QED BY <1>1, <1>2 DEF TypeOK, Decremented

\* The sessions and coming sessions are finitely many, no more than live
\* sessions and calls under way together.
LEMMA CapSets ==
  ASSUME TypeOK
  PROVE  /\ IsFiniteSet(live \cup Coming)
         /\ Cardinality(live \cup Coming) \in Nat
         /\ Cardinality(live \cup Coming) <= Cardinality(live) + pending
         /\ Cardinality(live) \in Nat
<1>1. IsFiniteSet(live) /\ IsFiniteSet(Calling) /\ Coming \subseteq Calling
  BY DEF TypeOK, Coming
<1>2. IsFiniteSet(Coming) /\ Cardinality(Coming) <= pending
  BY <1>1, FS_Subset DEF TypeOK
<1>3. /\ IsFiniteSet(live \cup Coming)
      /\ Cardinality(live \cup Coming)
           = Cardinality(live) + Cardinality(Coming) - Cardinality(live \cap Coming)
  BY <1>1, <1>2, FS_Union
<1>4. IsFiniteSet(live \cap Coming) BY <1>1, FS_Subset
<1>5. /\ Cardinality(live) \in Nat /\ Cardinality(Coming) \in Nat
      /\ Cardinality(live \cap Coming) \in Nat
      /\ Cardinality(live \cup Coming) \in Nat
  BY <1>1, <1>2, <1>3, <1>4, FS_CardinalityType
<1> QED BY <1>2, <1>3, <1>5 DEF TypeOK

\* Where no session is added and none comes up, the cap stays kept.
LEMMA CapShrinks ==
  ASSUME TypeOK, CapHolds, live' \cup Coming' \subseteq live \cup Coming
  PROVE  CapHolds'
<1>1. /\ IsFiniteSet(live' \cup Coming')
      /\ Cardinality(live' \cup Coming') <= Cardinality(live \cup Coming)
  BY CapSets, FS_Subset
<1>2. Cardinality(live' \cup Coming') \in Nat BY <1>1, FS_CardinalityType
<1> QED BY <1>1, <1>2, CapSets, SessionAssumption DEF CapHolds

(***************************************************************************)
(* Sessions leave.                                                         *)
(***************************************************************************)
LEMMA LeavesStore ==
  ASSUME IInv, NEW S \in SUBSET Inits, Leaves(S)
  PROVE  /\ live' \subseteq live /\ live' \subseteq initialized'
         /\ initialized' \subseteq Inits /\ IsFiniteSet(live')
         /\ busy' \in [Inits -> Nat] /\ age' \in [Inits -> Ages]
         /\ transport' \in [Inits -> {"none", "open", "closing", "closed"}]
         /\ serving' \in [Requests -> Inits \cup {NoSession}]
         /\ BusyIsExact' /\ LiveIsOpen'
<1>1. live' \subseteq live /\ initialized' = initialized /\ serving' = serving
  BY DEF Leaves
<1>2. IsFiniteSet(live') BY <1>1, FS_Subset DEF IInv, TypeOK
<1>3. \A s \in live' : s \notin S /\ s \in Inits BY DEF Leaves, IInv, TypeOK
<1>4. \A s \in live' : busy'[s] = busy[s] /\ transport'[s] = transport[s]
  BY <1>1, <1>3 DEF Leaves, IInv, TypeOK
<1>5. BusyIsExact'
  <2>1. \A s \in Inits : Serving(s)' = Serving(s) BY <1>1 DEF Serving
  <2> QED BY <1>1, <1>3, <1>4, <2>1 DEF BusyIsExact, IInv
<1>6. LiveIsOpen' BY <1>1, <1>4 DEF LiveIsOpen, IInv
<1>7. busy' \in [Inits -> Nat] BY DEF Leaves, IInv, TypeOK
<1> QED BY <1>1, <1>2, <1>5, <1>6, <1>7 DEF Leaves, IInv, TypeOK

LEMMA ExitStep ==
  ASSUME IInv, NEW S \in SUBSET Inits, Leaves(S), UNCHANGED <<pending, init>>,
         closed' \in BOOLEAN
  PROVE  IInv'
<1>1. Calling' = Calling BY DEF Calling
<1>2. Coming' = Coming BY <1>1 DEF Coming, Leaves
<1>3. TypeOK' BY <1>1, LeavesStore DEF TypeOK, IInv
<1>4. CapHolds' BY <1>2, LeavesStore, CapShrinks DEF IInv
<1>5. HandshakeOpen'
  <2> SUFFICES ASSUME NEW c \in Inits, init[c] \in {"connecting", "handling"},
                      c \notin initialized
               PROVE  transport'[c] = "open"
    BY DEF HandshakeOpen, Leaves
  <2>1. transport[c] = "open" BY DEF IInv, HandshakeOpen
  <2> QED BY <2>1 DEF Leaves
<1>6. SessionsWereInitialized' BY DEF SessionsWereInitialized, Leaves, IInv
<1> QED BY <1>3, <1>4, <1>5, <1>6, LeavesStore DEF IInv

(***************************************************************************)
(* The actions.                                                            *)
(***************************************************************************)
LEMMA AdmitStep == ASSUME IInv, NEW c \in Inits, InitAdmitted(c) PROVE IInv'
<1>0. TypeOK BY DEF IInv
<1>1. /\ init' \in [Inits -> {"none", "connecting", "handling", "failing", "done"}]
      /\ init'[c] = "connecting" /\ init[c] = "none"
      /\ \A d \in Inits \ {c} : init'[d] = init[d]
  BY <1>0 DEF InitAdmitted, TypeOK
<1>2. /\ transport' \in [Inits -> {"none", "open", "closing", "closed"}]
      /\ transport'[c] = "open"
      /\ \A d \in Inits \ {c} : transport'[d] = transport[d]
  BY <1>0 DEF InitAdmitted, TypeOK
<1>3. /\ UNCHANGED <<live, busy, age, initialized, serving, closed>>
      /\ pending' = pending + 1 /\ Admits
  BY DEF InitAdmitted
<1>4. c \notin initialized BY <1>1 DEF IInv, SessionsWereInitialized
<1>5. c \notin Calling /\ Calling' = Calling \cup {c} BY <1>1 DEF Calling
<1>6. TypeOK' BY <1>0, <1>1, <1>2, <1>3, <1>5, CallingGrows DEF TypeOK
<1>7. CapHolds'
  <2>1. Coming' \subseteq Coming \cup {c}
    <3> SUFFICES ASSUME NEW d \in Coming', d # c PROVE d \in Coming OBVIOUS
    <3>1. d \in Calling /\ d \in Inits BY <1>5 DEF Coming, Calling
    <3> QED BY <1>1, <1>3, <3>1 DEF Coming
  <2>2. live' \cup Coming' \subseteq (live \cup Coming) \cup {c} BY <1>3, <2>1
  <2> DEFINE T == live \cup Coming
  <2>3. IsFiniteSet(T \cup {c}) /\ Cardinality(T \cup {c}) <= Cardinality(T) + 1
    BY <1>0, CapSets, FS_AddElement
  <2>4. IsFiniteSet(live' \cup Coming')
        /\ Cardinality(live' \cup Coming') <= Cardinality(T \cup {c})
    BY <2>2, <2>3, FS_Subset
  <2>5. Cardinality(live' \cup Coming') \in Nat /\ Cardinality(T \cup {c}) \in Nat
    BY <2>3, <2>4, FS_CardinalityType
  <2>6. Cardinality(live) + pending < MaxSessions BY <1>3 DEF Admits
  <2>7. Cardinality(T) <= Cardinality(live) + pending /\ Cardinality(T) \in Nat
        /\ Cardinality(live) \in Nat /\ pending \in Nat
    BY <1>0, CapSets DEF TypeOK
  <2> HIDE DEF T
  <2> QED BY <2>3, <2>4, <2>5, <2>6, <2>7, SessionAssumption DEF CapHolds
<1>8. BusyIsExact' BY <1>3 DEF BusyIsExact, Serving, IInv
<1>9. LiveIsOpen'
  <2>1. c \notin live BY <1>0, <1>4 DEF TypeOK
  <2> QED BY <1>0, <1>2, <1>3, <2>1 DEF LiveIsOpen, IInv, TypeOK
<1>10. HandshakeOpen' BY <1>1, <1>2, <1>3 DEF HandshakeOpen, IInv
<1>11. SessionsWereInitialized'
  BY <1>0, <1>1, <1>3, <1>4 DEF SessionsWereInitialized, IInv, TypeOK
<1> QED BY <1>6, <1>7, <1>8, <1>9, <1>10, <1>11 DEF IInv

LEMMA RegisterStep == ASSUME IInv, NEW c \in Inits, Register(c) PROVE IInv'
<1>0. TypeOK BY DEF IInv
<1>1. /\ init[c] = "handling" /\ c \notin initialized
      /\ initialized' = initialized \cup {c} /\ live' = live \cup {c}
      /\ UNCHANGED <<pending, init, transport, serving, closed>>
  BY DEF Register
<1>2. /\ busy' \in [Inits -> Nat] /\ busy'[c] = 0
      /\ \A d \in Inits \ {c} : busy'[d] = busy[d]
      /\ age' \in [Inits -> Ages]
  BY <1>0, SessionAssumption DEF Register, TypeOK, Ages
<1>3. Calling' = Calling BY <1>1 DEF Calling
<1>4. TypeOK' BY <1>0, <1>1, <1>2, <1>3, FS_AddElement DEF TypeOK
<1>5. CapHolds'
  <2>1. c \in Coming BY <1>1 DEF Coming, Calling
  <2>2. Coming' \subseteq Coming BY <1>1, <1>3 DEF Coming
  <2> QED BY <1>0, <1>1, <2>1, <2>2, CapShrinks DEF IInv
<1>6. BusyIsExact'
  <2>1. \A s \in Inits : Serving(s)' = Serving(s) BY <1>1 DEF Serving
  <2>2. Serving(c) = {}
    BY <1>1, SessionAssumption DEF Serving, IInv, SessionsWereInitialized
  <2>3. Cardinality({}) = 0 BY FS_EmptySet
  <2>4. ASSUME NEW s \in live' PROVE busy'[s] = Cardinality(Serving(s)')
    <3>1. CASE s = c BY <1>2, <2>1, <2>2, <2>3, <3>1
    <3>2. CASE s # c
      <4>1. s \in live /\ s \in Inits BY <1>0, <1>1, <2>4, <3>2 DEF TypeOK
      <4> QED BY <1>2, <2>1, <3>2, <4>1 DEF IInv, BusyIsExact
    <3> QED BY <3>1, <3>2
  <2> QED BY <2>4 DEF BusyIsExact
<1>7. LiveIsOpen' BY <1>1 DEF LiveIsOpen, IInv, HandshakeOpen
<1>8. HandshakeOpen' BY <1>1 DEF HandshakeOpen, IInv
<1>9. SessionsWereInitialized' BY <1>1 DEF SessionsWereInitialized, IInv
<1> QED BY <1>4, <1>5, <1>6, <1>7, <1>8, <1>9 DEF IInv

\* The call moves on, the counter with it; the store stays.
LEMMA CallStep ==
  ASSUME IInv, NEW c \in Inits,
         InitRefused(c) \/ Connects(c) \/ InitReturns(c) \/ InitFailed(c)
  PROVE  IInv'
<1>0. TypeOK BY DEF IInv
<1>1. UNCHANGED <<live, busy, age, initialized, transport, serving, closed>>
  BY DEF InitRefused, Connects, InitReturns, InitFailed
<1>2. /\ init' \in [Inits -> {"none", "connecting", "handling", "failing", "done"}]
      /\ \A d \in Inits \ {c} : init'[d] = init[d]
      /\ \/ init[c] = "none" /\ init'[c] = "done" /\ pending' = pending
         \/ init[c] = "connecting" /\ init'[c] = "handling" /\ pending' = pending
         \/ /\ init[c] \in {"handling", "failing"} /\ init'[c] = "done"
            /\ pending' = Decremented(pending)
  BY <1>0 DEF InitRefused, Connects, InitReturns, InitFailed, TypeOK
<1>3. pending' \in Nat /\ IsFiniteSet(Calling') /\ pending' = Cardinality(Calling')
  <2>1. CASE init'[c] = "handling" \/ init[c] = "none"
    <3>1. Calling' = Calling BY <1>2, <2>1 DEF Calling
    <3> QED BY <1>0, <1>2, <2>1, <3>1 DEF TypeOK
  <2>2. CASE init[c] \in {"handling", "failing"} /\ init'[c] = "done"
    <3>1. c \in Calling /\ Calling' = Calling \ {c} BY <1>2, <2>2 DEF Calling
    <3>2. pending' = Decremented(pending) BY <1>2, <2>2
    <3> QED BY <1>0, <3>1, <3>2, CallingShrinks
  <2> QED BY <1>2, <2>1, <2>2
<1>4. TypeOK' BY <1>0, <1>1, <1>2, <1>3 DEF TypeOK
<1>5. Coming' \subseteq Coming BY <1>1, <1>2 DEF Coming, Calling
<1>6. CapHolds' BY <1>0, <1>1, <1>5, CapShrinks DEF IInv
<1>7. BusyIsExact' /\ LiveIsOpen' BY <1>1 DEF BusyIsExact, LiveIsOpen, Serving, IInv
<1>8. HandshakeOpen' BY <1>1, <1>2 DEF HandshakeOpen, IInv
<1>9. SessionsWereInitialized'
  <2>1. \A d \in initialized : init'[d] \notin {"none", "connecting"}
    BY <1>0, <1>2 DEF SessionsWereInitialized, IInv, TypeOK
  <2> QED BY <1>1, <2>1 DEF SessionsWereInitialized, IInv
<1> QED BY <1>4, <1>6, <1>7, <1>8, <1>9 DEF IInv

\* What the failed handshake does to the store is one of the ways out.
LEMMA ThrowLeaves ==
  ASSUME IInv, NEW c \in Inits, InitThrows(c)
  PROVE  \E S \in SUBSET Inits : Leaves(S)
<1>0. TypeOK BY DEF IInv
<1>1. UNCHANGED <<initialized, serving>> /\ init'[c] = "failing"
  BY <1>0 DEF InitThrows, TypeOK
<1>2. CASE c \in live
  <2>1. Expire({c}) BY <1>2 DEF InitThrows
  <2>2. Leaves({s \in {c} \cap live : Idle(s)}) BY <1>0, <1>1, <2>1, ExpireLeaves
  <2> QED BY <2>2
<1>3. CASE c \notin live
  <2>1. /\ UNCHANGED <<live, busy, age>>
        /\ transport' = [transport EXCEPT
              ![c] = IF transport[c] = "open" THEN "closing" ELSE transport[c]]
    BY <1>3 DEF InitThrows
  <2>2. /\ transport' \in [Inits -> {"none", "open", "closing", "closed"}]
        /\ \A d \in Inits \ {c} : transport'[d] = transport[d]
        /\ transport[c] = "none" => transport'[c] = "none"
    BY <1>0, <2>1 DEF TypeOK
  <2>3. busy' = [d \in Inits |-> IF d \in {} THEN 0 ELSE busy[d]]
    BY <1>0, <2>1 DEF TypeOK
  <2>4. Leaves({}) BY <1>0, <1>1, <1>3, <2>1, <2>2, <2>3 DEF Leaves, TypeOK
  <2> QED BY <2>4
<1> QED BY <1>2, <1>3

LEMMA ThrowStep == ASSUME IInv, NEW c \in Inits, InitThrows(c) PROVE IInv'
<1>0. TypeOK BY DEF IInv
<1>1. PICK S \in SUBSET Inits : Leaves(S) BY ThrowLeaves
<1>2. /\ init' \in [Inits -> {"none", "connecting", "handling", "failing", "done"}]
      /\ init[c] \in {"connecting", "handling"} /\ init'[c] = "failing"
      /\ \A d \in Inits \ {c} : init'[d] = init[d]
      /\ UNCHANGED <<pending, initialized, serving, closed>>
  BY <1>0 DEF InitThrows, TypeOK
<1>3. Calling' = Calling BY <1>2 DEF Calling
<1>4. Coming' \subseteq Coming
  <2> SUFFICES ASSUME NEW d \in Coming' PROVE d \in Coming OBVIOUS
  <2>1. d # c BY <1>2 DEF Coming
  <2>2. d \in Calling /\ d \in Inits BY <1>3 DEF Coming, Calling
  <2> QED BY <1>2, <2>1, <2>2 DEF Coming
<1>5. TypeOK' BY <1>0, <1>1, <1>2, <1>3, LeavesStore DEF TypeOK
<1>6. CapHolds' BY <1>0, <1>1, <1>4, LeavesStore, CapShrinks DEF IInv
<1>7. HandshakeOpen'
  <2> SUFFICES ASSUME NEW d \in Inits, init'[d] \in {"connecting", "handling"},
                      d \notin initialized
               PROVE  transport'[d] = "open"
    BY <1>2 DEF HandshakeOpen
  <2>1. init'[d] = init[d] BY <1>2
  <2>2. transport[d] = "open" BY <2>1 DEF IInv, HandshakeOpen
  <2> QED BY <1>1, <2>2 DEF Leaves
<1>8. SessionsWereInitialized' BY <1>0, <1>2 DEF SessionsWereInitialized, IInv, TypeOK
<1> QED BY <1>1, <1>5, <1>6, <1>7, <1>8, LeavesStore DEF IInv

\* A request comes to a session or goes from it.
LEMMA RequestStep ==
  ASSUME IInv, NEW r \in Requests,
         RequestEnds(r) \/ \E s \in Inits : RequestBegins(r, s)
  PROVE  IInv'
<1>0. TypeOK BY DEF IInv
<1> USE SessionAssumption
<1>1. UNCHANGED <<live, pending, init, initialized, transport, closed>>
  BY DEF RequestEnds, RequestBegins
<1>2. Calling' = Calling /\ Coming' = Coming BY <1>1 DEF Calling, Coming
<1>3. /\ serving' \in [Requests -> Inits \cup {NoSession}]
      /\ \A q \in Requests \ {r} : serving'[q] = serving[q]
      /\ serving'[r] # NoSession => serving'[r] \in live
  BY <1>0 DEF RequestEnds, RequestBegins, TypeOK
<1>4. busy' \in [Inits -> Nat] /\ age' \in [Inits -> Ages]
  BY <1>0 DEF RequestEnds, RequestBegins, TypeOK, Ages, Decremented
<1>5. TypeOK' BY <1>0, <1>1, <1>2, <1>3, <1>4 DEF TypeOK
<1>6. \A s \in Inits : IsFiniteSet(Serving(s)) /\ Cardinality(Serving(s)) \in Nat
  BY FS_Subset, FS_CardinalityType DEF Serving
<1>7. BusyIsExact'
  <2>1. ASSUME NEW s \in Inits, RequestBegins(r, s) PROVE BusyIsExact'
    <3>1. r \notin Serving(s) /\ Serving(s)' = Serving(s) \cup {r}
      BY <1>0, <2>1 DEF RequestBegins, Serving, TypeOK
    <3>2. Cardinality(Serving(s)') = Cardinality(Serving(s)) + 1
      BY <1>6, <3>1, FS_AddElement
    <3>3. \A t \in Inits \ {s} : Serving(t)' = Serving(t) /\ busy'[t] = busy[t]
      BY <1>0, <2>1 DEF RequestBegins, Serving, TypeOK
    <3>4. s \in live /\ busy'[s] = busy[s] + 1
      BY <1>0, <2>1 DEF RequestBegins, TypeOK
    <3>5. busy'[s] = Cardinality(Serving(s)')
      BY <3>2, <3>4 DEF IInv, BusyIsExact
    <3> QED BY <1>0, <1>1, <3>3, <3>5 DEF IInv, BusyIsExact, TypeOK
  <2>2. CASE RequestEnds(r)
    <3>1. PICK s \in Inits : s = serving[r] /\ s # NoSession
      BY <1>0, <2>2 DEF RequestEnds, TypeOK
    <3>2. r \in Serving(s) /\ Serving(s)' = Serving(s) \ {r}
      BY <1>0, <2>2, <3>1 DEF RequestEnds, Serving, TypeOK
    <3>3. Cardinality(Serving(s)') = Cardinality(Serving(s)) - 1
          /\ Cardinality(Serving(s)') \in Nat
      BY <1>6, <3>1, <3>2, FS_RemoveElement, FS_CardinalityType
    <3>4. \A t \in Inits \ {s} : Serving(t)' = Serving(t) /\ busy'[t] = busy[t]
      BY <1>0, <2>2, <3>1 DEF RequestEnds, Serving, TypeOK
    <3>5. s \in live => busy'[s] = Decremented(busy[s])
      BY <1>0, <2>2, <3>1 DEF RequestEnds, TypeOK
    <3>6. s \in live => busy'[s] = Cardinality(Serving(s)')
      BY <1>6, <3>1, <3>3, <3>5 DEF IInv, BusyIsExact, Decremented
    <3> QED BY <1>0, <1>1, <3>4, <3>6 DEF IInv, BusyIsExact, TypeOK
  <2> QED BY <2>1, <2>2
<1>8. CapHolds' /\ LiveIsOpen' /\ HandshakeOpen'
  BY <1>1, <1>2 DEF CapHolds, LiveIsOpen, HandshakeOpen, IInv
<1>9. SessionsWereInitialized'
  BY <1>0, <1>1, <1>3 DEF SessionsWereInitialized, IInv, TypeOK
<1> QED BY <1>5, <1>7, <1>8, <1>9 DEF IInv

LEMMA TickStep == ASSUME IInv, Tick PROVE IInv'
<1>1. UNCHANGED <<live, busy, pending, init, initialized, transport, serving, closed>>
  BY DEF Tick, StoreOnly
<1>2. age' \in [Inits -> Ages]
  BY SessionAssumption DEF Tick, IInv, TypeOK, Ages
<1>3. Calling' = Calling /\ Coming' = Coming BY <1>1 DEF Calling, Coming
<1>4. TypeOK' BY <1>1, <1>2, <1>3 DEF IInv, TypeOK
<1> QED BY <1>1, <1>3, <1>4 DEF IInv, CapHolds, BusyIsExact, LiveIsOpen, Serving,
           HandshakeOpen, SessionsWereInitialized

LEMMA Invariance == Spec => []IInv
<1>1. IInv /\ [Next]_mvars => IInv'
  <2> SUFFICES ASSUME IInv, [Next]_mvars PROVE IInv' OBVIOUS
  <2>1. CASE UNCHANGED mvars
    <3>1. Calling' = Calling /\ Coming' = Coming BY <2>1 DEF mvars, Calling, Coming
    <3> QED BY <2>1, <3>1 DEF mvars, IInv, TypeOK, CapHolds, BusyIsExact, LiveIsOpen,
               Serving, HandshakeOpen, SessionsWereInitialized
  <2>2. ASSUME NEW c \in Inits,
               Delete(c) \/ TimerFires(c) \/ TransportCloses(c) \/ CloseEnds(c)
        PROVE  IInv'
    <3>1. closed' \in BOOLEAN
      BY <2>2 DEF Delete, TimerFires, TransportCloses, CloseEnds, IInv, TypeOK
    <3> QED BY <2>2, <3>1, ExitsLeave, ExitStep
  <2>3. CASE Sweep \/ Close
    <3>1. closed' \in BOOLEAN BY <2>3 DEF Sweep, Close, IInv, TypeOK
    <3>2. \E S \in SUBSET Inits : Leaves(S) BY <2>3, SweepLeaves
    <3>3. UNCHANGED <<pending, init>> BY <2>3 DEF Sweep, Close, StoreOnly
    <3> QED BY <3>1, <3>2, <3>3, ExitStep
  <2> QED BY <2>1, <2>2, <2>3, AdmitStep, RegisterStep, CallStep, ThrowStep,
             RequestStep, TickStep DEF Next
<1> QED BY <1>1, InitIInv, PTL DEF Spec

(***************************************************************************)
(* The theorems.                                                           *)
(***************************************************************************)
\* Every variable keeps its type, and pendingInitializes counts the calls
\* under way: runInitialize gives back exactly the place it took.
THEOREM TypeCorrect == Spec => []TypeOK
<1>1. IInv => TypeOK BY DEF IInv
<1> QED BY <1>1, Invariance, PTL

\* Sessions and overlapping handshakes together keep config.maxSessions.
THEOREM SessionCap == Spec => []CapHolds
<1>1. IInv => CapHolds BY DEF IInv
<1> QED BY <1>1, Invariance, PTL

\* inFlight is the number of requests running on the session (runWithSession),
\* pendingInitializes that of initialize calls under way (runInitialize).
THEOREM CountsExact == Spec => []CountsAreExact
<1>1. IInv => CountsAreExact BY DEF IInv, TypeOK, CountsAreExact
<1> QED BY <1>1, Invariance, PTL

\* A session in the store has a transport nobody has begun to close.
THEOREM StoreHoldsOpenTransports == Spec => []LiveIsOpen
<1>1. IInv => LiveIsOpen BY DEF IInv
<1> QED BY <1>1, Invariance, PTL

\* expire never takes a session from under a running request.
THEOREM BusySessionsStay == Spec => NeverRetiredBusy
<1>1. IInv /\ [Next]_mvars
        => [\A s \in live \ live' :
              Serving(s) # {} => transport'[s] = "closed"]_mvars
  <2> SUFFICES ASSUME IInv, Next, NEW s \in live, s \notin live', Serving(s) # {}
               PROVE  transport'[s] = "closed"
    OBVIOUS
  <2>1. ~Idle(s)
    <3>1. IsFiniteSet(Serving(s)) BY SessionAssumption, FS_Subset DEF Serving
    <3>2. Cardinality(Serving(s)) # 0 BY <3>1, FS_EmptySet
    <3> QED BY <3>2 DEF Idle, IInv, BusyIsExact
  <2>2. \/ \E c \in Inits : \/ Delete(c) \/ TimerFires(c) \/ TransportCloses(c)
                             \/ CloseEnds(c) \/ InitThrows(c)
        \/ Sweep \/ Close
    BY DEF Next, InitAdmitted, InitRefused, Connects, Register, InitReturns,
           InitFailed, RequestEnds, RequestBegins, Tick
  <2>3. \E S \in SUBSET Inits : Leaves(S)
    BY <2>2, ExitsLeave, SweepLeaves, ThrowLeaves
  <2> QED BY <2>1, <2>3 DEF Leaves
<1> QED BY <1>1, Invariance, PTL DEF Spec, NeverRetiredBusy
=============================================================================
