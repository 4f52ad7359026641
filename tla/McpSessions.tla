---------------------------- MODULE McpSessions ----------------------------
(***************************************************************************)
(* The MCP sessions of the HTTP server: the store of live sessions, the    *)
(* initialize handshake that adds one, the requests served on it, and the  *)
(* ways it is retired (inactivity timer, sweeper, client DELETE, failed    *)
(* handshake, a transport that closes by itself, shutdown).                *)
(*                                                                         *)
(* The server runs on one event loop: an action is what runs from one      *)
(* await to the next.  A session is named by the initialize call that made *)
(* it.  Every arming of an expiry timer also records the activity, so the  *)
(* age of a session since then stands for both.                            *)
(*                                                                         *)
(* Refusals that leave the store alone (another identity, an unknown       *)
(* session, a body that is no initialize request) are not steps.           *)
(*                                                                         *)
(* A definition D_Slip is D with one plausible slip in the code; no action *)
(* uses it.  It serves to see that a property notices the slip.            *)
(***************************************************************************)
EXTENDS Integers, FiniteSets

CONSTANTS
    Inits,          \* initialize calls
    Requests,       \* request slots of the clients: one request at a time each
    MaxSessions,    \* config.maxSessions
    Ttl             \* config.sessionTtlMs

NoSession == "none"

ASSUME SessionAssumption ==
    /\ MaxSessions \in Nat /\ Ttl \in Nat
    /\ NoSession \notin Inits
    /\ IsFiniteSet(Requests)

VARIABLES
    live,           \* the sessions in the store
    busy,           \* inFlight of each
    age,            \* time since lastActivity, which armed the timer
    pending,        \* pendingInitializes
    init,           \* where each initialize call is
    initialized,    \* the calls whose transport has its session id
    transport,      \* the transport each call created
    serving,        \* the session each request runs on, or NoSession
    closed          \* close() of the manager was called

mvars == <<live, busy, age, pending, init, initialized, transport, serving, closed>>

\* Older than this is as old as the sweeper looks.
Ages == 0 .. 2 * Ttl + 1

Init ==
    /\ live = {}
    /\ busy = [c \in Inits |-> 0]
    /\ age = [c \in Inits |-> 0]
    /\ pending = 0
    /\ init = [c \in Inits |-> "none"]
    /\ initialized = {}
    /\ transport = [c \in Inits |-> "none"]
    /\ serving = [r \in Requests |-> NoSession]
    /\ closed = FALSE

-----------------------------------------------------------------------------
(* The store *)

\* The initialize call under way does not count until it is a session.
Admits_Slip == Cardinality(live) < MaxSessions
Admits == Cardinality(live) + pending < MaxSessions

Decremented(n) == IF n > 0 THEN n - 1 ELSE 0

\* A busy session is retired like any other.
Idle_Slip(s) == TRUE
Idle(s) == busy[s] = 0

\* What an entry counted goes with it.
Drop(S) ==
    /\ live' = live \ S
    /\ busy' = [c \in Inits |-> IF c \in S THEN 0 ELSE busy[c]]

\* The entry is dropped only when its transport has closed.
Expire_Slip(S) ==
    LET gone == {s \in S \cap live : Idle(s)}
    IN  /\ UNCHANGED <<live, busy>>
        /\ age' = [c \in Inits |-> IF c \in (S \cap live) \ gone THEN 0 ELSE age[c]]
        /\ transport' = [c \in Inits |-> IF c \in gone THEN "closing" ELSE transport[c]]

\* expire, of each of some sessions: the idle ones leave the store and their
\* transports begin to close; the busy ones have their timer armed again.
Expire(S) ==
    LET gone == {s \in S \cap live : Idle(s)}
    IN  /\ Drop(gone)
        /\ age' = [c \in Inits |-> IF c \in S \cap live THEN 0 ELSE age[c]]
        /\ transport' = [c \in Inits |-> IF c \in gone THEN "closing" ELSE transport[c]]

-----------------------------------------------------------------------------
(* runInitialize *)

InitAdmitted(c) ==
    /\ init[c] = "none"
    /\ Admits
    /\ init' = [init EXCEPT ![c] = "connecting"]
    /\ pending' = pending + 1
    /\ transport' = [transport EXCEPT ![c] = "open"]
    /\ UNCHANGED <<live, busy, age, initialized, serving, closed>>

\* 429
InitRefused(c) ==
    /\ init[c] = "none"
    /\ ~Admits
    /\ init' = [init EXCEPT ![c] = "done"]
    /\ UNCHANGED <<live, busy, age, pending, initialized, transport, serving, closed>>

Connects(c) ==
    /\ init[c] = "connecting"
    /\ init' = [init EXCEPT ![c] = "handling"]
    /\ UNCHANGED <<live, busy, age, pending, initialized, transport, serving, closed>>

\* onSessionInitialized, from within handleRequest.
Register(c) ==
    /\ init[c] = "handling" /\ c \notin initialized
    /\ initialized' = initialized \cup {c}
    /\ live' = live \cup {c}
    /\ busy' = [busy EXCEPT ![c] = 0]
    /\ age' = [age EXCEPT ![c] = 0]
    /\ UNCHANGED <<pending, init, transport, serving, closed>>

InitReturns(c) ==
    /\ init[c] = "handling"
    /\ init' = [init EXCEPT ![c] = "done"]
    /\ pending' = Decremented(pending)
    /\ UNCHANGED <<live, busy, age, initialized, transport, serving, closed>>

\* connect or handleRequest throws: a session still in the store expires, a
\* transport without one is closed.
InitThrows(c) ==
    /\ init[c] \in {"connecting", "handling"}
    /\ init' = [init EXCEPT ![c] = "failing"]
    /\ \/ c \in live /\ Expire({c})
       \/ /\ c \notin live
          /\ transport' = [transport EXCEPT
                ![c] = IF transport[c] = "open" THEN "closing" ELSE transport[c]]
          /\ UNCHANGED <<live, busy, age>>
    /\ UNCHANGED <<pending, initialized, serving, closed>>

\* The throw skips the decrement.
InitFailed_Slip(c) ==
    /\ init[c] = "failing"
    /\ init' = [init EXCEPT ![c] = "done"]
    /\ UNCHANGED <<live, busy, age, pending, initialized, transport, serving, closed>>

\* The transport closed, or the close timed out.
InitFailed(c) ==
    /\ init[c] = "failing"
    /\ init' = [init EXCEPT ![c] = "done"]
    /\ pending' = Decremented(pending)
    /\ UNCHANGED <<live, busy, age, initialized, transport, serving, closed>>

-----------------------------------------------------------------------------
(* handleExisting *)

RequestBegins(r, s) ==
    /\ serving[r] = NoSession
    /\ s \in live
    /\ serving' = [serving EXCEPT ![r] = s]
    /\ busy' = [busy EXCEPT ![s] = @ + 1]
    /\ age' = [age EXCEPT ![s] = 0]
    /\ UNCHANGED <<live, pending, init, initialized, transport, closed>>

\* A request that threw does not give its count back.
RequestEnds_Slip(r) ==
    /\ serving[r] # NoSession
    /\ serving' = [serving EXCEPT ![r] = NoSession]
    /\ LET s == serving[r]
       IN  \E threw \in BOOLEAN :
             IF s \in live /\ ~threw
             THEN /\ busy' = [busy EXCEPT ![s] = Decremented(@)]
                  /\ age' = [age EXCEPT ![s] = 0]
             ELSE UNCHANGED <<busy, age>>
    /\ UNCHANGED <<live, pending, init, initialized, transport, closed>>

\* handleRequest returns or throws; the session may be gone by then.
RequestEnds(r) ==
    /\ serving[r] # NoSession
    /\ serving' = [serving EXCEPT ![r] = NoSession]
    /\ LET s == serving[r]
       IN  IF s \in live
           THEN /\ busy' = [busy EXCEPT ![s] = Decremented(@)]
                /\ age' = [age EXCEPT ![s] = 0]
           ELSE UNCHANGED <<busy, age>>
    /\ UNCHANGED <<live, pending, init, initialized, transport, closed>>

-----------------------------------------------------------------------------
(* The ways out *)

StoreOnly == UNCHANGED <<pending, init, initialized, serving>>

\* A client DELETE; it is answered "session closed" also when a busy session
\* stays.
Delete(s) ==
    /\ s \in live
    /\ Expire({s})
    /\ StoreOnly /\ UNCHANGED closed

TimerFires(s) ==
    /\ s \in live /\ age[s] >= Ttl
    /\ Expire({s})
    /\ StoreOnly /\ UNCHANGED closed

\* The sweeper takes what the timers left for twice the TTL.
Sweep ==
    /\ ~closed
    /\ \E s \in live : Idle(s) /\ age[s] > 2 * Ttl
    /\ Expire({s \in live : Idle(s) /\ age[s] > 2 * Ttl})
    /\ StoreOnly /\ UNCHANGED closed

\* close() of the manager
Close ==
    /\ ~closed /\ closed' = TRUE
    /\ Expire(live)
    /\ StoreOnly

\* onclose: a transport that closes under its session takes it along.
TransportCloses(c) ==
    /\ c \in initialized /\ transport[c] = "open"
    /\ transport' = [transport EXCEPT ![c] = "closed"]
    /\ Drop({c})
    /\ age' = [age EXCEPT ![c] = 0]
    /\ StoreOnly /\ UNCHANGED closed

CloseEnds(c) ==
    /\ transport[c] = "closing"
    /\ transport' = [transport EXCEPT ![c] = "closed"]
    /\ Drop({c})
    /\ age' = [age EXCEPT ![c] = 0]
    /\ StoreOnly /\ UNCHANGED closed

Tick ==
    /\ \E s \in live : age[s] <= 2 * Ttl
    /\ age' = [c \in Inits |-> IF c \in live /\ age[c] <= 2 * Ttl
                               THEN age[c] + 1 ELSE age[c]]
    /\ StoreOnly /\ UNCHANGED <<live, busy, transport, closed>>

Next ==
    \/ \E c \in Inits :
         \/ InitAdmitted(c) \/ InitRefused(c) \/ Connects(c) \/ Register(c)
         \/ InitReturns(c) \/ InitThrows(c) \/ InitFailed(c)
         \/ Delete(c) \/ TimerFires(c) \/ TransportCloses(c) \/ CloseEnds(c)
    \/ \E r \in Requests : RequestEnds(r) \/ \E s \in Inits : RequestBegins(r, s)
    \/ Sweep \/ Close \/ Tick

Spec == Init /\ [][Next]_mvars

\* The clock runs and timers fire, in the end.
FairSpec == Spec /\ WF_mvars(Tick) /\ \A s \in Inits : WF_mvars(TimerFires(s))

-----------------------------------------------------------------------------
(* Properties *)

Calling == {c \in Inits : init[c] \in {"connecting", "handling", "failing"}}

Serving(s) == {r \in Requests : serving[r] = s}

\* Every variable keeps its type; pendingInitializes counts, see CountsAreExact.
TypeOK ==
    /\ live \subseteq initialized
    /\ busy \in [Inits -> Nat]
    /\ age \in [Inits -> Ages]
    /\ pending \in Nat
    /\ init \in [Inits -> {"none", "connecting", "handling", "failing", "done"}]
    /\ initialized \subseteq Inits
    /\ transport \in [Inits -> {"none", "open", "closing", "closed"}]
    /\ serving \in [Requests -> Inits \cup {NoSession}]
    /\ closed \in BOOLEAN
    /\ IsFiniteSet(live) /\ IsFiniteSet(Calling)
    /\ pending = Cardinality(Calling)

Coming == {c \in Calling : c \notin initialized /\ init[c] # "failing"}

\* The sessions, with those that handshakes under way may still add, never
\* exceed the cap, however handshakes overlap.
CapHolds == Cardinality(live \cup Coming) <= MaxSessions

BusyIsExact ==
    \A s \in live : busy[s] = Cardinality(Serving(s))

\* inFlight counts exactly the requests that run on a session, which would
\* otherwise never expire, or expire under a request; pendingInitializes the
\* initialize calls under way: no path through one leaks a place in the cap
\* or gives it back twice.
CountsAreExact == BusyIsExact /\ pending = Cardinality(Calling)

\* No timer, sweep, DELETE, shutdown or failed handshake retires a session
\* under a running request; only its own transport closing takes it away.
NeverRetiredBusy ==
    [][\A s \in live \ live' :
          Serving(s) # {} => transport'[s] = "closed"]_mvars

\* A session in the store has an open transport: once one way out began to
\* close it no request reaches it and no other way out closes it again.
LiveIsOpen == \A s \in live : transport[s] = "open"

\* Under FairSpec a session on which no more requests run leaves the store.
AbandonedGoes ==
    \A s \in Inits :
        <>[](Serving(s) = {}) => []<>(s \notin live)
=============================================================================
