---------------------------- MODULE Distillation ----------------------------
(***************************************************************************)
(* Raw turns into candidate memories: ingest, the recurring producer that  *)
(* turns backlog into queued jobs, the handler that claims a window of     *)
(* turns, extracts from it and stamps it, and the server's start and stop. *)
(*                                                                         *)
(* The job queue is taken as MaintenanceQueue promises it: at most one     *)
(* live job per key, a job is started at most MaxAttempts times, and an    *)
(* execution whose lease expired goes on although the job is queued again. *)
(* Every SQL statement, and the transaction of a persist, is one step.     *)
(***************************************************************************)
EXTENDS Integers, FiniteSets

CONSTANTS
    Turns,          \* turn ids, numbered in the order ids break ties
    Lane,           \* the (namespace, lane) of a turn
    Session,        \* its session_ref, a number; no session_ref sorts last
    When,           \* its occurred_at
    Kind,           \* "claim", "ack", "tool", or "noise", see Speech
    Text,           \* what it says: equal texts have equal content hashes
    Backfilled,     \* the turns that migrations 036 and 039 gave a session_seq
    MaxSessions, MaxTurns, ContextWindow, MaxAttempts,
    QuietThreshold, \* in intervals of the producer
    Slots,          \* the runner's concurrency slots
    MaxFaults       \* bound: failed or hung statements, lost leases, crashes, stops

ASSUME DistillAssumption ==
    /\ Turns \subseteq Nat \ {0} /\ IsFiniteSet(Turns)
    /\ Session \in [Turns -> Nat] /\ When \in [Turns -> Nat]
    /\ Kind \in [Turns -> {"claim", "ack", "tool", "noise"}]
    /\ DOMAIN Lane = Turns /\ DOMAIN Text = Turns
    /\ Backfilled \subseteq {t \in Turns : Kind[t] # "noise"}
    /\ {MaxSessions, MaxTurns, MaxAttempts} \subseteq Nat \ {0}
    /\ {ContextWindow, QuietThreshold, MaxFaults} \subseteq Nat

VARIABLES
    turn,      \* ob_raw_turns: "absent", "due" (distilled_at NULL), "distilled"
    cand,      \* candidate_memory: the turn a claim came from, and its context
    jobs,      \* live memory.distill jobs
    slot,      \* what each concurrency slot executes
    sweep,     \* the recurring producer
    server,    \* "up", "stopping" (sweep), "draining" (runner), "stopped", "down"
    faults     \* faults and stops so far

vars == <<turn, cand, jobs, slot, sweep, server, faults>>

None == 0
Lanes == {Lane[t] : t \in Turns}
Windows == SUBSET Turns
Key == [lane: Lanes, window: Windows]
Unit == [turn: Turns, prior: Turns \cup {None}]
Job == [key: Key, state: {"queued", "running"}, attempts: 0 .. MaxAttempts]
FreeSlot == [pc |-> "free", key |-> [lane |-> None, window |-> {}],
             holds |-> FALSE, batch |-> {}, units |-> {}]
IdleSweep == [pc |-> "idle", todo |-> {}, quiet |-> 0]

\* isSpeech and carriesNoClaim: an acknowledgement is speech that means
\* something only with what it answers; a tool turn is context only.
Speech == {t \in Turns : Kind[t] \in {"claim", "ack"}}

Due == {t \in Turns : turn[t] = "due"}
DueIn(lane) == {t \in Due : Lane[t] = lane}

\* ORDER BY ... LIMIT n, for an order without ties
First(S, n, Earlier(_, _)) ==
    {x \in S : Cardinality({y \in S : Earlier(y, x)}) < n}

\* DISTILL_ORDER_BY: session_ref NULLS LAST, occurred_at, id
TurnBefore(t, u) ==
    \/ Session[t] < Session[u]
    \/ /\ Session[t] = Session[u]
       /\ When[t] < When[u] \/ (When[t] = When[u] /\ t < u)

FirstDue(lane, s) ==
    LET times == {When[t] : t \in {x \in DueIn(lane) : Session[x] = s}}
    IN  CHOOSE x \in times : \A y \in times : x <= y

DueSessions(lane) == {Session[t] : t \in DueIn(lane)}

WindowOf(lane, sessions) ==
    First({t \in DueIn(lane) : Session[t] \in sessions}, MaxTurns, TurnBefore)

\* The producer breaks ties between sessions by session_ref, the claim does not.
ProducerSessions(lane) ==
    LET Earlier(s, u) == \/ FirstDue(lane, s) < FirstDue(lane, u)
                         \/ FirstDue(lane, s) = FirstDue(lane, u) /\ s < u
    IN  First(DueSessions(lane), MaxSessions, Earlier)

ClaimSessions(lane) ==
    {S \in SUBSET DueSessions(lane) :
        /\ Cardinality(S) = IF Cardinality(DueSessions(lane)) < MaxSessions
                              THEN Cardinality(DueSessions(lane)) ELSE MaxSessions
        /\ \A s \in S, u \in DueSessions(lane) \ S : FirstDue(lane, s) <= FirstDue(lane, u)}

Init ==
    /\ turn = [t \in Turns |-> IF t \in Backfilled THEN "due" ELSE "absent"]
    /\ cand = {}
    /\ jobs = {}
    /\ slot = [w \in Slots |-> FreeSlot]
    /\ sweep = IdleSweep
    /\ server = "down"
    /\ faults = 0

Fault == faults < MaxFaults /\ faults' = faults + 1

(***************************************************************************)
(* ingest_raw_turn: harness noise is dropped, a turn_uuid already stored   *)
(* is left alone, and session_seq stays NULL.                              *)
(***************************************************************************)
Ingest(batch) ==
    LET kept == {t \in batch : Kind[t] # "noise" /\ turn[t] = "absent"}
    IN  /\ kept # {}
        /\ turn' = [t \in Turns |-> IF t \in kept THEN "due" ELSE turn[t]]
        /\ UNCHANGED <<cand, jobs, slot, sweep, server, faults>>

(***************************************************************************)
(* The producer: startRecurringMaintenanceSweep and runMaintenanceSweep.   *)
(***************************************************************************)
Quieter == IF sweep.quiet > QuietThreshold THEN sweep.quiet ELSE sweep.quiet + 1

\* liveness().stale: the age of the last COMPLETED tick
Stale == sweep.quiet > QuietThreshold

\* An interval fires: a tick starts, or is declined while one is in flight.
IntervalFires_CountsAttempts ==
    /\ server = "up"
    /\ sweep' = [sweep EXCEPT !.pc = IF @ = "idle" THEN "select" ELSE @, !.quiet = 0]
    /\ UNCHANGED <<turn, cand, jobs, slot, server, faults>>
IntervalFires ==
    /\ server = "up"
    /\ sweep' = [sweep EXCEPT !.pc = IF @ = "idle" THEN "select" ELSE @,
                              !.quiet = Quieter]
    /\ UNCHANGED <<turn, cand, jobs, slot, server, faults>>

\* selectDistillLaneBatches: the window of each lane that has due turns
SelectBatches ==
    /\ sweep.pc = "select"
    /\ sweep' = [sweep EXCEPT
                   !.pc = "enqueue",
                   !.todo = {[lane |-> l, window |-> WindowOf(l, ProducerSessions(l))] :
                                l \in {x \in Lanes : DueIn(x) # {}}}]
    /\ UNCHANGED <<turn, cand, jobs, slot, server, faults>>

LiveKeys == {j.key : j \in jobs}

NewJob(key) == [key |-> key, state |-> "queued", attempts |-> 0]

\* enqueueDistillBatches: a key that is live is deduped
EnqueueBatch ==
    /\ sweep.pc = "enqueue"
    /\ \E key \in sweep.todo :
          /\ sweep' = [sweep EXCEPT !.todo = @ \ {key}]
          /\ jobs' = jobs \cup (IF key \in LiveKeys THEN {} ELSE {NewJob(key)})
    /\ UNCHANGED <<turn, cand, slot, server, faults>>

TickEnds == sweep' = IdleSweep

\* The other producers of the tick run, and it completes.
SweepDone ==
    /\ sweep.pc = "enqueue" /\ sweep.todo = {}
    /\ TickEnds
    /\ UNCHANGED <<turn, cand, jobs, slot, server, faults>>

\* A statement throws: the tick is abandoned, and counts as completed.
SweepError ==
    /\ sweep.pc \in {"select", "enqueue"}
    /\ Fault
    /\ TickEnds
    /\ UNCHANGED <<turn, cand, jobs, slot, server>>

\* A statement of the tick does not return; it may, or never.
SweepHangs ==
    /\ sweep.pc \in {"select", "enqueue"}
    /\ Fault
    /\ sweep' = [sweep EXCEPT !.pc = "hung", !.todo = {}]
    /\ UNCHANGED <<turn, cand, jobs, slot, server>>

SweepUnhangs ==
    /\ sweep.pc = "hung"
    /\ TickEnds
    /\ UNCHANGED <<turn, cand, jobs, slot, server, faults>>

(***************************************************************************)
(* The handler: runDistillSweep.                                           *)
(***************************************************************************)
\* The position migration 036 gave a turn within its session.
Seq(t) == Cardinality({u \in Backfilled : Session[u] = Session[t] /\ TurnBefore(u, t)})

\* context_turns: only turns with a session_seq bring or are context.
ContextTurns(batch) ==
    {c \in Backfilled :
        \E lo, hi \in batch \cap Backfilled :
           /\ Session[lo] = Session[c] /\ Session[hi] = Session[c]
           /\ Lane[lo] = Lane[c]
           /\ Seq(c) >= Seq(lo) - ContextWindow
           /\ Seq(c) <= Seq(hi)}

\* buildUnits and nearestSpeechContext: the last speech among the
\* ContextWindow turns before t that the builder sees, in t's own session.
Prior(t, visible) ==
    LET before == {u \in visible : Session[u] = Session[t] /\ TurnBefore(u, t)}
        Later(x, y) == TurnBefore(y, x)
        speech == First(before, ContextWindow, Later) \cap Speech
    IN  IF speech = {} THEN None
        ELSE CHOOSE u \in speech : \A x \in speech \ {u} : TurnBefore(x, u)

\* Only an acknowledgement carries what it answers into its content.
Extract(t, visible) ==
    [turn |-> t, prior |-> IF Kind[t] = "ack" THEN Prior(t, visible) ELSE None]

\* A slot takes a queued job and claims a window: one statement that locks
\* nothing, so another slot may claim the same turns.
Claim(w) ==
    /\ server \in {"up", "stopping"}
    /\ slot[w].pc = "free"
    /\ \E j \in jobs :
          /\ j.state = "queued"
          /\ jobs' = (jobs \ {j}) \cup {[j EXCEPT !.state = "running", !.attempts = @ + 1]}
          /\ \E S \in ClaimSessions(j.key.lane) :
                LET batch == WindowOf(j.key.lane, S)
                    visible == batch \cup ContextTurns(batch)
                IN  slot' = [slot EXCEPT ![w] =
                               [pc |-> "persist", key |-> j.key, holds |-> TRUE, batch |-> batch,
                                units |-> {Extract(t, visible) : t \in batch \cap Speech}]]
    /\ UNCHANGED <<turn, cand, sweep, server, faults>>

SameContent(c, d) ==
    /\ Lane[c.turn] = Lane[d.turn]
    /\ Text[c.turn] = Text[d.turn]
    /\ c.prior = None <=> d.prior = None
    /\ c.prior # None => Text[c.prior] = Text[d.prior]

\* The candidates ON CONFLICT (namespace, content_hash) DO NOTHING lets in.
NewCandidates(units) ==
    {u \in units :
        /\ \A c \in cand : ~SameContent(c, u)
        /\ \A v \in units \ {u} : SameContent(v, u) => TurnBefore(u.turn, v.turn)}

Stamped_WholeLane(w) == DueIn(slot[w].key.lane)
Stamped_UnitsOnly(w) == {u.turn : u \in slot[w].units}
Stamped(w) == slot[w].batch

\* persist: candidates and stamps in one transaction; an empty claim writes nothing.
PersistWrites(w) ==
    /\ cand' = cand \cup NewCandidates(slot[w].units)
    /\ turn' = [t \in Turns |-> IF t \in Stamped(w) THEN "distilled" ELSE turn[t]]

\* The queue's answer to an execution: the job is gone, or queued again.
Settle(w, ok) ==
    /\ slot' = [slot EXCEPT ![w] = FreeSlot]
    /\ jobs' = IF ~slot[w].holds THEN jobs
               ELSE {j \in jobs : j.key # slot[w].key} \cup
                    {[j EXCEPT !.state = "queued"] :
                       j \in {x \in jobs : /\ x.key = slot[w].key /\ ~ok
                                           /\ x.attempts < MaxAttempts}}

Persist(w) ==
    /\ slot[w].pc = "persist"
    /\ PersistWrites(w)
    /\ Settle(w, TRUE)
    /\ UNCHANGED <<sweep, server, faults>>

\* The claim or the transaction throws; the commit may have happened.
HandlerError(w) ==
    /\ slot[w].pc = "persist"
    /\ Fault
    /\ UNCHANGED <<turn, cand>> \/ PersistWrites(w)
    /\ Settle(w, FALSE)
    /\ UNCHANGED <<sweep, server>>

\* The lease of an execution expires under it and the job becomes due again.
LeaseLost(w) ==
    /\ slot[w].holds
    /\ Fault
    /\ slot' = [slot EXCEPT ![w].holds = FALSE]
    /\ jobs' = {j \in jobs : j.key # slot[w].key} \cup
               {[j EXCEPT !.state = "queued"] :
                  j \in {x \in jobs : x.key = slot[w].key /\ x.attempts < MaxAttempts}}
    /\ UNCHANGED <<turn, cand, sweep, server>>

(***************************************************************************)
(* The server: the producer stops first, then the runner drains.           *)
(***************************************************************************)
Start ==
    /\ server \in {"down", "stopped"}
    /\ server' = "up"
    /\ sweep' = [IdleSweep EXCEPT !.pc = "select"]
    /\ UNCHANGED <<turn, cand, jobs, slot, faults>>

Stop ==
    /\ server = "up"
    /\ Fault
    /\ server' = "stopping"
    /\ UNCHANGED <<turn, cand, jobs, slot, sweep>>

SweepStopped_NoAwait ==
    /\ server = "stopping"
    /\ server' = "draining"
    /\ UNCHANGED <<turn, cand, jobs, slot, sweep, faults>>
SweepStopped ==
    /\ server = "stopping"
    /\ sweep.pc = "idle"
    /\ server' = "draining"
    /\ UNCHANGED <<turn, cand, jobs, slot, sweep, faults>>

Drained ==
    /\ server = "draining"
    /\ \A w \in Slots : slot[w].pc = "free"
    /\ server' = "stopped"
    /\ UNCHANGED <<turn, cand, jobs, slot, sweep, faults>>

\* A crash: leases run out, so the jobs of the process become due again.
Crash ==
    /\ server # "down"
    /\ Fault
    /\ server' = "down"
    /\ sweep' = IdleSweep
    /\ slot' = [w \in Slots |-> FreeSlot]
    /\ jobs' = {[j EXCEPT !.state = "queued"] : j \in {x \in jobs : x.attempts < MaxAttempts}}
    /\ UNCHANGED <<turn, cand>>

SweepNext ==
    \/ IntervalFires \/ SelectBatches \/ EnqueueBatch \/ SweepDone
    \/ SweepError \/ SweepHangs \/ SweepUnhangs

SlotNext(w) ==
    \/ Claim(w) \/ Persist(w) \/ HandlerError(w) \/ LeaseLost(w)

Next ==
    \/ \E batch \in SUBSET Turns : Ingest(batch)
    \/ SweepNext
    \/ \E w \in Slots : SlotNext(w)
    \/ Start \/ Stop \/ SweepStopped \/ Drained \/ Crash

Spec == Init /\ [][Next]_vars

(***************************************************************************)
(* Fairness: timers fire, statements that do not hang return, the runner   *)
(* polls, a supervisor restarts the server.  A hung statement need not     *)
(* return.                                                                 *)
(***************************************************************************)
Fairness ==
    /\ WF_vars(IntervalFires)
    /\ WF_vars(SelectBatches \/ EnqueueBatch \/ SweepDone)
    /\ WF_vars(SweepStopped \/ Drained \/ Start)
    /\ \A w \in Slots : WF_vars(Claim(w) \/ Persist(w))

FairSpec == Spec /\ Fairness

(***************************************************************************)
(* Properties.                                                             *)
(***************************************************************************)
\* Turns, candidates, jobs, slots and the producer have the fields and states
\* of their columns and objects; live jobs have distinct keys.
TypeOK ==
    /\ turn \in [Turns -> {"absent", "due", "distilled"}]
    /\ cand \subseteq Unit
    /\ jobs \subseteq Job
    /\ \A i, j \in jobs : i.key = j.key => i = j
    /\ sweep.pc \in {"idle", "select", "enqueue", "hung"}
    /\ sweep.todo \subseteq Key
    /\ sweep.quiet \in 0 .. QuietThreshold + 1
    /\ server \in {"up", "stopping", "draining", "stopped", "down"}
    /\ \A w \in Slots : slot[w].units \subseteq Unit /\ slot[w].batch \subseteq Turns

\* "The state that would silently lose content: turns marked distilled with no
\* candidates behind them" (distill-persist.ts) is never reached, although
\* overlapping jobs claim without locks, turns arrive between claim and persist,
\* and equal content is deduplicated.
StampedWasExtracted ==
    \A t \in Speech : turn[t] = "distilled" =>
       \E c \in cand : Lane[c.turn] = Lane[t] /\ Text[c.turn] = Text[t]

\* Every stored turn is distilled, through errors, lost leases, exhausted jobs
\* and restarts, unless a tick hangs for ever: producer and claim agree on what
\* is due, and no key outlives its work (the two 27-day starvations).
EveryTurnDistilled == []<>(Due = {} \/ sweep.pc = "hung")

\* The producer adds no work once the runner has begun to drain, so a stop
\* leaves no freshly queued job that nothing polls for (maintenance/index.ts).
NoWorkAfterDrain ==
    [][(server \in {"draining", "stopped"}) => (LiveKeys' \subseteq LiveKeys)]_vars

\* A hung tick cannot stay invisible: the producer reports itself stale, however
\* often the timer fires in between (issue 625).
HungTickShows ==
    sweep.pc = "hung" ~> (Stale \/ sweep.pc # "hung" \/ server # "up")
=============================================================================
