-------------------------- MODULE MaintenanceQueue --------------------------
(***************************************************************************)
(* The durable maintenance_jobs queue and the runners that drain it.       *)
(*                                                                         *)
(* Rows are changed by single SQL statements, so a statement is one step.  *)
(* Everything between two statements of a process (a caller of enqueue, a  *)
(* runner's tick, one execution of a job and its heartbeat) interleaves    *)
(* with every other process.  A process reads its own clock when it ISSUES *)
(* a statement; the statement takes effect later, may fail, and may take   *)
(* effect although its answer is lost.                                     *)
(*                                                                         *)
(* A definition D_Slip, where Slip names a plausible slip in the code, is  *)
(* D with that slip; no action uses it.  It serves to see that a property  *)
(* notices the slip.                                                       *)
(***************************************************************************)
EXTENDS Integers, FiniteSets

CONSTANTS
    MaxRows,        \* bound: rows ever inserted
    Keys,           \* (job_kind, idempotency_key) pairs
    HandledKeys,    \* those whose kind has a registered handler
    Specs,          \* the semantics enqueueSemanticsDiverge compares
    MaxAttempts,    \* max_attempts of each member of Specs
    Callers,        \* processes that call enqueue
    Runners,        \* MaintenanceQueueRunner processes
    StableRunners,  \* runners that neither crash nor are stopped
    Workers,        \* the concurrency slots of all runners
    RunnerOf,       \* the runner a slot belongs to
    Skew,           \* how far a runner's clock is ahead
    LeaseMs, RenewMs, BackoffBase, BackoffMax,
    RunDelays,      \* how far in the future enqueue may set run_after
    MaxFaults,      \* bound: crashes and failed statements per runner
    MaxRenews,      \* bound: heartbeats of one execution
    MaxCalls,       \* bound: enqueue calls of one caller
    MaxNow,         \* bound: real time
    Punctual        \* TRUE: statements are instant and timers fire on time

ASSUME QueueAssumption ==
    /\ MaxRows \in Nat
    /\ HandledKeys \subseteq Keys
    /\ MaxAttempts \in [Specs -> Nat \ {0}]
    /\ StableRunners \subseteq Runners
    /\ IsFiniteSet(Workers)
    /\ RunnerOf \in [Workers -> Runners]
    /\ Skew \in [Runners -> Nat]
    /\ LeaseMs \in Nat \ {0}
    /\ RenewMs \in Nat \ {0}
    /\ BackoffBase \in Nat \ {0}
    /\ BackoffMax \in Nat \ {0}
    /\ RunDelays \subseteq Nat
    /\ MaxFaults \in Nat
    /\ MaxRenews \in Nat
    /\ MaxCalls \in Nat
    /\ MaxNow \in Nat
    /\ Keys # {} /\ Specs # {}
    /\ Punctual \in BOOLEAN

VARIABLES
    now,      \* real time
    rows,     \* the table: row ids are given in insertion order
    nRows,    \* rows inserted so far
    nTokens,  \* lease tokens minted so far (crypto.randomUUID)
    enq,      \* each caller's enqueue call
    runner,   \* each runner's lifecycle and its tick
    exec,     \* what each slot executes
    hist      \* history: handler starts, how handlers ended, tokens by runner

qvars == <<now, rows, nRows, nTokens, enq, runner, exec, hist>>

Jobs == 1 .. MaxRows
NoToken == 0
NoJob == 0

States == {"absent", "queued", "running", "succeeded", "dead_letter"}
Live == {"queued", "running"}
Terminal == {"succeeded", "dead_letter"}

Row == [state: States, key: Keys, spec: Specs, run_after: Nat,
        lease_token: Nat, lease_until: Nat, attempts: Nat]

Enq == [pc: {"idle", "insert", "select", "reinsert", "done"},
        key: Keys, spec: Specs, runAfter: Nat,
        outcome: {"none", "created", "deduped", "divergent",
                  "lookup_failed", "error"},
        row: Jobs \cup {NoJob}, calls: 0 .. MaxCalls,
        oldRows: Nat, oldTerminal: SUBSET Jobs]

Runner == [phase: {"up", "stopping", "stopped", "down"},
           claiming: BOOLEAN, now: Nat, limit: Nat, faults: Nat]

Results == {"ok", "error", "terminal"}

Hist == [starts: [Jobs -> Nat], ends: [Jobs -> SUBSET Results],
         minted: [Runners -> SUBSET Nat]]

Exec == [pc: {"free", "handle", "settle", "complete", "fail"},
         job: Jobs \cup {NoJob}, token: Nat,
         hb: {"off", "timer", "renewing"}, due: Nat, renews: Nat,
         now: Nat, result: Results]

FreeSlot == [pc |-> "free", job |-> NoJob, token |-> NoToken, hb |-> "off",
             due |-> 0, renews |-> 0, now |-> 0, result |-> "ok"]

\* What the fields of a row not yet inserted hold does not matter.
SomeKey == CHOOSE k \in Keys : TRUE
SomeSpec == CHOOSE s \in Specs : TRUE

NewRow(key, spec, runAfter) ==
    [state |-> "queued", key |-> key, spec |-> spec, run_after |-> runAfter,
     lease_token |-> NoToken, lease_until |-> 0, attempts |-> 0]

\* A runner reads its own clock.
Clock(r) == now + Skew[r]

LiveRows(key) == {j \in Jobs : rows[j].state \in Live /\ rows[j].key = key}
TerminalRows == {j \in Jobs : rows[j].state \in Terminal}
Slots(r) == {w \in Workers : RunnerOf[w] = r}
FreeSlots(r) == {w \in Slots(r) : exec[w].pc = "free"}

Init ==
    /\ now = 0
    /\ rows = [j \in Jobs |-> [NewRow(SomeKey, SomeSpec, 0) EXCEPT !.state = "absent"]]
    /\ nRows = 0
    /\ nTokens = 0
    /\ enq = [c \in Callers |->
                [pc |-> "idle", key |-> SomeKey, spec |-> SomeSpec, runAfter |-> 0,
                 outcome |-> "none", row |-> NoJob, calls |-> 0,
                 oldRows |-> 0, oldTerminal |-> {}]]
    /\ runner = [r \in Runners |->
                   [phase |-> "up", claiming |-> FALSE, now |-> 0,
                    limit |-> 0, faults |-> 0]]
    /\ exec = [w \in Workers |-> FreeSlot]
    /\ hist = [starts |-> [j \in Jobs |-> 0], ends |-> [j \in Jobs |-> {}],
               minted |-> [r \in Runners |-> {}]]

(***************************************************************************)
(* enqueue: insert, else look the live row up, else insert once more.      *)
(***************************************************************************)
EnqueueCall(c, key, spec, delay) ==
    /\ enq[c].pc \in {"idle", "done"}
    /\ enq[c].calls < MaxCalls
    /\ enq' = [enq EXCEPT ![c] =
                 [pc |-> "insert", key |-> key, spec |-> spec,
                  runAfter |-> now + delay, outcome |-> "none", row |-> NoJob,
                  calls |-> enq[c].calls + 1, oldRows |-> nRows, oldTerminal |-> TerminalRows]]
    /\ UNCHANGED <<now, rows, nRows, nTokens, runner, exec, hist>>

\* INSERT ... ON CONFLICT (job_kind, idempotency_key) WHERE live DO NOTHING
InsertJob_RunningIgnored(c) ==
    /\ \A j \in LiveRows(enq[c].key) : rows[j].state # "queued"
    /\ nRows < MaxRows
    /\ nRows' = nRows + 1
    /\ rows' = [rows EXCEPT ![nRows + 1] =
                  NewRow(enq[c].key, enq[c].spec, enq[c].runAfter)]
InsertJob(c) ==
    /\ LiveRows(enq[c].key) = {}
    /\ nRows < MaxRows
    /\ nRows' = nRows + 1
    /\ rows' = [rows EXCEPT ![nRows + 1] =
                  NewRow(enq[c].key, enq[c].spec, enq[c].runAfter)]

EnqueueReturn(c, outcome, j) ==
    enq' = [enq EXCEPT ![c].pc = "done", ![c].outcome = outcome, ![c].row = j]

EnqueueInserted(c) ==
    /\ enq[c].pc \in {"insert", "reinsert"}
    /\ InsertJob(c)
    /\ \/ EnqueueReturn(c, "created", nRows + 1)
       \/ EnqueueReturn(c, "error", NoJob)          \* the answer is lost
    /\ UNCHANGED <<now, nTokens, runner, exec, hist>>

EnqueueConflict(c) ==
    /\ LiveRows(enq[c].key) # {}
    /\ \/ /\ enq[c].pc = "insert"
          /\ enq' = [enq EXCEPT ![c].pc = "select"]
       \/ /\ enq[c].pc = "reinsert"
          /\ EnqueueReturn(c, "lookup_failed", NoJob)
    /\ UNCHANGED <<now, rows, nRows, nTokens, runner, exec, hist>>

\* The rows the lookup may return: scoped to live states.
LookupRows(c) == LiveRows(enq[c].key)

EnqueueLookup_NoRetry(c) ==
    /\ enq[c].pc = "select"
    /\ \/ /\ LookupRows(c) = {}
          /\ EnqueueReturn(c, "lookup_failed", NoJob)
       \/ \E j \in LookupRows(c) :
             EnqueueReturn(c, IF rows[j].spec # enq[c].spec
                                THEN "divergent" ELSE "deduped", j)
    /\ UNCHANGED <<now, rows, nRows, nTokens, runner, exec, hist>>
EnqueueLookup(c) ==
    /\ enq[c].pc = "select"
    /\ \/ /\ LookupRows(c) = {}
          /\ enq' = [enq EXCEPT ![c].pc = "reinsert"]
       \/ \E j \in LookupRows(c) :
             EnqueueReturn(c, IF rows[j].spec # enq[c].spec
                                THEN "divergent" ELSE "deduped", j)
    /\ UNCHANGED <<now, rows, nRows, nTokens, runner, exec, hist>>

\* A statement that fails without effect rejects the call.
EnqueueError(c) ==
    /\ enq[c].pc \in {"insert", "select", "reinsert"}
    /\ EnqueueReturn(c, "error", NoJob)
    /\ UNCHANGED <<now, rows, nRows, nTokens, runner, exec, hist>>

(***************************************************************************)
(* claimDueJobs, one statement.  Due rows are taken in the order of        *)
(* run_after and creation; rows locked by a statement in flight may be     *)
(* skipped (FOR UPDATE SKIP LOCKED).                                       *)
(***************************************************************************)
Due_QueuedOnly(t) ==
    {j \in Jobs : rows[j].state = "queued" /\ rows[j].run_after <= t}
Due(t) ==
    {j \in Jobs : \/ rows[j].state = "queued" /\ rows[j].run_after <= t
                  \/ rows[j].state = "running" /\ rows[j].lease_until <= t}

InFlight(w) == exec[w].pc \in {"complete", "fail"} \/ exec[w].hb = "renewing"

Lockable(r) ==
    IF \E q \in Runners \ {r} : runner[q].claiming
      THEN Jobs
      ELSE {j \in Jobs : \E w \in Workers : exec[w].job = j /\ InFlight(w)}

Before(i, j) ==
    \/ rows[i].run_after < rows[j].run_after
    \/ rows[i].run_after = rows[j].run_after /\ i < j

\* ORDER BY ... LIMIT: T is a prefix of S of at most limit rows.
Limited(T, S, limit) ==
    /\ Cardinality(T) = IF Cardinality(S) < limit THEN Cardinality(S) ELSE limit
    /\ \A i \in T, j \in S \ T : Before(i, j)

OutOfBudget_OffByOne(j) ==
    rows[j].state = "running" /\ rows[j].attempts > MaxAttempts[rows[j].spec]
OutOfBudget(j) ==
    rows[j].state = "running" /\ rows[j].attempts >= MaxAttempts[rows[j].spec]

\* One token per claim call, shared by the rows it claims.
NewToken_PerProcess == IF nTokens = 0 THEN 1 ELSE nTokens
NewToken == nTokens + 1

ClaimRow(row, t) ==
    [row EXCEPT !.state = "running", !.lease_token = NewToken,
                !.lease_until = t + LeaseMs, !.attempts = row.attempts + 1]

ExpireRow(row) ==
    [row EXCEPT !.state = "dead_letter", !.lease_token = NoToken,
                !.lease_until = 0]

\* The rows of E are expired when out of budget and claimed otherwise; C is
\* the set of claimed rows, the ones the statement returns.
ClaimDueJobs(r, E, C) ==
    LET t == runner[r].now
    IN  /\ C = {j \in E : ~OutOfBudget(j)}
        /\ rows' = [j \in Jobs |->
                      IF j \in C THEN ClaimRow(rows[j], t)
                      ELSE IF j \in E THEN ExpireRow(rows[j])
                      ELSE rows[j]]
        /\ nTokens' = IF C = {} THEN nTokens ELSE NewToken

\* Some choice of eligible rows the claim of runner r may lock.
Eligible(r, E) ==
    \E L \in SUBSET Lockable(r) :
       Limited(E, Due(runner[r].now) \ L, runner[r].limit)

(***************************************************************************)
(* The runner: tick, dispatch, stop, crash.                                *)
(***************************************************************************)
\* tick: not while stopping, not while another tick runs, not without a slot
TickBegin(r) ==
    /\ runner[r].phase = "up"
    /\ ~runner[r].claiming
    /\ FreeSlots(r) # {}
    /\ runner' = [runner EXCEPT ![r].claiming = TRUE, ![r].now = Clock(r),
                                ![r].limit = Cardinality(FreeSlots(r))]
    /\ UNCHANGED <<now, rows, nRows, nTokens, enq, exec, hist>>

\* execute: a kind without a handler fails at once, any other starts its
\* handler and the heartbeat.
Dispatch(r, j, token) ==
    IF rows[j].key \in HandledKeys
      THEN [FreeSlot EXCEPT !.pc = "handle", !.job = j, !.token = token,
                            !.hb = "timer", !.due = Clock(r) + RenewMs]
      ELSE [FreeSlot EXCEPT !.pc = "fail", !.job = j, !.token = token,
                            !.now = Clock(r), !.result = "error"]

TickOver(run, phase, newFaults) ==
    [run EXCEPT !.phase = phase, !.claiming = FALSE, !.now = 0, !.limit = 0,
                !.faults = run.faults + newFaults]

\* The claim returns: every claimed row is dispatched, stopping or not.
TickEnd(r) ==
    /\ runner[r].claiming
    /\ runner' = [runner EXCEPT ![r] = TickOver(@, @.phase, 0)]
    /\ \E E \in SUBSET Due(runner[r].now), C \in SUBSET Jobs :
          /\ Eligible(r, E)
          /\ ClaimDueJobs(r, E, C)
          /\ \E slot \in [C -> FreeSlots(r)] :
                /\ \A i, j \in C : slot[i] = slot[j] => i = j
                /\ exec' = [w \in Workers |->
                              IF \E j \in C : slot[j] = w
                                THEN Dispatch(r, CHOOSE j \in C : slot[j] = w,
                                              NewToken)
                                ELSE exec[w]]
          /\ hist' = [hist EXCEPT
                        !.starts = [j \in Jobs |->
                            hist.starts[j] +
                            IF j \in C /\ rows[j].key \in HandledKeys
                              THEN 1 ELSE 0],
                        !.minted[r] = @ \cup IF C = {} THEN {} ELSE {NewToken}]
    /\ UNCHANGED <<now, nRows, enq>>

Fault(r) == runner[r].faults < MaxFaults

\* The claim throws: it took no effect, or it committed and the answer is
\* lost, which leaves the rows leased to nobody.
TickError(r) ==
    /\ runner[r].claiming
    /\ Fault(r)
    /\ runner' = [runner EXCEPT ![r] = TickOver(@, @.phase, 1)]
    /\ \/ UNCHANGED <<rows, nTokens, hist>>
       \/ \E E \in SUBSET Due(runner[r].now), C \in SUBSET Jobs :
             /\ Eligible(r, E)
             /\ E # {}
             /\ ClaimDueJobs(r, E, C)
             /\ hist' = [hist EXCEPT !.minted[r] =
                           @ \cup IF C = {} THEN {} ELSE {NewToken}]
    /\ UNCHANGED <<now, nRows, enq, exec>>

Stop(r) ==
    /\ r \notin StableRunners
    /\ runner[r].phase = "up"
    /\ runner' = [runner EXCEPT ![r].phase = "stopping"]
    /\ UNCHANGED <<now, rows, nRows, nTokens, enq, exec, hist>>

\* stop() resolves once the tick and every execution have ended.
StopResolved_NoTickWait(r) ==
    /\ runner[r].phase = "stopping"
    /\ FreeSlots(r) = Slots(r)
    /\ runner' = [runner EXCEPT ![r].phase = "stopped"]
    /\ UNCHANGED <<now, rows, nRows, nTokens, enq, exec, hist>>
StopResolved(r) ==
    /\ runner[r].phase = "stopping"
    /\ ~runner[r].claiming
    /\ FreeSlots(r) = Slots(r)
    /\ runner' = [runner EXCEPT ![r].phase = "stopped"]
    /\ UNCHANGED <<now, rows, nRows, nTokens, enq, exec, hist>>

\* A crash loses everything the process held in memory.
Crash(r) ==
    /\ r \notin StableRunners
    /\ runner[r].phase \in {"up", "stopping"}
    /\ Fault(r)
    /\ runner' = [runner EXCEPT ![r] = TickOver(@, "down", 1)]
    /\ exec' = [w \in Workers |-> IF RunnerOf[w] = r THEN FreeSlot ELSE exec[w]]
    /\ UNCHANGED <<now, rows, nRows, nTokens, enq, hist>>

Start(r) ==
    /\ runner[r].phase \in {"stopped", "down"}
    /\ runner' = [runner EXCEPT ![r].phase = "up"]
    /\ UNCHANGED <<now, rows, nRows, nTokens, enq, exec, hist>>

(***************************************************************************)
(* One execution and its heartbeat.                                        *)
(***************************************************************************)
\* The guard of renew, complete and fail.
Holds(w) ==
    /\ rows[exec[w].job].state = "running"
    /\ rows[exec[w].job].lease_token = exec[w].token

HeartbeatFires(w) ==
    LET r == RunnerOf[w]
    IN  /\ exec[w].pc = "handle"
        /\ exec[w].hb = "timer"
        /\ Clock(r) >= exec[w].due
        /\ exec[w].renews < MaxRenews
        /\ exec' = [exec EXCEPT ![w].hb = "renewing", ![w].now = Clock(r),
                                ![w].due = Clock(r) + RenewMs,
                                ![w].renews = @ + 1]
        /\ UNCHANGED <<now, rows, nRows, nTokens, enq, runner, hist>>

RenewRow_NoLease(w) ==
    rows' = [rows EXCEPT ![exec[w].job].lease_until = exec[w].now]
RenewRow(w) ==
    rows' = [rows EXCEPT ![exec[w].job].lease_until = exec[w].now + LeaseMs]

\* A renewal that matches no row ends the heartbeat.
Renewed(w) ==
    /\ exec[w].hb = "renewing"
    /\ \/ /\ Holds(w)
          /\ RenewRow(w)
          /\ exec' = [exec EXCEPT ![w].hb = "timer", ![w].now = 0]
       \/ /\ ~Holds(w)
          /\ exec' = [exec EXCEPT ![w].hb = "off", ![w].now = 0]
          /\ UNCHANGED rows
    /\ UNCHANGED <<now, nRows, nTokens, enq, runner, hist>>

\* A renewal that throws is contained: the next timer tick tries again.
RenewError(w) ==
    /\ exec[w].hb = "renewing"
    /\ Fault(RunnerOf[w])
    /\ exec' = [exec EXCEPT ![w].hb = "timer", ![w].now = 0]
    /\ runner' = [runner EXCEPT ![RunnerOf[w]].faults = @ + 1]
    /\ \/ Holds(w) /\ RenewRow(w)
       \/ UNCHANGED rows
    /\ UNCHANGED <<now, nRows, nTokens, enq, hist>>

\* The handler returns or throws, possibly a MaintenanceTerminalError.
HandlerEnds(w, result) ==
    /\ exec[w].pc = "handle"
    /\ exec' = [exec EXCEPT ![w].pc = "settle", ![w].result = result]
    /\ hist' = [hist EXCEPT !.ends[exec[w].job] = @ \cup ({result} \ {"error"})]
    /\ UNCHANGED <<now, rows, nRows, nTokens, enq, runner>>

\* heartbeat.stop() waits for the renewal in flight; then the outcome is sent.
HeartbeatStopped_IgnoresThrow(w) ==
    /\ exec[w].pc = "settle"
    /\ exec[w].hb # "renewing"
    /\ exec' = [exec EXCEPT
                  ![w].pc = IF exec[w].result = "terminal" THEN "fail" ELSE "complete",
                  ![w].hb = "off", ![w].due = 0, ![w].renews = 0,
                  ![w].now = Clock(RunnerOf[w])]
    /\ UNCHANGED <<now, rows, nRows, nTokens, enq, runner, hist>>
HeartbeatStopped(w) ==
    /\ exec[w].pc = "settle"
    /\ exec[w].hb # "renewing"
    /\ exec' = [exec EXCEPT
                  ![w].pc = IF exec[w].result = "ok" THEN "complete" ELSE "fail",
                  ![w].hb = "off", ![w].due = 0, ![w].renews = 0,
                  ![w].now = Clock(RunnerOf[w])]
    /\ UNCHANGED <<now, rows, nRows, nTokens, enq, runner, hist>>

Settled(row, state) ==
    [row EXCEPT !.state = state, !.lease_token = NoToken, !.lease_until = 0]

Requeued(row, t) ==
    [row EXCEPT !.state = "queued", !.run_after = t,
                !.lease_token = NoToken, !.lease_until = 0]

CompleteRow(w) ==
    rows' = [rows EXCEPT ![exec[w].job] = Settled(@, "succeeded")]

Free(w) == exec' = [exec EXCEPT ![w] = FreeSlot]

Completed(w) ==
    /\ exec[w].pc = "complete"
    /\ \/ Holds(w) /\ CompleteRow(w)
       \/ ~Holds(w) /\ UNCHANGED rows
    /\ Free(w)
    /\ UNCHANGED <<now, nRows, nTokens, enq, runner, hist>>

\* complete throws inside the try block, so the catch records a failure.
CompleteError(w) ==
    /\ exec[w].pc = "complete"
    /\ Fault(RunnerOf[w])
    /\ runner' = [runner EXCEPT ![RunnerOf[w]].faults = @ + 1]
    /\ \/ Holds(w) /\ CompleteRow(w)
       \/ UNCHANGED rows
    /\ exec' = [exec EXCEPT ![w].pc = "fail", ![w].result = "error",
                            ![w].now = Clock(RunnerOf[w])]
    /\ UNCHANGED <<now, nRows, nTokens, enq, hist>>

\* min(backoff_base_ms * 2^(attempts - 1 clamped to 0..30), backoff_max_ms)
Backoff(attempts) ==
    LET n == IF attempts < 1 THEN 0 ELSE IF attempts > 31 THEN 30 ELSE attempts - 1
        ms == BackoffBase * 2 ^ n
    IN  IF ms < BackoffMax THEN ms ELSE BackoffMax

FailRow(w) ==
    LET job == exec[w].job
    IN  rows' = [rows EXCEPT ![job] =
                   IF \/ exec[w].result = "terminal"
                      \/ rows[job].attempts >= MaxAttempts[rows[job].spec]
                     THEN Settled(@, "dead_letter")
                     ELSE Requeued(@, exec[w].now + Backoff(rows[job].attempts))]

Failed(w) ==
    /\ exec[w].pc = "fail"
    /\ \/ Holds(w) /\ FailRow(w)
       \/ ~Holds(w) /\ UNCHANGED rows
    /\ Free(w)
    /\ UNCHANGED <<now, nRows, nTokens, enq, runner, hist>>

\* A failure that cannot be recorded is only logged.
FailError(w) ==
    /\ exec[w].pc = "fail"
    /\ Fault(RunnerOf[w])
    /\ runner' = [runner EXCEPT ![RunnerOf[w]].faults = @ + 1]
    /\ \/ Holds(w) /\ FailRow(w)
       \/ UNCHANGED rows
    /\ Free(w)
    /\ UNCHANGED <<now, nRows, nTokens, enq, hist>>

(***************************************************************************)
(* Time passes while some deadline lies ahead; when it is Punctual, not    *)
(* past a statement in flight or a heartbeat that is due.                  *)
(***************************************************************************)
DeadlineAhead ==
    \/ \E j \in Jobs : \/ rows[j].state = "queued" /\ rows[j].run_after > now
                       \/ rows[j].state = "running" /\ rows[j].lease_until > now
    \/ \E w \in Workers : exec[w].hb = "timer" /\ exec[w].due > now

Late ==
    \/ \E w \in Workers : InFlight(w) \/ exec[w].pc = "settle"
    \/ \E w \in Workers : exec[w].hb = "timer" /\ Clock(RunnerOf[w]) >= exec[w].due
    \/ \E r \in Runners : runner[r].claiming

Tick ==
    /\ now < MaxNow
    /\ DeadlineAhead
    /\ ~(Punctual /\ Late)
    /\ now' = now + 1
    /\ UNCHANGED <<rows, nRows, nTokens, enq, runner, exec, hist>>

RunnerNext(r) ==
    \/ TickBegin(r) \/ TickEnd(r) \/ TickError(r)
    \/ Stop(r) \/ StopResolved(r) \/ Crash(r) \/ Start(r)

CallerNext(c) ==
    \/ \E key \in Keys, spec \in Specs, delay \in RunDelays :
          EnqueueCall(c, key, spec, delay)
    \/ EnqueueInserted(c) \/ EnqueueConflict(c) \/ EnqueueLookup(c) \/ EnqueueError(c)

WorkerNext(w) ==
    \/ HeartbeatFires(w) \/ Renewed(w) \/ RenewError(w)
    \/ \E result \in Results : HandlerEnds(w, result)
    \/ HeartbeatStopped(w)
    \/ Completed(w) \/ CompleteError(w) \/ Failed(w) \/ FailError(w)

Next ==
    \/ Tick
    \/ \E c \in Callers : CallerNext(c)
    \/ \E r \in Runners : RunnerNext(r)
    \/ \E w \in Workers : WorkerNext(w)

Spec == Init /\ [][Next]_qvars

(***************************************************************************)
(* Fairness: a runner that stays up polls, its statements return, its      *)
(* handlers end and time passes.  A row is locked only for the length of   *)
(* one statement, so SKIP LOCKED does not pass over a due row for ever.    *)
(***************************************************************************)
Fairness ==
    /\ WF_qvars(Tick)
    /\ \A r \in StableRunners :
          /\ WF_qvars(TickBegin(r))
          /\ WF_qvars(TickEnd(r))
          /\ \A j \in Jobs : SF_qvars(TickEnd(r) /\ rows[j]' # rows[j])
    /\ \A w \in Workers : RunnerOf[w] \in StableRunners =>
          /\ WF_qvars(Renewed(w))
          /\ WF_qvars(\E result \in Results : HandlerEnds(w, result))
          /\ WF_qvars(HeartbeatStopped(w))
          /\ WF_qvars(Completed(w))
          /\ WF_qvars(Failed(w))

FairSpec == Spec /\ Fairness

(***************************************************************************)
(* Properties.                                                             *)
(***************************************************************************)
\* Every variable keeps its type: rows satisfy the columns, states and the
\* lease_shape CHECK of the table (a running row has a token, no other row has
\* one), slots and runners have the fields of the runner object.
TypeOK ==
    /\ now \in Nat
    /\ rows \in [Jobs -> Row]
    /\ \A j \in Jobs : rows[j].state = "running" <=> rows[j].lease_token # NoToken
    /\ nRows \in 0 .. MaxRows
    /\ nTokens \in Nat
    /\ enq \in [Callers -> Enq]
    /\ runner \in [Runners -> Runner]
    /\ exec \in [Workers -> Exec]
    /\ hist \in Hist

\* claimDueJobs bounds execution, not just failure: whatever crashes, lost
\* answers, expired leases and late workers do, the handler of a job is
\* started at most max_attempts times, each start accounted for in attempts.
HandlerRunsWithinBudget ==
    \A j \in Jobs : /\ hist.starts[j] <= rows[j].attempts
                    /\ rows[j].attempts <= MaxAttempts[rows[j].spec]

\* The lease guard of renew, complete and fail tells executions apart: two
\* executions of one job never carry the same token, so after a reclaim at
\* most one of them can still settle the row.
OneHolder ==
    \A v, w \in Workers :
       v # w /\ exec[v].job = exec[w].job /\ exec[v].job # NoJob
         => exec[v].token # exec[w].token

\* At most one live job per (kind, idempotency key), across two-statement
\* enqueues, retries (running back to queued) and lost answers.
LiveKeyUnique ==
    \A i, j \in Jobs :
       i # j /\ rows[i].state \in Live /\ rows[j].state \in Live
         => rows[i].key # rows[j].key

\* A job settles for a reason: it succeeded only if a handler returned, and it
\* was dead-lettered only if its attempts were used up or a handler threw the
\* terminal error. A lost completion or an expired lease is no such reason.
SettledForCause ==
    \A j \in Jobs :
       /\ rows[j].state = "succeeded" => "ok" \in hist.ends[j]
       /\ rows[j].state = "dead_letter" =>
             \/ "terminal" \in hist.ends[j]
             \/ rows[j].attempts = MaxAttempts[rows[j].spec]

\* enqueue answers with a job of the requested key and semantics that was not
\* yet finished when the call began, never one from the past (migration 047);
\* and it gives up with "idempotency lookup failed" only under genuine
\* contention: a job that took the key after the call began.
EnqueueAnswersLiveJob ==
    \A c \in Callers :
       /\ enq[c].outcome \in {"created", "deduped"} =>
             /\ enq[c].row \in Jobs \ enq[c].oldTerminal
             /\ rows[enq[c].row].key = enq[c].key
             /\ rows[enq[c].row].spec = enq[c].spec
       /\ enq[c].outcome = "lookup_failed" =>
             \E j \in enq[c].oldRows + 1 .. nRows : rows[j].key = enq[c].key

\* A stop() that resolved left no leased row behind, provided none of the
\* runner's statements failed and it never crashed.
StopStrandsNothing ==
    \A r \in Runners :
       runner[r].phase = "stopped" /\ runner[r].faults = 0 =>
          \A j \in Jobs : rows[j].state = "running"
                             => rows[j].lease_token \notin hist.minted[r]

\* The heartbeat holds the lease of a running handler: another claim takes it
\* only once a renewal is due or in flight, after a statement failed, or when
\* the claim of the handler's own runner was answered late.
LeaseLostForCause ==
    [][\A w \in Workers :
          (/\ exec[w].pc = "handle" /\ Holds(w)
           /\ exec'[w].pc = "handle" /\ ~Holds(w)') =>
             \/ Clock(RunnerOf[w]) >= exec[w].due
             \/ exec[w].hb = "renewing"
             \/ runner[RunnerOf[w]].faults > 0
             \/ /\ exec[w].renews = 0
                /\ rows[exec[w].job].lease_until - LeaseMs < exec[w].due - RenewMs]_qvars

\* succeeded and dead_letter are final: no late or stale worker, claim or
\* enqueue changes a settled row.
TerminalIsFinal ==
    [][\A j \in Jobs : rows[j].state \in Terminal => rows'[j] = rows[j]]_qvars

\* Every enqueued job settles as long as one runner stays up.
EveryJobSettles ==
    \A j \in Jobs : rows[j].state \in Live ~> rows[j].state \in Terminal
=============================================================================
