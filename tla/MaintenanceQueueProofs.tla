----------------------- MODULE MaintenanceQueueProofs -----------------------
(***************************************************************************)
(* Proofs about MaintenanceQueue for every number of rows, callers,        *)
(* runners and slots and every retry policy.                               *)
(***************************************************************************)
EXTENDS MaintenanceQueue, FiniteSetTheorems, TLAPS

(***************************************************************************)
(* What the helpers return.                                                *)
(***************************************************************************)
\* Powers of two, the growth of the retry backoff, are numbers: 2^n counts the
\* subsets of 1..n.
LEMMA PowerOfTwo == ASSUME NEW n \in Nat PROVE 2 ^ n \in Nat
<1>1. IsFiniteSet(1 .. n) /\ Cardinality(1 .. n) = n
  BY FS_Interval, SMT
<1>2. IsFiniteSet(SUBSET (1 .. n)) /\ Cardinality(SUBSET (1 .. n)) = 2 ^ n
  BY <1>1, FS_SUBSET
<1> QED BY <1>2, FS_CardinalityType

\* maintenanceBackoffMs is a number of milliseconds, at most the configured
\* maximum.
LEMMA BackoffType ==
  ASSUME NEW attempts \in Nat
  PROVE  Backoff(attempts) \in 0 .. BackoffMax
<1> DEFINE n == IF attempts < 1 THEN 0
                ELSE IF attempts > 31 THEN 30 ELSE attempts - 1
<1>1. n \in Nat OBVIOUS
<1>2. 2 ^ n \in Nat BY <1>1, PowerOfTwo
<1> DEFINE p == 2 ^ n
<1>3. Backoff(attempts) = IF BackoffBase * p < BackoffMax
                            THEN BackoffBase * p ELSE BackoffMax
  BY DEF Backoff
<1>4. BackoffBase \in Nat /\ BackoffMax \in Nat BY QueueAssumption
<1>5. p \in Nat BY <1>2
<1> HIDE DEF p
<1>6. BackoffBase * p \in Nat BY <1>4, <1>5
<1> QED BY <1>3, <1>4, <1>6

\* The number of free slots, the limit of a claim, is a natural number.
LEMMA FreeSlotsCount == \A r : Cardinality(FreeSlots(r)) \in Nat
BY FS_Subset, FS_CardinalityType, QueueAssumption DEF FreeSlots, Slots

\* The default key and semantics exist.
LEMMA Defaults == SomeKey \in Keys /\ SomeSpec \in Specs
BY QueueAssumption DEF SomeKey, SomeSpec

LEMMA NewRowType ==
  ASSUME NEW k \in Keys, NEW s \in Specs, NEW t \in Nat
  PROVE  /\ NewRow(k, s, t) \in Row
         /\ NewRow(k, s, t).state = "queued"
         /\ NewRow(k, s, t).lease_token = NoToken
         /\ NewRow(k, s, t).attempts = 0
         /\ NewRow(k, s, t).spec = s
         /\ NewRow(k, s, t).key = k
BY DEF NewRow, Row, States, NoToken

LEMMA ClockType == ASSUME TypeOK, NEW r \in Runners PROVE Clock(r) \in Nat
BY QueueAssumption DEF TypeOK, Clock

(***************************************************************************)
(* Type correctness.                                                       *)
(***************************************************************************)
LEMMA InitType == Init => TypeOK
<1> SUFFICES ASSUME Init PROVE TypeOK OBVIOUS
<1> USE QueueAssumption, Defaults
<1>1. now \in Nat /\ nRows \in 0 .. MaxRows /\ nTokens \in Nat BY DEF Init
<1>2. rows \in [Jobs -> Row]
  BY DEF Init, NewRow, Row, States, NoToken
<1>3. \A j \in Jobs : rows[j].state = "running" <=> rows[j].lease_token # NoToken
  BY DEF Init, NewRow, NoToken
<1>4. enq \in [Callers -> Enq] BY DEF Init, Enq, NoJob
<1>5. runner \in [Runners -> Runner] BY DEF Init, Runner
<1>6. exec \in [Workers -> Exec] BY DEF Init, Exec, FreeSlot, NoJob, NoToken, Results
<1>7. hist \in Hist BY DEF Init, Hist
<1> QED BY <1>1, <1>2, <1>3, <1>4, <1>5, <1>6, <1>7 DEF TypeOK

\* What each statement writes into a row is a row of the table.
LEMMA ClaimRowType ==
  ASSUME TypeOK, NEW row \in Row, NEW t \in Nat
  PROVE  /\ ClaimRow(row, t) \in Row
         /\ ClaimRow(row, t).state = "running"
         /\ ClaimRow(row, t).lease_token = nTokens + 1
         /\ ClaimRow(row, t).attempts = row.attempts + 1
         /\ ClaimRow(row, t).spec = row.spec
         /\ ClaimRow(row, t).key = row.key
<1>1. nTokens + 1 \in Nat BY DEF TypeOK
<1>2. t + LeaseMs \in Nat BY QueueAssumption
<1>3. row.attempts + 1 \in Nat BY DEF Row
<1> QED BY <1>1, <1>2, <1>3 DEF ClaimRow, NewToken, Row, States

LEMMA ExpireRowType ==
  ASSUME NEW row \in Row
  PROVE  /\ ExpireRow(row) \in Row
         /\ ExpireRow(row).state = "dead_letter"
         /\ ExpireRow(row).lease_token = NoToken
         /\ ExpireRow(row).attempts = row.attempts
         /\ ExpireRow(row).spec = row.spec
         /\ ExpireRow(row).key = row.key
BY DEF ExpireRow, Row, States, NoToken

\* The row complete, or either branch of fail, leaves behind.
LEMMA SettledRowType ==
  ASSUME NEW row \in Row, NEW st \in States
  PROVE  /\ Settled(row, st) \in Row
         /\ Settled(row, st).state = st
         /\ Settled(row, st).lease_token = NoToken
         /\ Settled(row, st).attempts = row.attempts
         /\ Settled(row, st).spec = row.spec
         /\ Settled(row, st).key = row.key
BY DEF Settled, Row, NoToken

LEMMA RequeuedRowType ==
  ASSUME NEW row \in Row, NEW t \in Nat
  PROVE  /\ Requeued(row, t) \in Row
         /\ Requeued(row, t).state = "queued"
         /\ Requeued(row, t).lease_token = NoToken
         /\ Requeued(row, t).attempts = row.attempts
         /\ Requeued(row, t).spec = row.spec
         /\ Requeued(row, t).key = row.key
BY DEF Requeued, Row, NoToken, States

\* The part of TypeOK about the table.
TableOK ==
    /\ rows \in [Jobs -> Row]
    /\ \A j \in Jobs : rows[j].state = "running" <=> rows[j].lease_token # NoToken

LEMMA CompleteTable ==
  ASSUME TypeOK, NEW w \in Workers, CompleteRow(w) PROVE TableOK'
<1>1. \A row \in Row : /\ Settled(row, "succeeded") \in Row
                       /\ Settled(row, "succeeded").state = "succeeded"
                       /\ Settled(row, "succeeded").lease_token = NoToken
  BY SettledRowType DEF States
<1> QED BY <1>1 DEF TypeOK, TableOK, CompleteRow

LEMMA FailTable ==
  ASSUME TypeOK, NEW w \in Workers, FailRow(w) PROVE TableOK'
<1> DEFINE job == exec[w].job
           t == exec[w].now + Backoff(rows[job].attempts)
<1>1. CASE job \notin Jobs
  <2>1. rows' = rows BY <1>1 DEF TypeOK, FailRow
  <2> QED BY <2>1 DEF TypeOK, TableOK
<1>2. CASE job \in Jobs
  <2>1. rows[job] \in Row /\ exec[w].now \in Nat BY <1>2 DEF TypeOK, Exec
  <2>2. rows[job].attempts \in Nat BY <2>1 DEF Row
  <2>3. t \in Nat BY <2>1, <2>2, BackoffType, QueueAssumption
  <2>4. \/ rows' = [rows EXCEPT ![job] = Settled(rows[job], "dead_letter")]
        \/ rows' = [rows EXCEPT ![job] = Requeued(rows[job], t)]
    BY <1>2 DEF FailRow, TypeOK
  <2> HIDE DEF t
  <2>5. /\ Settled(rows[job], "dead_letter") \in Row
        /\ Settled(rows[job], "dead_letter").state = "dead_letter"
        /\ Settled(rows[job], "dead_letter").lease_token = NoToken
    BY <2>1, SettledRowType DEF States
  <2>6. /\ Requeued(rows[job], t) \in Row
        /\ Requeued(rows[job], t).state = "queued"
        /\ Requeued(rows[job], t).lease_token = NoToken
    BY <2>1, <2>3, RequeuedRowType
  <2> QED BY <1>2, <2>4, <2>5, <2>6 DEF TypeOK, TableOK
<1> QED BY <1>1, <1>2

LEMMA RenewTable ==
  ASSUME TypeOK, NEW w \in Workers, RenewRow(w) PROVE TableOK'
<1>1. exec[w].now + LeaseMs \in Nat BY QueueAssumption DEF TypeOK, Exec
<1> QED BY <1>1 DEF TypeOK, TableOK, RenewRow, Row

LEMMA ClaimTable ==
  ASSUME TypeOK, NEW r \in Runners, NEW E, NEW C \in SUBSET Jobs, ClaimDueJobs(r, E, C)
  PROVE  TableOK' /\ nTokens' \in Nat
<1>1. runner[r].now \in Nat BY DEF TypeOK, Runner
<1>2. \A row \in Row : /\ ClaimRow(row, runner[r].now) \in Row
                       /\ ClaimRow(row, runner[r].now).state = "running"
                       /\ ClaimRow(row, runner[r].now).lease_token = nTokens + 1
  BY <1>1, ClaimRowType
<1>3. \A row \in Row : /\ ExpireRow(row) \in Row
                       /\ ExpireRow(row).state = "dead_letter"
                       /\ ExpireRow(row).lease_token = NoToken
  BY ExpireRowType
<1>4. nTokens' \in Nat BY DEF ClaimDueJobs, NewToken, TypeOK
<1>5. \A j \in Jobs : rows[j] \in Row BY DEF TypeOK
<1>6. rows' = [j \in Jobs |-> IF j \in C THEN ClaimRow(rows[j], runner[r].now)
                              ELSE IF j \in E THEN ExpireRow(rows[j]) ELSE rows[j]]
  BY DEF ClaimDueJobs
<1>7. nTokens \in Nat BY DEF TypeOK
<1> QED BY <1>2, <1>3, <1>4, <1>5, <1>6, <1>7 DEF TableOK, NoToken, TypeOK

\* A slot after dispatch of a claimed job.
LEMMA DispatchType ==
  ASSUME TypeOK, NEW r \in Runners, NEW j \in Jobs, NEW token \in Nat
  PROVE  /\ Dispatch(r, j, token) \in Exec
         /\ Dispatch(r, j, token).pc \in {"handle", "fail"}
         /\ Dispatch(r, j, token).pc = "handle" => rows[j].key \in HandledKeys
         /\ Dispatch(r, j, token).pc = "fail" => Dispatch(r, j, token).result = "error"
         /\ Dispatch(r, j, token).job = j
         /\ Dispatch(r, j, token).token = token
<1>1. Clock(r) \in Nat /\ Clock(r) + RenewMs \in Nat
  BY ClockType, QueueAssumption
<1>2. CASE rows[j].key \in HandledKeys
  <2>1. Dispatch(r, j, token) =
          [pc |-> "handle", job |-> j, token |-> token, hb |-> "timer",
           due |-> Clock(r) + RenewMs, renews |-> 0, now |-> 0, result |-> "ok"]
    BY <1>2 DEF Dispatch, FreeSlot
  <2> QED BY <1>1, <1>2, <2>1 DEF Exec, Results
<1>3. CASE rows[j].key \notin HandledKeys
  <2>1. Dispatch(r, j, token) =
          [pc |-> "fail", job |-> j, token |-> token, hb |-> "off",
           due |-> 0, renews |-> 0, now |-> Clock(r), result |-> "error"]
    BY <1>3 DEF Dispatch, FreeSlot
  <2> QED BY <1>1, <1>3, <2>1 DEF Exec, Results
<1> QED BY <1>2, <1>3

LEMMA FreeSlotType == FreeSlot \in Exec /\ FreeSlot.pc = "free" /\ FreeSlot.job = NoJob
BY DEF FreeSlot, Exec, NoJob, NoToken, Results

\* The steps of enqueue keep the types.
LEMMA EnqueueType ==
  ASSUME TypeOK, NEW c \in Callers, CallerNext(c) PROVE TypeOK'
<1> USE QueueAssumption
<1>1. ASSUME NEW key \in Keys, NEW spec \in Specs, NEW delay \in RunDelays,
             EnqueueCall(c, key, spec, delay)
      PROVE  TypeOK'
  <2>1. enq[c].calls + 1 \in 0 .. MaxCalls BY <1>1 DEF EnqueueCall, TypeOK, Enq
  <2>2. now + delay \in Nat BY DEF TypeOK
  <2>3. TerminalRows \in SUBSET Jobs BY DEF TerminalRows
  <2>4. nRows \in Nat BY DEF TypeOK
  <2>5. enq' \in [Callers -> Enq]
    BY <1>1, <2>1, <2>2, <2>3, <2>4 DEF EnqueueCall, TypeOK, Enq, NoJob
  <2> QED BY <1>1, <2>5 DEF EnqueueCall, TypeOK
<1>2. ASSUME NEW outcome \in {"created", "deduped", "divergent", "lookup_failed", "error"},
             NEW j \in Jobs \cup {NoJob}, EnqueueReturn(c, outcome, j)
      PROVE  enq' \in [Callers -> Enq]
  <2>1. enq[c] \in Enq BY DEF TypeOK
  <2>2. [enq[c] EXCEPT !.pc = "done", !.outcome = outcome, !.row = j] \in Enq
    BY <2>1 DEF Enq
  <2>3. enq' = [enq EXCEPT ![c] =
                  [enq[c] EXCEPT !.pc = "done", !.outcome = outcome, !.row = j]]
    BY <1>2 DEF EnqueueReturn, TypeOK
  <2> QED BY <2>2, <2>3 DEF TypeOK
<1> DEFINE Goto(pc) == [enq EXCEPT ![c].pc = pc]
<1>g. ASSUME NEW pc \in {"select", "reinsert"} PROVE Goto(pc) \in [Callers -> Enq]
  <2>1. enq[c] \in Enq BY DEF TypeOK
  <2>2. [enq[c] EXCEPT !.pc = pc] \in Enq BY <2>1 DEF Enq
  <2>3. Goto(pc) = [enq EXCEPT ![c] = [enq[c] EXCEPT !.pc = pc]] BY DEF TypeOK
  <2> QED BY <2>2, <2>3 DEF TypeOK
<1>3. CASE EnqueueInserted(c)
  <2>1. nRows + 1 \in Jobs /\ nRows' \in 0 .. MaxRows /\ nRows' = nRows + 1
    BY <1>3 DEF EnqueueInserted, InsertJob, TypeOK, Jobs
  <2>2. enq' \in [Callers -> Enq] BY <1>2, <1>3, <2>1 DEF EnqueueInserted
  <2>3. /\ enq[c].key \in Keys /\ enq[c].spec \in Specs /\ enq[c].runAfter \in Nat
    BY DEF TypeOK, Enq
  <2>4. TableOK'
    BY <1>3, <2>1, <2>3, NewRowType DEF EnqueueInserted, InsertJob, TypeOK, TableOK
  <2> QED BY <1>3, <2>1, <2>2, <2>4 DEF EnqueueInserted, TypeOK, TableOK
<1>4. CASE EnqueueConflict(c)
  <2>1. enq' \in [Callers -> Enq]
    <3>1. CASE enq' = [enq EXCEPT ![c].pc = "select"]
      BY <3>1, <1>g
    <3>2. CASE EnqueueReturn(c, "lookup_failed", NoJob)
      BY <1>2, <3>2
    <3> QED BY <1>4, <3>1, <3>2 DEF EnqueueConflict
  <2> QED BY <1>4, <2>1 DEF EnqueueConflict, TypeOK
<1>5. CASE EnqueueLookup(c)
  <2>1. enq' \in [Callers -> Enq]
    <3>1. CASE enq' = [enq EXCEPT ![c].pc = "reinsert"]
      BY <3>1, <1>g
    <3>2. ASSUME NEW j \in LookupRows(c),
                 EnqueueReturn(c, IF rows[j].spec # enq[c].spec
                                    THEN "divergent" ELSE "deduped", j)
          PROVE  enq' \in [Callers -> Enq]
      BY <1>2, <3>2 DEF LookupRows, LiveRows
    <3> QED BY <1>5, <3>1, <3>2 DEF EnqueueLookup
  <2> QED BY <1>5, <2>1 DEF EnqueueLookup, TypeOK
<1>6. CASE EnqueueError(c)
  BY <1>2, <1>6 DEF EnqueueError, TypeOK
<1> QED BY <1>1, <1>3, <1>4, <1>5, <1>6 DEF CallerNext

\* The steps of a runner keep the types.
LEMMA RunnerType ==
  ASSUME TypeOK, NEW r \in Runners, RunnerNext(r) PROVE TypeOK'
<1> USE QueueAssumption
<1>1. runner[r] \in Runner BY DEF TypeOK
<1>2. ASSUME NEW phase \in {"up", "stopping", "stopped", "down"}, NEW f \in {0, 1}
      PROVE  TickOver(runner[r], phase, f) \in Runner
  <2>1. runner[r].faults + f \in Nat BY <1>1 DEF Runner
  <2> QED BY <1>1, <2>1 DEF TickOver, Runner
<1>3. runner[r].phase \in {"up", "stopping", "stopped", "down"} BY <1>1 DEF Runner
<1>5. hist.minted \in [Runners -> SUBSET Nat] /\ hist.starts \in [Jobs -> Nat]
      /\ hist.ends \in [Jobs -> SUBSET Results]
  BY DEF TypeOK, Hist
<1>6. nTokens \in Nat /\ NewToken \in Nat BY DEF TypeOK, NewToken
<1>7. CASE TickBegin(r)
  <2>1. Clock(r) \in Nat /\ Cardinality(FreeSlots(r)) \in Nat
    BY ClockType, FreeSlotsCount
  <2>2. [runner[r] EXCEPT !.claiming = TRUE, !.now = Clock(r),
                          !.limit = Cardinality(FreeSlots(r))] \in Runner
    BY <1>1, <2>1 DEF Runner
  <2>3. runner' = [runner EXCEPT ![r] =
          [runner[r] EXCEPT !.claiming = TRUE, !.now = Clock(r),
                            !.limit = Cardinality(FreeSlots(r))]]
    BY <1>7 DEF TickBegin, TypeOK
  <2>4. runner' \in [Runners -> Runner] BY <2>2, <2>3 DEF TypeOK
  <2> QED BY <1>7, <2>4 DEF TickBegin, TypeOK
<1>8. CASE TickEnd(r)
  <2>1. PICK E \in SUBSET Due(runner[r].now), C \in SUBSET Jobs :
          /\ ClaimDueJobs(r, E, C)
          /\ \E slot \in [C -> FreeSlots(r)] :
                /\ \A i, j \in C : slot[i] = slot[j] => i = j
                /\ exec' = [w \in Workers |->
                              IF \E j \in C : slot[j] = w
                                THEN Dispatch(r, CHOOSE j \in C : slot[j] = w, NewToken)
                                ELSE exec[w]]
          /\ hist' = [hist EXCEPT
                        !.starts = [j \in Jobs |->
                            hist.starts[j] +
                            IF j \in C /\ rows[j].key \in HandledKeys
                              THEN 1 ELSE 0],
                        !.minted[r] = @ \cup IF C = {} THEN {} ELSE {NewToken}]
    BY <1>8 DEF TickEnd
  <2>2. TableOK' /\ nTokens' \in Nat BY <2>1, ClaimTable
  <2>3. PICK slot \in [C -> FreeSlots(r)] :
          exec' = [w \in Workers |->
                     IF \E j \in C : slot[j] = w
                       THEN Dispatch(r, CHOOSE j \in C : slot[j] = w, NewToken)
                       ELSE exec[w]]
    BY <2>1
  <2>4. exec' \in [Workers -> Exec]
    <3>1. \A j \in Jobs : Dispatch(r, j, NewToken) \in Exec BY <1>6, DispatchType
    <3>2. \A w \in Workers : (\E j \in C : slot[j] = w)
                               => (CHOOSE j \in C : slot[j] = w) \in Jobs
      OBVIOUS
    <3> QED BY <2>3, <3>1, <3>2 DEF TypeOK
  <2>5. hist' \in Hist
    <3> DEFINE starts == [j \in Jobs |-> hist.starts[j] +
                            IF j \in C /\ rows[j].key \in HandledKeys THEN 1 ELSE 0]
               minted == [hist.minted EXCEPT ![r] =
                            @ \cup IF C = {} THEN {} ELSE {NewToken}]
    <3>1. starts \in [Jobs -> Nat] BY <1>5
    <3>2. minted \in [Runners -> SUBSET Nat] BY <1>5, <1>6
    <3>3. hist' = [hist EXCEPT !.starts = starts, !.minted = minted]
      BY <2>1 DEF TypeOK, Hist
    <3> HIDE DEF starts, minted
    <3> QED BY <3>1, <3>2, <3>3 DEF TypeOK, Hist
  <2>6. runner' \in [Runners -> Runner]
    <3>1. runner' = [runner EXCEPT ![r] = TickOver(runner[r], runner[r].phase, 0)]
      BY <1>8 DEF TickEnd, TypeOK
    <3> QED BY <1>2, <1>3, <3>1 DEF TypeOK
  <2> QED BY <1>8, <2>2, <2>4, <2>5, <2>6 DEF TickEnd, TypeOK, TableOK
<1>9. CASE TickError(r)
  <2>1. runner' \in [Runners -> Runner]
    <3>1. runner' = [runner EXCEPT ![r] = TickOver(runner[r], runner[r].phase, 1)]
      BY <1>9 DEF TickError, TypeOK
    <3> QED BY <1>2, <1>3, <3>1 DEF TypeOK
  <2>2. CASE UNCHANGED <<rows, nTokens, hist>>
    BY <1>9, <2>1, <2>2 DEF TickError, TypeOK
  <2>3. ASSUME NEW E, NEW C \in SUBSET Jobs, ClaimDueJobs(r, E, C),
               hist' = [hist EXCEPT !.minted[r] =
                          @ \cup IF C = {} THEN {} ELSE {NewToken}]
        PROVE  TypeOK'
    <3>1. TableOK' /\ nTokens' \in Nat BY <2>3, ClaimTable
    <3> DEFINE minted == [hist.minted EXCEPT ![r] =
                            @ \cup IF C = {} THEN {} ELSE {NewToken}]
    <3>2. minted \in [Runners -> SUBSET Nat] BY <1>5, <1>6
    <3>3. hist' = [hist EXCEPT !.minted = minted] BY <2>3 DEF TypeOK, Hist
    <3> HIDE DEF minted
    <3>4. hist' \in Hist BY <3>2, <3>3 DEF TypeOK, Hist
    <3> QED BY <1>9, <2>1, <3>1, <3>4 DEF TickError, TypeOK, TableOK
  <2> QED BY <1>9, <2>2, <2>3 DEF TickError
<1>10. ASSUME NEW phase \in {"up", "stopping", "stopped", "down"},
              runner' = [runner EXCEPT ![r].phase = phase]
       PROVE  runner' \in [Runners -> Runner]
  <2>1. [runner[r] EXCEPT !.phase = phase] \in Runner BY <1>1 DEF Runner
  <2>2. runner' = [runner EXCEPT ![r] = [runner[r] EXCEPT !.phase = phase]]
    BY <1>10 DEF TypeOK
  <2> QED BY <2>1, <2>2 DEF TypeOK
<1>11. CASE Stop(r) BY <1>10, <1>11 DEF Stop, TypeOK
<1>12. CASE StopResolved(r) BY <1>10, <1>12 DEF StopResolved, TypeOK
<1>13. CASE Start(r) BY <1>10, <1>13 DEF Start, TypeOK
<1>14. CASE Crash(r)
  <2>1. runner' = [runner EXCEPT ![r] = TickOver(runner[r], "down", 1)]
    BY <1>14 DEF Crash, TypeOK
  <2>3. runner' \in [Runners -> Runner] BY <1>2, <2>1 DEF TypeOK
  <2>4. exec' \in [Workers -> Exec] BY <1>14, FreeSlotType DEF Crash, TypeOK
  <2> QED BY <1>14, <2>3, <2>4 DEF Crash, TypeOK
<1> QED BY <1>7, <1>8, <1>9, <1>11, <1>12, <1>13, <1>14 DEF RunnerNext

\* What the three guarded statements and their lost answers do to a row keeps
\* the table well typed.
LEMMA GuardedTable ==
  ASSUME TypeOK, NEW w \in Workers,
         RenewRow(w) \/ CompleteRow(w) \/ FailRow(w) \/ UNCHANGED rows
  PROVE  TableOK'
<1>1. CASE UNCHANGED rows BY <1>1 DEF TypeOK, TableOK
<1> QED BY <1>1, RenewTable, CompleteTable, FailTable

\* The steps of an execution keep the types.
LEMMA WorkerType ==
  ASSUME TypeOK, NEW w \in Workers, WorkerNext(w) PROVE TypeOK'
<1> USE QueueAssumption
<1> DEFINE r == RunnerOf[w]
<1>1. r \in Runners /\ exec[w] \in Exec /\ runner[r] \in Runner BY DEF TypeOK
<1>2. Clock(r) \in Nat /\ Clock(r) + RenewMs \in Nat BY <1>1, ClockType
<1>3. ASSUME runner' = [runner EXCEPT ![RunnerOf[w]].faults = @ + 1]
      PROVE  runner' \in [Runners -> Runner]
  <2>1. runner[r].faults + 1 \in Nat BY <1>1 DEF Runner
  <2>2. [runner[r] EXCEPT !.faults = runner[r].faults + 1] \in Runner
    BY <1>1, <2>1 DEF Runner
  <2>3. runner' = [runner EXCEPT ![r] =
                     [runner[r] EXCEPT !.faults = runner[r].faults + 1]]
    BY <1>1, <1>3 DEF TypeOK
  <2> QED BY <2>2, <2>3 DEF TypeOK
<1>4. ASSUME NEW hb \in {"off", "timer"}, exec' = [exec EXCEPT ![w].hb = hb, ![w].now = 0]
      PROVE  exec' \in [Workers -> Exec]
  <2>1. [exec[w] EXCEPT !.hb = hb, !.now = 0] \in Exec BY <1>1 DEF Exec
  <2>2. exec' = [exec EXCEPT ![w] = [exec[w] EXCEPT !.hb = hb, !.now = 0]]
    BY <1>4 DEF TypeOK
  <2> QED BY <2>1, <2>2 DEF TypeOK
<1>5. Free(w) => exec' \in [Workers -> Exec] BY FreeSlotType DEF Free, TypeOK
<1>6. CASE HeartbeatFires(w)
  <2>1. exec[w].renews + 1 \in Nat BY <1>1 DEF Exec
  <2>2. [exec[w] EXCEPT !.hb = "renewing", !.now = Clock(r),
                        !.due = Clock(r) + RenewMs,
                        !.renews = exec[w].renews + 1] \in Exec
    BY <1>1, <1>2, <2>1 DEF Exec
  <2>3. exec' = [exec EXCEPT ![w] =
          [exec[w] EXCEPT !.hb = "renewing", !.now = Clock(r),
                          !.due = Clock(r) + RenewMs,
                          !.renews = exec[w].renews + 1]]
    BY <1>6 DEF HeartbeatFires, TypeOK
  <2>4. exec' \in [Workers -> Exec] BY <2>2, <2>3 DEF TypeOK
  <2> QED BY <1>6, <2>4 DEF HeartbeatFires, TypeOK
<1>7. CASE Renewed(w)
  <2>1. TableOK' BY <1>7, GuardedTable DEF Renewed
  <2>2. exec' \in [Workers -> Exec] BY <1>4, <1>7 DEF Renewed
  <2> QED BY <1>7, <2>1, <2>2 DEF Renewed, TypeOK, TableOK
<1>8. CASE RenewError(w)
  <2>1. TableOK' BY <1>8, GuardedTable DEF RenewError
  <2>2. exec' \in [Workers -> Exec] BY <1>4, <1>8 DEF RenewError
  <2> QED BY <1>3, <1>8, <2>1, <2>2 DEF RenewError, TypeOK, TableOK
<1>9. ASSUME NEW result \in Results, HandlerEnds(w, result) PROVE TypeOK'
  <2>1. [exec[w] EXCEPT !.pc = "settle", !.result = result] \in Exec
    BY <1>1 DEF Exec
  <2>2. exec' = [exec EXCEPT ![w] =
                   [exec[w] EXCEPT !.pc = "settle", !.result = result]]
    BY <1>9 DEF HandlerEnds, TypeOK
  <2>3. exec' \in [Workers -> Exec] BY <2>1, <2>2 DEF TypeOK
  <2> DEFINE ends == [hist.ends EXCEPT ![exec[w].job] = @ \cup ({result} \ {"error"})]
  <2>4. ends \in [Jobs -> SUBSET Results] BY DEF TypeOK, Hist
  <2>5. hist' = [hist EXCEPT !.ends = ends] BY <1>9 DEF HandlerEnds, TypeOK, Hist
  <2> HIDE DEF ends
  <2>6. hist' \in Hist BY <2>4, <2>5 DEF TypeOK, Hist
  <2> QED BY <1>9, <2>3, <2>6 DEF HandlerEnds, TypeOK
<1>10. CASE HeartbeatStopped(w)
  <2> DEFINE pc == IF exec[w].result = "ok" THEN "complete" ELSE "fail"
  <2>1. [exec[w] EXCEPT !.pc = pc, !.hb = "off", !.due = 0, !.renews = 0,
                        !.now = Clock(r)] \in Exec
    BY <1>1, <1>2 DEF Exec
  <2>2. exec' = [exec EXCEPT ![w] =
          [exec[w] EXCEPT !.pc = pc, !.hb = "off", !.due = 0, !.renews = 0,
                          !.now = Clock(r)]]
    BY <1>10 DEF HeartbeatStopped, TypeOK
  <2>3. exec' \in [Workers -> Exec] BY <2>1, <2>2 DEF TypeOK
  <2> QED BY <1>10, <2>3 DEF HeartbeatStopped, TypeOK
<1>11. CASE Completed(w)
  <2>1. TableOK' BY <1>11, GuardedTable DEF Completed
  <2> QED BY <1>5, <1>11, <2>1 DEF Completed, TypeOK, TableOK
<1>12. CASE CompleteError(w)
  <2>1. TableOK' BY <1>12, GuardedTable DEF CompleteError
  <2>2. [exec[w] EXCEPT !.pc = "fail", !.result = "error", !.now = Clock(r)] \in Exec
    BY <1>1, <1>2 DEF Exec, Results
  <2>3. exec' = [exec EXCEPT ![w] =
          [exec[w] EXCEPT !.pc = "fail", !.result = "error", !.now = Clock(r)]]
    BY <1>12 DEF CompleteError, TypeOK
  <2>4. exec' \in [Workers -> Exec] BY <2>2, <2>3 DEF TypeOK
  <2> QED BY <1>3, <1>12, <2>1, <2>4 DEF CompleteError, TypeOK, TableOK
<1>13. CASE Failed(w)
  <2>1. TableOK' BY <1>13, GuardedTable DEF Failed
  <2> QED BY <1>5, <1>13, <2>1 DEF Failed, TypeOK, TableOK
<1>14. CASE FailError(w)
  <2>1. TableOK' BY <1>14, GuardedTable DEF FailError
  <2> QED BY <1>3, <1>5, <1>14, <2>1 DEF FailError, TypeOK, TableOK
<1> QED BY <1>6, <1>7, <1>8, <1>9, <1>10, <1>11, <1>12, <1>13, <1>14 DEF WorkerNext

LEMMA NextType == TypeOK /\ [Next]_qvars => TypeOK'
<1> SUFFICES ASSUME TypeOK, [Next]_qvars PROVE TypeOK' OBVIOUS
<1>1. CASE Tick BY <1>1 DEF Tick, TypeOK
<1>2. CASE UNCHANGED qvars BY <1>2 DEF qvars, TypeOK
<1> QED BY <1>1, <1>2, EnqueueType, RunnerType, WorkerType DEF Next

\* The table keeps the columns, states and lease_shape CHECK of its migration,
\* and every process its fields, in every reachable state.
THEOREM TypeCorrect == Spec => []TypeOK
BY InitType, NextType, PTL DEF Spec


(***************************************************************************)
(* Safety.  HandlerRunsWithinBudget, OneHolder, LiveKeyUnique and          *)
(* SettledForCause are not inductive by themselves.  What is missing: the  *)
(* tokens in use have been minted, so a new one is fresh; a queued row has *)
(* an attempt left, so claiming it stays within the budget; a row not yet  *)
(* inserted has no past; and an execution about to record an outcome       *)
(* carries one a handler really had.                                       *)
(***************************************************************************)
BusySlots ==
    \A w \in Workers :
       /\ exec[w].pc # "free" => exec[w].job \in Jobs /\ exec[w].token \in 1 .. nTokens
       /\ exec[w].pc = "free" => exec[w].job = NoJob

TokensMinted == \A j \in Jobs : rows[j].lease_token <= nTokens

FreshRows ==
    \A j \in Jobs :
       /\ j > nRows => rows[j].state = "absent"
       /\ rows[j].state = "absent" => hist.starts[j] = 0

QueuedHasBudget ==
    \A j \in Jobs : rows[j].state = "queued"
                      => rows[j].attempts < MaxAttempts[rows[j].spec]

OutcomesRecorded ==
    \A w \in Workers :
       /\ exec[w].pc \in {"settle", "complete"} /\ exec[w].result = "ok"
             => "ok" \in hist.ends[exec[w].job]
       /\ exec[w].pc = "complete" => exec[w].result = "ok"
       /\ exec[w].pc \in {"settle", "fail"} /\ exec[w].result = "terminal"
             => "terminal" \in hist.ends[exec[w].job]

HolderInv == BusySlots /\ TokensMinted /\ OneHolder
BudgetInv == FreshRows /\ QueuedHasBudget /\ HandlerRunsWithinBudget
CauseInv == OutcomesRecorded /\ SettledForCause

IInv == TypeOK /\ HolderInv /\ BudgetInv /\ CauseInv /\ LiveKeyUnique

(***************************************************************************)
(* How a step may change a row.                                            *)
(***************************************************************************)
SameJob(j) == rows'[j].key = rows[j].key /\ rows'[j].spec = rows[j].spec

\* renew: only the deadline moves, and only of a running row
Kept(j) ==
    /\ rows[j].state = "running" \/ rows'[j] = rows[j]
    /\ rows'[j].state = rows[j].state
    /\ rows'[j].lease_token = rows[j].lease_token
    /\ rows'[j].attempts = rows[j].attempts

ClaimedRow(j) ==
    /\ \/ rows[j].state = "queued"
       \/ rows[j].state = "running" /\ rows[j].attempts < MaxAttempts[rows[j].spec]
    /\ rows'[j].state = "running"
    /\ rows'[j].lease_token = nTokens + 1
    /\ rows'[j].attempts = rows[j].attempts + 1

ExpiredRow(j) ==
    /\ rows[j].state = "running"
    /\ rows[j].attempts >= MaxAttempts[rows[j].spec]
    /\ rows'[j].state = "dead_letter"
    /\ rows'[j].lease_token = NoToken
    /\ rows'[j].attempts = rows[j].attempts

\* complete and fail of execution w
SettledBy(w, j) ==
    /\ rows[j].state = "running"
    /\ rows'[j].lease_token = NoToken
    /\ rows'[j].attempts = rows[j].attempts
    /\ \/ exec[w].pc = "complete" /\ rows'[j].state = "succeeded"
       \/ /\ exec[w].pc = "fail"
          /\ rows'[j].state = "dead_letter"
          /\ \/ exec[w].result = "terminal"
             \/ rows[j].attempts >= MaxAttempts[rows[j].spec]
       \/ /\ exec[w].pc = "fail"
          /\ rows'[j].state = "queued"
          /\ rows[j].attempts < MaxAttempts[rows[j].spec]

\* The rows of a claim that are not taken stay as they are.
LEMMA ClaimSteps ==
  ASSUME TypeOK, NEW r \in Runners, NEW E \in SUBSET Due(runner[r].now),
         NEW C \in SUBSET Jobs, ClaimDueJobs(r, E, C)
  PROVE  /\ \A j \in C : SameJob(j) /\ ClaimedRow(j)
         /\ \A j \in E \ C : SameJob(j) /\ ExpiredRow(j)
         /\ \A j \in Jobs \ E : rows'[j] = rows[j]
         /\ C \subseteq E
         /\ nTokens' = IF C = {} THEN nTokens ELSE nTokens + 1
<1>1. runner[r].now \in Nat BY DEF TypeOK, Runner
<1>2. C = {j \in E : ~OutOfBudget(j)} BY DEF ClaimDueJobs
<1>3. E \subseteq Jobs BY DEF Due
<1>4. \A j \in E : rows[j].state \in {"queued", "running"} BY DEF Due
<1>5. \A j \in Jobs : rows[j] \in Row BY DEF TypeOK
<1>6. \A j \in Jobs : rows[j].attempts \in Nat /\ MaxAttempts[rows[j].spec] \in Nat
  BY <1>5, QueueAssumption DEF Row
<1>7. ASSUME NEW j \in C PROVE SameJob(j) /\ ClaimedRow(j)
  <2>1. rows'[j] = ClaimRow(rows[j], runner[r].now) BY <1>7 DEF ClaimDueJobs
  <2>2. ~OutOfBudget(j) /\ rows[j].state \in {"queued", "running"} BY <1>2, <1>4
  <2>3. /\ rows'[j].state = "running"
        /\ rows'[j].lease_token = nTokens + 1
        /\ rows'[j].attempts = rows[j].attempts + 1
        /\ SameJob(j)
    BY <1>1, <1>5, <2>1, ClaimRowType DEF SameJob
  <2>4. \/ rows[j].state = "queued"
        \/ rows[j].state = "running" /\ rows[j].attempts < MaxAttempts[rows[j].spec]
    BY <1>6, <2>2 DEF OutOfBudget
  <2> QED BY <2>3, <2>4 DEF ClaimedRow
<1>8. ASSUME NEW j \in E \ C PROVE SameJob(j) /\ ExpiredRow(j)
  <2>1. rows'[j] = ExpireRow(rows[j]) BY <1>3 DEF ClaimDueJobs
  <2>2. OutOfBudget(j) BY <1>2
  <2> QED BY <1>3, <1>5, <2>1, <2>2, ExpireRowType DEF SameJob, ExpiredRow, OutOfBudget
<1>9. \A j \in Jobs \ E : rows'[j] = rows[j] BY <1>2 DEF ClaimDueJobs
<1> QED BY <1>2, <1>7, <1>8, <1>9 DEF ClaimDueJobs, NewToken

\* What a step of execution w does to the table: at most its own, running row.
LEMMA WorkerSteps ==
  ASSUME TypeOK, NEW w \in Workers, exec[w].pc # "free" => exec[w].job \in Jobs,
         WorkerNext(w)
  PROVE  \A j \in Jobs :
            SameJob(j) /\ (Kept(j) \/ (j = exec[w].job /\ SettledBy(w, j)))
<1> USE QueueAssumption
<1>1. exec[w] \in Exec /\ \A j \in Jobs : rows[j] \in Row BY DEF TypeOK
<1>2. \A j \in Jobs : rows[j].attempts \in Nat /\ MaxAttempts[rows[j].spec] \in Nat
  BY <1>1 DEF Row
<1>3. CASE UNCHANGED rows BY <1>3 DEF SameJob, Kept
<1>4. CASE Holds(w) /\ RenewRow(w)
  <2>1. \A j \in Jobs : rows'[j] # rows[j] => rows[j].state = "running"
    BY <1>4 DEF Holds, RenewRow, TypeOK
  <2> QED BY <1>1, <1>4, <2>1 DEF RenewRow, SameJob, Kept, TypeOK, Row
<1>5. CASE exec[w].pc = "complete" /\ Holds(w) /\ CompleteRow(w)
  <2>1. exec[w].job \in Jobs BY <1>5
  <2>2. rows'[exec[w].job] = Settled(rows[exec[w].job], "succeeded")
    BY <1>5, <2>1 DEF CompleteRow, TypeOK
  <2>3. \A j \in Jobs \ {exec[w].job} : rows'[j] = rows[j]
    BY <1>5 DEF CompleteRow, TypeOK
  <2>4. SameJob(exec[w].job) /\ SettledBy(w, exec[w].job)
    BY <1>1, <1>5, <2>1, <2>2, SettledRowType DEF SameJob, SettledBy, Holds, States
  <2> QED BY <2>3, <2>4 DEF SameJob, Kept
<1>6. CASE exec[w].pc = "fail" /\ Holds(w) /\ FailRow(w)
  <2> DEFINE job == exec[w].job
             t == exec[w].now + Backoff(rows[job].attempts)
  <2>1. job \in Jobs BY <1>6
  <2>2. \A j \in Jobs \ {job} : rows'[j] = rows[j] BY <1>6 DEF FailRow, TypeOK
  <2>3. t \in Nat BY <1>1, <1>2, <2>1, BackoffType DEF Exec
  <2>4. CASE exec[w].result = "terminal"
             \/ rows[job].attempts >= MaxAttempts[rows[job].spec]
    <3>1. rows'[job] = Settled(rows[job], "dead_letter")
      BY <1>6, <2>1, <2>4 DEF FailRow, TypeOK
    <3>2. SameJob(job) /\ SettledBy(w, job)
      BY <1>1, <1>6, <2>1, <2>4, <3>1, SettledRowType
      DEF SameJob, SettledBy, Holds, States
    <3> QED BY <2>2, <3>2 DEF SameJob, Kept
  <2>5. CASE ~(exec[w].result = "terminal"
               \/ rows[job].attempts >= MaxAttempts[rows[job].spec])
    <3>1. rows'[job] = Requeued(rows[job], t)
      BY <1>6, <2>1, <2>5 DEF FailRow, TypeOK
    <3> HIDE DEF t
    <3>a. rows[job] \in Row BY <1>1, <2>1
    <3>b. /\ Requeued(rows[job], t).state = "queued"
          /\ Requeued(rows[job], t).lease_token = NoToken
          /\ Requeued(rows[job], t).attempts = rows[job].attempts
          /\ Requeued(rows[job], t).spec = rows[job].spec
          /\ Requeued(rows[job], t).key = rows[job].key
      BY <2>3, <3>a, RequeuedRowType
    <3>2. /\ rows'[job].state = "queued"
          /\ rows'[job].lease_token = NoToken
          /\ rows'[job].attempts = rows[job].attempts
          /\ SameJob(job)
      BY <3>1, <3>b DEF SameJob
    <3>3. rows[job].attempts < MaxAttempts[rows[job].spec] BY <1>2, <2>1, <2>5
    <3>4. SettledBy(w, job) BY <1>6, <3>2, <3>3 DEF SettledBy, Holds
    <3> QED BY <2>2, <3>2, <3>4 DEF SameJob, Kept
  <2> QED BY <2>4, <2>5
<1>7. \/ UNCHANGED rows
      \/ Holds(w) /\ RenewRow(w)
      \/ exec[w].pc = "complete" /\ Holds(w) /\ CompleteRow(w)
      \/ exec[w].pc = "fail" /\ Holds(w) /\ FailRow(w)
  <2>1. HeartbeatFires(w) => UNCHANGED rows BY DEF HeartbeatFires
  <2>2. Renewed(w) \/ RenewError(w) => (Holds(w) /\ RenewRow(w)) \/ UNCHANGED rows
    BY DEF Renewed, RenewError
  <2>4. (\E res \in Results : HandlerEnds(w, res)) => UNCHANGED rows BY DEF HandlerEnds
  <2>5. HeartbeatStopped(w) => UNCHANGED rows BY DEF HeartbeatStopped
  <2>6. Completed(w) \/ CompleteError(w) =>
          \/ exec[w].pc = "complete" /\ Holds(w) /\ CompleteRow(w)
          \/ UNCHANGED rows
    BY DEF Completed, CompleteError
  <2>7. Failed(w) \/ FailError(w) =>
          \/ exec[w].pc = "fail" /\ Holds(w) /\ FailRow(w)
          \/ UNCHANGED rows
    BY DEF Failed, FailError
  <2> QED BY <2>1, <2>2, <2>4, <2>5, <2>6, <2>7 DEF WorkerNext
<1> QED BY <1>3, <1>4, <1>5, <1>6, <1>7

\* A step of a caller leaves the rows alone or inserts the next one.
LEMMA CallerSteps ==
  ASSUME TypeOK, NEW c \in Callers, CallerNext(c)
  PROVE  /\ UNCHANGED <<nTokens, exec, hist>>
         /\ \/ UNCHANGED <<rows, nRows>>
            \/ /\ nRows' = nRows + 1
               /\ nRows + 1 \in Jobs
               /\ LiveRows(enq[c].key) = {}
               /\ rows'[nRows + 1].state = "queued"
               /\ rows'[nRows + 1].lease_token = NoToken
               /\ rows'[nRows + 1].attempts = 0
               /\ rows'[nRows + 1].key = enq[c].key
               /\ rows'[nRows + 1].spec \in Specs
               /\ \A j \in Jobs \ {nRows + 1} : rows'[j] = rows[j]
<1>1. CASE EnqueueInserted(c)
  <2>1. nRows + 1 \in Jobs
    BY <1>1, QueueAssumption DEF EnqueueInserted, InsertJob, TypeOK, Jobs
  <2>2. enq[c].key \in Keys /\ enq[c].spec \in Specs /\ enq[c].runAfter \in Nat
    BY DEF TypeOK, Enq
  <2> QED BY <1>1, <2>1, <2>2, NewRowType DEF EnqueueInserted, InsertJob, TypeOK
<1>2. (\E k \in Keys, sp \in Specs, d \in RunDelays : EnqueueCall(c, k, sp, d))
        => UNCHANGED <<rows, nRows, nTokens, exec, hist>>
  BY DEF EnqueueCall
<1>3. EnqueueConflict(c) \/ EnqueueLookup(c) \/ EnqueueError(c)
        => UNCHANGED <<rows, nRows, nTokens, exec, hist>>
  BY DEF EnqueueConflict, EnqueueLookup, EnqueueError
<1> QED BY <1>1, <1>2, <1>3 DEF CallerNext

\* A step of execution w changes its own slot only, and frees it or keeps its
\* claim (the id and token captured before the handler ran).
LEMMA WorkerSlots ==
  ASSUME TypeOK, NEW w \in Workers, WorkerNext(w)
  PROVE  /\ nTokens' = nTokens /\ nRows' = nRows /\ hist'.starts = hist.starts
         /\ \A v \in Workers \ {w} : exec'[v] = exec[v]
         /\ \/ exec'[w] = FreeSlot
            \/ /\ exec'[w].job = exec[w].job
               /\ exec'[w].token = exec[w].token
               /\ exec'[w].pc = "free" <=> exec[w].pc = "free"
<1>1. exec[w] \in Exec BY DEF TypeOK
<1>2. CASE HeartbeatFires(w) BY <1>1, <1>2 DEF HeartbeatFires, TypeOK, Exec
<1>3. CASE Renewed(w) BY <1>1, <1>3 DEF Renewed, TypeOK, Exec
<1>4. CASE RenewError(w) BY <1>1, <1>4 DEF RenewError, TypeOK, Exec
<1>5. ASSUME NEW res \in Results, HandlerEnds(w, res)
      PROVE  /\ UNCHANGED <<nTokens, nRows>> /\ hist'.starts = hist.starts
             /\ \A v \in Workers \ {w} : exec'[v] = exec[v]
             /\ exec'[w].job = exec[w].job
             /\ exec'[w].token = exec[w].token
             /\ exec'[w].pc = "settle" /\ exec[w].pc = "handle"
  <2>1. hist'.starts = hist.starts BY <1>5 DEF HandlerEnds, TypeOK, Hist
  <2> QED BY <1>1, <1>5, <2>1 DEF HandlerEnds, TypeOK, Exec
<1>6. CASE HeartbeatStopped(w) BY <1>1, <1>6 DEF HeartbeatStopped, TypeOK, Exec
<1>7. CASE CompleteError(w) BY <1>1, <1>7 DEF CompleteError, TypeOK, Exec
<1>8. CASE Completed(w) \/ Failed(w) \/ FailError(w)
  BY <1>1, <1>8 DEF Completed, Failed, FailError, Free, TypeOK, Exec
<1> QED BY <1>2, <1>3, <1>4, <1>5, <1>6, <1>7, <1>8 DEF WorkerNext

\* What a runner's tick, stop or crash does: it claims rows under a fresh token
\* and dispatches all of them or (answer lost) none, or it touches no row.
LEMMA RunnerSteps ==
  ASSUME TypeOK, NEW r \in Runners, RunnerNext(r)
  PROVE  /\ nRows' = nRows /\ hist'.ends = hist.ends
         /\ \/ /\ UNCHANGED <<rows, nTokens>> /\ hist'.starts = hist.starts
               /\ \A w \in Workers : exec'[w] \in {exec[w], FreeSlot}
            \/ \E E \in SUBSET Due(runner[r].now), C \in SUBSET Jobs :
                  /\ ClaimDueJobs(r, E, C)
                  /\ \/ exec' = exec /\ hist'.starts = hist.starts
                     \/ /\ \A j \in Jobs : hist'.starts[j] = hist.starts[j] +
                             IF j \in C /\ rows[j].key \in HandledKeys THEN 1 ELSE 0
                        /\ \A w \in Workers :
                             \/ exec'[w] = exec[w]
                             \/ \E j \in C : exec'[w] = Dispatch(r, j, nTokens + 1)
                        /\ \A v, w \in Workers, j \in C :
                             /\ exec'[v] # exec[v] /\ exec'[w] # exec[w]
                             /\ exec'[v].job = j /\ exec'[w].job = j
                             => v = w
<1>1. CASE TickBegin(r) BY <1>1 DEF TickBegin
<1>2. CASE Stop(r) \/ StopResolved(r) \/ Start(r)
  BY <1>2 DEF Stop, StopResolved, Start
<1>3. CASE Crash(r) BY <1>3 DEF Crash, TypeOK
<1>4. CASE TickError(r)
  <2>1. CASE UNCHANGED <<rows, nTokens, hist>> BY <1>4, <2>1 DEF TickError
  <2>2. ASSUME NEW E \in SUBSET Due(runner[r].now), NEW C \in SUBSET Jobs,
               ClaimDueJobs(r, E, C),
               hist' = [hist EXCEPT !.minted[r] =
                          @ \cup IF C = {} THEN {} ELSE {NewToken}]
        PROVE  hist'.ends = hist.ends /\ hist'.starts = hist.starts
    BY <2>2 DEF TypeOK, Hist
  <2> QED BY <1>4, <2>1, <2>2 DEF TickError
<1>5. CASE TickEnd(r)
  <2>1. PICK E \in SUBSET Due(runner[r].now), C \in SUBSET Jobs :
          /\ ClaimDueJobs(r, E, C)
          /\ \E slot \in [C -> FreeSlots(r)] :
                /\ \A i, j \in C : slot[i] = slot[j] => i = j
                /\ exec' = [w \in Workers |->
                              IF \E j \in C : slot[j] = w
                                THEN Dispatch(r, CHOOSE j \in C : slot[j] = w, NewToken)
                                ELSE exec[w]]
          /\ hist' = [hist EXCEPT
                        !.starts = [j \in Jobs |->
                            hist.starts[j] +
                            IF j \in C /\ rows[j].key \in HandledKeys
                              THEN 1 ELSE 0],
                        !.minted[r] = @ \cup IF C = {} THEN {} ELSE {NewToken}]
    BY <1>5 DEF TickEnd
  <2>2. PICK slot \in [C -> FreeSlots(r)] :
          exec' = [w \in Workers |->
                     IF \E j \in C : slot[j] = w
                       THEN Dispatch(r, CHOOSE j \in C : slot[j] = w, NewToken)
                       ELSE exec[w]]
    BY <2>1
  <2> DEFINE jobIn(w) == CHOOSE j \in C : slot[j] = w
  <2>3. ASSUME NEW w \in Workers, exec'[w] # exec[w]
        PROVE  /\ jobIn(w) \in C /\ slot[jobIn(w)] = w
               /\ exec'[w] = Dispatch(r, jobIn(w), nTokens + 1)
    BY <2>2, <2>3 DEF NewToken
  <2>4. nTokens + 1 \in Nat BY DEF TypeOK
  <2>5. \A j \in C : Dispatch(r, j, nTokens + 1).job = j
    BY <2>4, DispatchType
  <2>6. ASSUME NEW v \in Workers, NEW w \in Workers, NEW j \in C,
               exec'[v] # exec[v], exec'[w] # exec[w],
               exec'[v].job = j, exec'[w].job = j
        PROVE  v = w
    BY <2>3, <2>5, <2>6
  <2>7. /\ hist'.ends = hist.ends
        /\ \A j \in Jobs : hist'.starts[j] = hist.starts[j] +
                             IF j \in C /\ rows[j].key \in HandledKeys THEN 1 ELSE 0
    BY <2>1 DEF TypeOK, Hist
  <2>8. \A w \in Workers : \/ exec'[w] = exec[w]
                           \/ \E j \in C : exec'[w] = Dispatch(r, j, nTokens + 1)
    BY <2>3
  <2>9. nRows' = nRows BY <1>5 DEF TickEnd
  <2>10. \A v, w \in Workers, j \in C :
            /\ exec'[v] # exec[v] /\ exec'[w] # exec[w]
            /\ exec'[v].job = j /\ exec'[w].job = j
            => v = w
    BY <2>6
  <2>11. ClaimDueJobs(r, E, C) BY <2>1
  <2> HIDE DEF jobIn
  <2> QED BY <2>7, <2>8, <2>9, <2>10, <2>11, Zenon
<1> QED BY <1>1, <1>2, <1>3, <1>4, <1>5 DEF RunnerNext

(***************************************************************************)
(* Each part of the invariant is preserved.                                *)
(***************************************************************************)
LEMMA InitIInv == Init => IInv
<1> SUFFICES ASSUME Init PROVE IInv OBVIOUS
<1>1. TypeOK BY InitType
<1>2. HolderInv
  BY DEF Init, HolderInv, BusySlots, TokensMinted, OneHolder, FreeSlot, NewRow, NoToken
<1>3. \A j \in Jobs : /\ rows[j].state = "absent" /\ rows[j].attempts = 0
                      /\ rows[j].spec \in Specs
                      /\ hist.starts[j] = 0
  BY Defaults DEF Init, NewRow
<1>4. BudgetInv
  BY <1>3, QueueAssumption
  DEF BudgetInv, FreshRows, QueuedHasBudget, HandlerRunsWithinBudget
<1>5. CauseInv
  BY <1>3 DEF Init, CauseInv, OutcomesRecorded, SettledForCause, FreeSlot
<1>6. LiveKeyUnique BY <1>3 DEF LiveKeyUnique, Live
<1> QED BY <1>1, <1>2, <1>4, <1>5, <1>6 DEF IInv

\* The lease guard keeps telling executions apart.
LEMMA HolderStep == TypeOK /\ HolderInv /\ [Next]_qvars => HolderInv'
<1> SUFFICES ASSUME TypeOK, HolderInv, [Next]_qvars PROVE HolderInv' OBVIOUS
<1> USE DEF HolderInv, BusySlots, TokensMinted, OneHolder
<1>0. /\ nTokens \in Nat
      /\ \A j \in Jobs : rows[j].lease_token \in Nat
      /\ \A w \in Workers : exec[w].token \in Nat
  BY DEF TypeOK, Row, Exec
<1>1. CASE Tick \/ UNCHANGED qvars BY <1>1 DEF Tick, qvars
<1>2. ASSUME NEW c \in Callers, CallerNext(c) PROVE HolderInv'
  <2>1. nTokens' = nTokens /\ exec' = exec BY <1>2, CallerSteps
  <2>2. \A j \in Jobs : rows'[j] = rows[j] \/ rows'[j].lease_token = NoToken
    BY <1>2, CallerSteps
  <2> QED BY <1>0, <2>1, <2>2 DEF NoToken
<1>3. ASSUME NEW w \in Workers, WorkerNext(w) PROVE HolderInv'
  <2>1. \A j \in Jobs : \/ rows'[j].lease_token = rows[j].lease_token
                        \/ rows'[j].lease_token = NoToken
    BY <1>3, WorkerSteps DEF Kept, SettledBy
  <2>2. TokensMinted' BY <1>0, <1>3, <2>1, WorkerSlots DEF NoToken
  <2>3. \A v \in Workers : \/ exec'[v] = FreeSlot
                           \/ /\ exec'[v].job = exec[v].job
                              /\ exec'[v].token = exec[v].token
                              /\ exec'[v].pc = "free" <=> exec[v].pc = "free"
    BY <1>3, WorkerSlots
  <2>4. nTokens' = nTokens BY <1>3, WorkerSlots
  <2>5. BusySlots' BY <2>3, <2>4, FreeSlotType
  <2>6. OneHolder' BY <2>3, FreeSlotType
  <2> QED BY <2>2, <2>5, <2>6
<1>4. ASSUME NEW r \in Runners, RunnerNext(r) PROVE HolderInv'
  <2>1. CASE /\ UNCHANGED <<rows, nTokens>>
             /\ \A w \in Workers : exec'[w] \in {exec[w], FreeSlot}
    <3>1. BusySlots' BY <2>1, FreeSlotType
    <3>2. OneHolder' BY <2>1, FreeSlotType
    <3> QED BY <2>1, <3>1, <3>2
  <2>2. ASSUME NEW E \in SUBSET Due(runner[r].now), NEW C \in SUBSET Jobs,
               ClaimDueJobs(r, E, C)
        PROVE  TokensMinted' /\ nTokens' \in Nat /\ nTokens' >= nTokens
               /\ (C # {} => nTokens' = nTokens + 1)
    <3>1. \A j \in Jobs : \/ rows'[j] = rows[j]
                          \/ rows'[j].lease_token = NoToken
                          \/ C # {} /\ rows'[j].lease_token = nTokens + 1
      <4>1. /\ \A j \in C : ClaimedRow(j)
            /\ \A j \in E \ C : ExpiredRow(j)
            /\ \A j \in Jobs \ E : rows'[j] = rows[j]
        BY <2>2, ClaimSteps
      <4> QED BY <4>1 DEF ClaimedRow, ExpiredRow
    <3>2. nTokens' = IF C = {} THEN nTokens ELSE nTokens + 1 BY <2>2, ClaimSteps
    <3> QED BY <1>0, <3>1, <3>2 DEF NoToken
  <2>3. ASSUME NEW E \in SUBSET Due(runner[r].now), NEW C \in SUBSET Jobs,
               ClaimDueJobs(r, E, C), exec' = exec
        PROVE  HolderInv'
    <3>1. TokensMinted' /\ nTokens' \in Nat /\ nTokens' >= nTokens BY <2>2, <2>3
    <3>2. BusySlots' BY <1>0, <2>3, <3>1
    <3>3. OneHolder' BY <2>3
    <3> QED BY <3>1, <3>2, <3>3
  <2>4. ASSUME NEW E \in SUBSET Due(runner[r].now), NEW C \in SUBSET Jobs,
               ClaimDueJobs(r, E, C),
               \A w \in Workers : \/ exec'[w] = exec[w]
                                  \/ \E j \in C : exec'[w] = Dispatch(r, j, nTokens + 1),
               \A v, w \in Workers, j \in C :
                  /\ exec'[v] # exec[v] /\ exec'[w] # exec[w]
                  /\ exec'[v].job = j /\ exec'[w].job = j
                  => v = w
        PROVE  HolderInv'
    <3>1. \A j \in C : /\ Dispatch(r, j, nTokens + 1).pc # "free"
                       /\ Dispatch(r, j, nTokens + 1).job = j
                       /\ Dispatch(r, j, nTokens + 1).token = nTokens + 1
      BY <1>0, DispatchType
    <3>2. \A w \in Workers :
             \/ exec'[w] = exec[w]
             \/ /\ exec'[w].pc # "free" /\ exec'[w].job \in C
                /\ exec'[w].token = nTokens + 1 /\ nTokens' = nTokens + 1
      BY <2>2, <2>4, <3>1
    <3>3. BusySlots' BY <1>0, <2>2, <2>4, <3>2
    <3>4. \A w \in Workers : exec[w].job # NoJob => exec[w].token <= nTokens
      BY <1>0
    <3>5. ASSUME NEW v \in Workers, NEW w \in Workers, v # w,
                 exec'[v].job = exec'[w].job, exec'[v].job # NoJob
          PROVE  exec'[v].token # exec'[w].token
      BY <1>0, <2>4, <3>2, <3>4, <3>5
    <3> QED BY <2>2, <2>4, <3>3, <3>5
  <2> QED BY <1>4, <2>1, <2>3, <2>4, RunnerSteps
<1> QED BY <1>1, <1>2, <1>3, <1>4 DEF Next

\* Executions stay within max_attempts.
LEMMA BudgetStep ==
  TypeOK /\ BusySlots /\ BudgetInv /\ [Next]_qvars => BudgetInv'
<1> SUFFICES ASSUME TypeOK, BusySlots, BudgetInv, [Next]_qvars PROVE BudgetInv'
  OBVIOUS
<1> USE DEF BudgetInv, FreshRows, QueuedHasBudget, HandlerRunsWithinBudget
<1>0. /\ nRows \in Nat
      /\ \A j \in Jobs : /\ rows[j].attempts \in Nat /\ rows[j].spec \in Specs
                         /\ hist.starts[j] \in Nat
                         /\ MaxAttempts[rows[j].spec] \in Nat
  BY QueueAssumption DEF TypeOK, Row, Hist
<1>1. CASE Tick \/ UNCHANGED qvars BY <1>1 DEF Tick, qvars
<1>2. ASSUME NEW c \in Callers, CallerNext(c) PROVE BudgetInv'
  <2>1. hist' = hist BY <1>2, CallerSteps
  <2>2. CASE UNCHANGED <<rows, nRows>> BY <2>1, <2>2
  <2>3. CASE /\ nRows' = nRows + 1 /\ nRows + 1 \in Jobs
             /\ rows'[nRows + 1].state = "queued"
             /\ rows'[nRows + 1].attempts = 0
             /\ rows'[nRows + 1].spec \in Specs
             /\ \A j \in Jobs \ {nRows + 1} : rows'[j] = rows[j]
    <3>1. hist.starts[nRows + 1] = 0 BY <1>0, <2>3
    <3>2. MaxAttempts[rows'[nRows + 1].spec] \in Nat \ {0} BY <2>3, QueueAssumption
    <3>3. FreshRows'
      BY <1>0, <2>1, <2>3 DEF Jobs
    <3>4. QueuedHasBudget' /\ HandlerRunsWithinBudget'
      BY <1>0, <2>1, <2>3, <3>1, <3>2
    <3> QED BY <3>3, <3>4
  <2> QED BY <1>2, <2>2, <2>3, CallerSteps
<1>3. ASSUME NEW w \in Workers, WorkerNext(w) PROVE BudgetInv'
  <2>1. nRows' = nRows /\ hist'.starts = hist.starts BY <1>3, WorkerSlots
  <2>2. \A j \in Jobs : SameJob(j) /\ (Kept(j) \/ SettledBy(w, j))
    BY <1>3, WorkerSteps DEF BusySlots
  <2>3. \A j \in Jobs :
           /\ rows'[j].spec = rows[j].spec /\ rows'[j].attempts = rows[j].attempts
           /\ rows'[j].state = "queued" => rows[j].attempts < MaxAttempts[rows[j].spec]
           /\ rows'[j].state = "absent" <=> rows[j].state = "absent"
    BY <2>2 DEF SameJob, Kept, SettledBy
  <2> QED BY <2>1, <2>3
<1>4. ASSUME NEW r \in Runners, RunnerNext(r) PROVE BudgetInv'
  <2>1. nRows' = nRows BY <1>4, RunnerSteps
  <2>2. CASE UNCHANGED rows /\ hist'.starts = hist.starts BY <2>1, <2>2
  <2>3. ASSUME NEW E \in SUBSET Due(runner[r].now), NEW C \in SUBSET Jobs,
               ClaimDueJobs(r, E, C),
               \A j \in Jobs : \/ hist'.starts[j] = hist.starts[j]
                               \/ j \in C /\ hist'.starts[j] = hist.starts[j] + 1
        PROVE  BudgetInv'
    <3>1. /\ \A j \in C : SameJob(j) /\ ClaimedRow(j)
          /\ \A j \in E \ C : SameJob(j) /\ ExpiredRow(j)
          /\ \A j \in Jobs \ E : rows'[j] = rows[j]
          /\ C \subseteq E
      BY <2>3, ClaimSteps
    <3>2. \A j \in Jobs :
             /\ rows'[j].spec = rows[j].spec
             /\ \/ /\ j \in C /\ rows'[j].attempts = rows[j].attempts + 1
                   /\ rows[j].attempts < MaxAttempts[rows[j].spec]
                   /\ rows'[j].state = "running" /\ rows[j].state # "absent"
                \/ /\ j \notin C /\ rows'[j].attempts = rows[j].attempts
                   /\ rows'[j].state \in {rows[j].state, "dead_letter"}
                   /\ rows'[j].state = rows[j].state \/ rows[j].state # "absent"
      BY <3>1 DEF SameJob, ClaimedRow, ExpiredRow
    <3> QED BY <1>0, <2>1, <2>3, <3>2
  <2>4. ASSUME NEW E \in SUBSET Due(runner[r].now), NEW C \in SUBSET Jobs,
               ClaimDueJobs(r, E, C), hist'.starts = hist.starts
        PROVE  BudgetInv'
    BY <2>3, <2>4
  <2>5. ASSUME NEW E \in SUBSET Due(runner[r].now), NEW C \in SUBSET Jobs,
               ClaimDueJobs(r, E, C),
               \A j \in Jobs : hist'.starts[j] = hist.starts[j] +
                  IF j \in C /\ rows[j].key \in HandledKeys THEN 1 ELSE 0
        PROVE  BudgetInv'
    <3>1. \A j \in Jobs : \/ hist'.starts[j] = hist.starts[j]
                          \/ j \in C /\ hist'.starts[j] = hist.starts[j] + 1
      BY <1>0, <2>5
    <3> QED BY <2>3, <2>5, <3>1
  <2> QED BY <1>4, <2>2, <2>4, <2>5, RunnerSteps
<1> QED BY <1>1, <1>2, <1>3, <1>4 DEF Next

\* What handlers ended with is never forgotten, and an execution reports an
\* outcome only after its handler ended with it.
LEMMA OutcomeSteps ==
  ASSUME TypeOK, BusySlots, OutcomesRecorded, NEW w \in Workers, WorkerNext(w)
  PROVE  /\ \A j \in Jobs : hist.ends[j] \subseteq hist'.ends[j]
         /\ OutcomesRecorded'
<1>1. exec[w] \in Exec BY DEF TypeOK
<1>2. \A v \in Workers \ {w} : exec'[v] = exec[v] BY WorkerSlots
<1>3. ASSUME NEW res \in Results, HandlerEnds(w, res)
      PROVE  /\ \A j \in Jobs : hist.ends[j] \subseteq hist'.ends[j]
             /\ OutcomesRecorded'
  <2>1. exec[w].job \in Jobs BY <1>3 DEF HandlerEnds, BusySlots
  <2>2. hist'.ends = [hist.ends EXCEPT ![exec[w].job] = @ \cup ({res} \ {"error"})]
    BY <1>3 DEF HandlerEnds, TypeOK, Hist
  <2>3. \A j \in Jobs : hist.ends[j] \subseteq hist'.ends[j]
    BY <2>1, <2>2 DEF TypeOK, Hist
  <2>4. res # "error" => res \in hist'.ends[exec[w].job]
    BY <2>1, <2>2 DEF TypeOK, Hist
  <2>5. exec'[w].pc = "settle" /\ exec'[w].result = res /\ exec'[w].job = exec[w].job
    BY <1>1, <1>3 DEF HandlerEnds, TypeOK, Exec
  <2>6. \A v \in Workers \ {w} : exec[v].pc # "free" => exec[v].job \in Jobs
    BY DEF BusySlots
  <2> QED BY <1>2, <2>3, <2>4, <2>5, <2>6 DEF OutcomesRecorded
<1>4. CASE HeartbeatFires(w) \/ Renewed(w) \/ RenewError(w)
  <2>1. hist' = hist BY <1>4 DEF HeartbeatFires, Renewed, RenewError
  <2>2. /\ exec'[w].pc = exec[w].pc /\ exec'[w].result = exec[w].result
        /\ exec'[w].job = exec[w].job
    BY <1>1, <1>4 DEF HeartbeatFires, Renewed, RenewError, TypeOK, Exec
  <2> QED BY <1>2, <2>1, <2>2 DEF OutcomesRecorded
<1>5. CASE HeartbeatStopped(w)
  <2>1. hist' = hist BY <1>5 DEF HeartbeatStopped
  <2>2. /\ exec'[w].pc = IF exec[w].result = "ok" THEN "complete" ELSE "fail"
        /\ exec'[w].result = exec[w].result /\ exec'[w].job = exec[w].job
        /\ exec[w].pc = "settle"
    BY <1>1, <1>5 DEF HeartbeatStopped, TypeOK, Exec
  <2> QED BY <1>2, <2>1, <2>2 DEF OutcomesRecorded
<1>6. CASE CompleteError(w)
  <2>1. hist' = hist BY <1>6 DEF CompleteError
  <2>2. exec'[w].pc = "fail" /\ exec'[w].result = "error"
    BY <1>1, <1>6 DEF CompleteError, TypeOK, Exec
  <2> QED BY <1>2, <2>1, <2>2 DEF OutcomesRecorded
<1>7. CASE Completed(w) \/ Failed(w) \/ FailError(w)
  <2>1. hist' = hist BY <1>7 DEF Completed, Failed, FailError
  <2>2. exec'[w].pc = "free"
    BY <1>1, <1>7, FreeSlotType DEF Completed, Failed, FailError, Free, TypeOK
  <2> QED BY <1>2, <2>1, <2>2 DEF OutcomesRecorded
<1> QED BY <1>3, <1>4, <1>5, <1>6, <1>7 DEF WorkerNext

\* Jobs settle for a reason.
LEMMA CauseStep ==
  TypeOK /\ BusySlots /\ BudgetInv /\ CauseInv /\ [Next]_qvars => CauseInv'
<1> SUFFICES ASSUME TypeOK, BusySlots, BudgetInv, CauseInv, [Next]_qvars
             PROVE  CauseInv'
  OBVIOUS
<1> USE DEF CauseInv, SettledForCause
<1>0. \A j \in Jobs : /\ rows[j].attempts \in Nat
                      /\ MaxAttempts[rows[j].spec] \in Nat
                      /\ rows[j].attempts <= MaxAttempts[rows[j].spec]
  BY QueueAssumption DEF TypeOK, Row, BudgetInv, HandlerRunsWithinBudget
<1>1. CASE Tick \/ UNCHANGED qvars BY <1>1 DEF Tick, qvars, OutcomesRecorded
<1>2. ASSUME NEW c \in Callers, CallerNext(c) PROVE CauseInv'
  <2>1. hist' = hist /\ exec' = exec BY <1>2, CallerSteps
  <2>2. \A j \in Jobs : rows'[j] = rows[j] \/ rows'[j].state = "queued"
    BY <1>2, CallerSteps
  <2> QED BY <2>1, <2>2 DEF OutcomesRecorded
<1>3. ASSUME NEW w \in Workers, WorkerNext(w) PROVE CauseInv'
  <2>1. /\ \A j \in Jobs : hist.ends[j] \subseteq hist'.ends[j]
        /\ OutcomesRecorded'
    BY <1>3, OutcomeSteps
  <2>2. ASSUME NEW j \in Jobs
        PROVE  /\ rows'[j].state = "succeeded" => "ok" \in hist'.ends[j]
               /\ rows'[j].state = "dead_letter" =>
                     \/ "terminal" \in hist'.ends[j]
                     \/ rows'[j].attempts = MaxAttempts[rows'[j].spec]
    <3>1. SameJob(j) /\ (Kept(j) \/ (j = exec[w].job /\ SettledBy(w, j)))
      BY <1>3, WorkerSteps DEF BusySlots
    <3>2. CASE SameJob(j) /\ Kept(j) BY <2>1, <3>2 DEF SameJob, Kept
    <3>3. CASE SameJob(j) /\ j = exec[w].job /\ SettledBy(w, j)
      <4>1. exec[w].pc = "complete" => "ok" \in hist'.ends[j]
        BY <2>1, <3>3 DEF OutcomesRecorded
      <4>2. exec[w].pc = "fail" /\ exec[w].result = "terminal"
              => "terminal" \in hist'.ends[j]
        BY <2>1, <3>3 DEF OutcomesRecorded
      <4> QED BY <1>0, <3>3, <4>1, <4>2 DEF SameJob, SettledBy
    <3> QED BY <3>1, <3>2, <3>3
  <2> QED BY <2>1, <2>2
<1>4. ASSUME NEW r \in Runners, RunnerNext(r) PROVE CauseInv'
  <2>1. hist'.ends = hist.ends BY <1>4, RunnerSteps
  <2>2. OutcomesRecorded'
    <3>1. \A w \in Workers : \/ exec'[w] = exec[w] \/ exec'[w] = FreeSlot
                             \/ \E j \in Jobs : exec'[w] = Dispatch(r, j, nTokens + 1)
      BY <1>4, RunnerSteps
    <3>2. \A j \in Jobs : /\ Dispatch(r, j, nTokens + 1).pc \in {"handle", "fail"}
                          /\ Dispatch(r, j, nTokens + 1).pc = "fail"
                                => Dispatch(r, j, nTokens + 1).result = "error"
      <4>1. nTokens + 1 \in Nat BY DEF TypeOK
      <4> QED BY <4>1, DispatchType
    <3> QED BY <2>1, <3>1, <3>2, FreeSlotType DEF OutcomesRecorded
  <2>3. \A j \in Jobs : \/ rows'[j] = rows[j]
                        \/ rows'[j].state = "running"
                        \/ ExpiredRow(j) /\ SameJob(j)
    <3>1. ASSUME NEW E \in SUBSET Due(runner[r].now), NEW C \in SUBSET Jobs,
                 ClaimDueJobs(r, E, C), NEW j \in Jobs
          PROVE  \/ rows'[j] = rows[j]
                 \/ rows'[j].state = "running"
                 \/ ExpiredRow(j) /\ SameJob(j)
      BY <3>1, ClaimSteps DEF ClaimedRow
    <3> QED BY <1>4, <3>1, RunnerSteps
  <2> QED BY <1>0, <2>1, <2>2, <2>3 DEF ExpiredRow, SameJob
<1> QED BY <1>1, <1>2, <1>3, <1>4 DEF Next

\* No step takes a key that is live, and no settled row comes back to life.
LEMMA RowSteps ==
  ASSUME TypeOK, BusySlots, FreshRows, [Next]_qvars
  PROVE  \/ \A j \in Jobs :
              /\ rows'[j].key = rows[j].key
              /\ rows'[j].state \in Live => rows[j].state \in Live
              /\ rows[j].state \in Terminal => rows'[j] = rows[j]
         \/ \E i \in Jobs :
              /\ rows[i].state = "absent"
              /\ LiveRows(rows'[i].key) = {}
              /\ \A j \in Jobs \ {i} : rows'[j] = rows[j]
<1>1. CASE Tick \/ UNCHANGED qvars BY <1>1 DEF Tick, qvars
<1>2. ASSUME NEW c \in Callers, CallerNext(c), ~UNCHANGED rows
      PROVE  \E i \in Jobs : /\ rows[i].state = "absent"
                             /\ LiveRows(rows'[i].key) = {}
                             /\ \A j \in Jobs \ {i} : rows'[j] = rows[j]
  <2>1. /\ nRows + 1 \in Jobs
        /\ LiveRows(rows'[nRows + 1].key) = {}
        /\ \A j \in Jobs \ {nRows + 1} : rows'[j] = rows[j]
    BY <1>2, CallerSteps
  <2>2. rows[nRows + 1].state = "absent" BY <2>1 DEF FreshRows, TypeOK
  <2> QED BY <2>1, <2>2
<1>3. ASSUME NEW w \in Workers, WorkerNext(w), NEW j \in Jobs
      PROVE  /\ rows'[j].key = rows[j].key
             /\ rows'[j].state \in Live => rows[j].state \in Live
             /\ rows[j].state \in Terminal => rows'[j] = rows[j]
  <2>1. SameJob(j) /\ (Kept(j) \/ SettledBy(w, j))
    BY <1>3, WorkerSteps DEF BusySlots
  <2> QED BY <2>1 DEF SameJob, Kept, SettledBy, Live, Terminal
<1>4. ASSUME NEW r \in Runners, RunnerNext(r), NEW j \in Jobs
      PROVE  /\ rows'[j].key = rows[j].key
             /\ rows'[j].state \in Live => rows[j].state \in Live
             /\ rows[j].state \in Terminal => rows'[j] = rows[j]
  <2>1. \/ rows'[j] = rows[j]
        \/ SameJob(j) /\ (ClaimedRow(j) \/ ExpiredRow(j))
    <3>1. ASSUME NEW E \in SUBSET Due(runner[r].now), NEW C \in SUBSET Jobs,
                 ClaimDueJobs(r, E, C)
          PROVE  \/ rows'[j] = rows[j]
                 \/ SameJob(j) /\ (ClaimedRow(j) \/ ExpiredRow(j))
      BY <3>1, ClaimSteps
    <3> QED BY <1>4, <3>1, RunnerSteps
  <2> QED BY <2>1 DEF SameJob, ClaimedRow, ExpiredRow, Live, Terminal
<1>5. CASE UNCHANGED rows BY <1>5
<1> QED BY <1>1, <1>2, <1>3, <1>4, <1>5 DEF Next

LEMMA KeyStep ==
  TypeOK /\ BusySlots /\ FreshRows /\ LiveKeyUnique /\ [Next]_qvars => LiveKeyUnique'
<1> SUFFICES ASSUME TypeOK, BusySlots, FreshRows, LiveKeyUnique, [Next]_qvars
             PROVE  LiveKeyUnique'
  OBVIOUS
<1>1. CASE \A j \in Jobs : /\ rows'[j].key = rows[j].key
                           /\ rows'[j].state \in Live => rows[j].state \in Live
  BY <1>1 DEF LiveKeyUnique
<1>2. ASSUME NEW i \in Jobs, LiveRows(rows'[i].key) = {},
             \A j \in Jobs \ {i} : rows'[j] = rows[j]
      PROVE  LiveKeyUnique'
  <2>1. \A j \in Jobs : rows[j].state \in Live => rows[j].key # rows'[i].key
    BY <1>2 DEF LiveRows
  <2> QED BY <1>2, <2>1 DEF LiveKeyUnique
<1> QED BY <1>1, <1>2, RowSteps

(***************************************************************************)
(* What enqueue answers.  A call compares the table with the one it found: *)
(* rows beyond oldRows were inserted since, rows of oldTerminal had ended. *)
(* The part that makes it inductive is the lookup that found nothing: from *)
(* then on every live row of the key is newer than the call.               *)
(***************************************************************************)
CallOK(c) ==
    /\ enq[c].oldRows <= nRows
    /\ \A j \in enq[c].oldTerminal : rows[j].state \in Terminal
    /\ enq[c].pc = "reinsert" => \A j \in LiveRows(enq[c].key) : j > enq[c].oldRows
    /\ enq[c].outcome \in {"created", "deduped"} =>
          /\ enq[c].row \in Jobs \ enq[c].oldTerminal
          /\ enq[c].row <= nRows
          /\ rows[enq[c].row].key = enq[c].key
          /\ rows[enq[c].row].spec = enq[c].spec
    /\ enq[c].outcome = "lookup_failed" =>
          \E j \in enq[c].oldRows + 1 .. nRows : rows[j].key = enq[c].key

CallsOK == \A c \in Callers : CallOK(c)

\* The table only grows: an inserted row keeps its key and semantics, only a
\* row inserted by this step comes to life.
LEMMA TableGrows ==
  ASSUME TypeOK, BusySlots, FreshRows, [Next]_qvars
  PROVE  /\ nRows' >= nRows
         /\ \A j \in Jobs : j <= nRows => SameJob(j)
         /\ \A j \in Jobs : rows'[j].state \in Live => rows[j].state \in Live \/ j > nRows
         /\ \A j \in Jobs : rows[j].state \in Terminal => rows'[j] = rows[j]
<1>0. nRows \in Nat BY DEF TypeOK
<1>1. CASE Tick \/ UNCHANGED qvars BY <1>0, <1>1 DEF Tick, qvars, SameJob
<1>2. ASSUME NEW c \in Callers, CallerNext(c)
      PROVE  /\ nRows' >= nRows
             /\ \A j \in Jobs : j <= nRows => SameJob(j)
             /\ \A j \in Jobs : rows'[j].state \in Live
                                  => rows[j].state \in Live \/ j > nRows
             /\ \A j \in Jobs : rows[j].state \in Terminal => rows'[j] = rows[j]
  <2>1. CASE UNCHANGED <<rows, nRows>> BY <1>0, <2>1 DEF SameJob
  <2>2. CASE /\ nRows' = nRows + 1 /\ nRows + 1 \in Jobs
             /\ \A j \in Jobs \ {nRows + 1} : rows'[j] = rows[j]
    <3>1. rows[nRows + 1].state = "absent" BY <1>0, <2>2 DEF FreshRows
    <3> QED BY <1>0, <2>2, <3>1 DEF SameJob, Terminal, Jobs
  <2> QED BY <1>2, <2>1, <2>2, CallerSteps
<1>3. ASSUME NEW w \in Workers, WorkerNext(w)
      PROVE  /\ nRows' = nRows
             /\ \A j \in Jobs : /\ SameJob(j)
                                /\ rows'[j].state \in Live => rows[j].state \in Live
                                /\ rows[j].state \in Terminal => rows'[j] = rows[j]
  <2>1. \A j \in Jobs : SameJob(j) /\ (Kept(j) \/ SettledBy(w, j))
    BY <1>3, WorkerSteps DEF BusySlots
  <2>2. nRows' = nRows BY <1>3, WorkerSlots
  <2> QED BY <2>1, <2>2 DEF Kept, SettledBy, Live, Terminal
<1>4. ASSUME NEW r \in Runners, RunnerNext(r)
      PROVE  /\ nRows' = nRows
             /\ \A j \in Jobs : /\ SameJob(j)
                                /\ rows'[j].state \in Live => rows[j].state \in Live
                                /\ rows[j].state \in Terminal => rows'[j] = rows[j]
  <2>1. nRows' = nRows BY <1>4, RunnerSteps
  <2>2. CASE UNCHANGED rows BY <2>1, <2>2 DEF SameJob
  <2>3. ASSUME NEW E \in SUBSET Due(runner[r].now), NEW C \in SUBSET Jobs,
               ClaimDueJobs(r, E, C), NEW j \in Jobs
        PROVE  /\ SameJob(j)
               /\ rows'[j].state \in Live => rows[j].state \in Live
               /\ rows[j].state \in Terminal => rows'[j] = rows[j]
    <3>1. \/ rows'[j] = rows[j]
          \/ SameJob(j) /\ (ClaimedRow(j) \/ ExpiredRow(j))
      BY <2>3, ClaimSteps
    <3> QED BY <3>1 DEF SameJob, ClaimedRow, ExpiredRow, Live, Terminal
  <2> QED BY <1>4, <2>1, <2>2, <2>3, RunnerSteps
<1> QED BY <1>0, <1>1, <1>2, <1>3, <1>4 DEF Next

\* A call at rest is not disturbed by the steps of others.
LEMMA CallKept ==
  ASSUME TypeOK, BusySlots, FreshRows, [Next]_qvars,
         NEW c \in Callers, CallOK(c), enq'[c] = enq[c]
  PROVE  CallOK(c)'
<1>0. /\ nRows \in Nat /\ enq[c].oldRows \in Nat /\ enq[c].oldTerminal \in SUBSET Jobs
  BY DEF TypeOK, Enq
<1>1. /\ nRows' >= nRows
      /\ \A j \in Jobs : j <= nRows => SameJob(j)
      /\ \A j \in Jobs : rows'[j].state \in Live => rows[j].state \in Live \/ j > nRows
      /\ \A j \in Jobs : rows[j].state \in Terminal => rows'[j] = rows[j]
  BY TableGrows
<1>2. nRows' \in Nat /\ nRows \in 0 .. MaxRows /\ MaxRows \in Nat
  BY NextType, QueueAssumption DEF TypeOK
<1>3. enq[c].oldRows <= nRows' BY <1>0, <1>1, <1>2 DEF CallOK
<1>4. \A j \in enq[c].oldTerminal : rows'[j].state \in Terminal
  BY <1>0, <1>1 DEF CallOK
<1>5. ASSUME enq[c].pc = "reinsert", NEW j \in Jobs,
             rows'[j].state \in Live, rows'[j].key = enq[c].key
      PROVE  j > enq[c].oldRows
  <2>1. CASE j > nRows BY <1>0, <2>1 DEF CallOK, Jobs
  <2>2. CASE j <= nRows
    <3>1. rows[j].state \in Live /\ rows[j].key = enq[c].key
      BY <1>0, <1>1, <1>5, <2>2 DEF SameJob, Jobs
    <3> QED BY <1>5, <3>1 DEF CallOK, LiveRows
  <2> QED BY <1>0, <2>1, <2>2 DEF Jobs
<1>6. ASSUME enq[c].outcome \in {"created", "deduped"}
      PROVE  /\ enq[c].row \in Jobs \ enq[c].oldTerminal
             /\ enq[c].row <= nRows'
             /\ rows'[enq[c].row].key = enq[c].key
             /\ rows'[enq[c].row].spec = enq[c].spec
  <2>1. enq[c].row \in Jobs \ enq[c].oldTerminal /\ enq[c].row <= nRows
    BY <1>6 DEF CallOK
  <2>2. SameJob(enq[c].row) BY <1>1, <2>1
  <2>3. enq[c].row <= nRows' BY <1>0, <1>1, <1>2, <2>1 DEF Jobs
  <2> QED BY <1>6, <2>1, <2>2, <2>3 DEF CallOK, SameJob
<1>7. ASSUME enq[c].outcome = "lookup_failed"
      PROVE  \E j \in enq[c].oldRows + 1 .. nRows' : rows'[j].key = enq[c].key
  <2>1. PICK j \in enq[c].oldRows + 1 .. nRows : rows[j].key = enq[c].key
    BY <1>7 DEF CallOK
  <2>2. j \in Jobs /\ j <= nRows /\ j \in enq[c].oldRows + 1 .. nRows'
    BY <1>0, <1>1, <1>2, <2>1 DEF Jobs
  <2>3. SameJob(j) BY <1>1, <2>2
  <2> QED BY <2>1, <2>2, <2>3 DEF SameJob
<1> QED BY <1>3, <1>4, <1>5, <1>6, <1>7 DEF CallOK, LiveRows

\* A caller's own step keeps its call in order.
LEMMA CallStep ==
  ASSUME TypeOK, BusySlots, FreshRows, NEW c \in Callers, CallOK(c), CallerNext(c)
  PROVE  CallOK(c)'
<1>0. /\ nRows \in Nat /\ enq[c] \in Enq
      /\ enq[c].oldRows \in Nat /\ enq[c].oldTerminal \in SUBSET Jobs
      /\ enq[c].key \in Keys /\ enq[c].spec \in Specs /\ enq[c].runAfter \in Nat
  BY DEF TypeOK, Enq
<1>a. \A j \in Jobs : rows[j].state # "absent" => j <= nRows
  BY <1>0 DEF FreshRows, Jobs
\* Returning changes the answer and nothing else of the call.
<1>b. ASSUME NEW outcome, NEW j, EnqueueReturn(c, outcome, j)
      PROVE  /\ enq'[c].pc = "done" /\ enq'[c].outcome = outcome /\ enq'[c].row = j
             /\ enq'[c].key = enq[c].key /\ enq'[c].spec = enq[c].spec
             /\ enq'[c].oldRows = enq[c].oldRows
             /\ enq'[c].oldTerminal = enq[c].oldTerminal
  BY <1>0, <1>b DEF EnqueueReturn, TypeOK, Enq
<1>1. ASSUME NEW key \in Keys, NEW spec \in Specs, NEW delay \in RunDelays,
             EnqueueCall(c, key, spec, delay)
      PROVE  CallOK(c)'
  <2>1. /\ enq'[c].pc = "insert" /\ enq'[c].outcome = "none"
        /\ enq'[c].oldRows = nRows /\ enq'[c].oldTerminal = TerminalRows
        /\ rows' = rows /\ nRows' = nRows
    BY <1>1 DEF EnqueueCall, TypeOK
  <2> QED BY <1>0, <2>1 DEF CallOK, TerminalRows
<1>2. CASE EnqueueInserted(c)
  <2>1. /\ nRows + 1 \in Jobs /\ nRows' = nRows + 1
        /\ rows' = [rows EXCEPT ![nRows + 1] =
                      NewRow(enq[c].key, enq[c].spec, enq[c].runAfter)]
    BY <1>2, QueueAssumption DEF EnqueueInserted, InsertJob, TypeOK, Jobs
  <2>2. rows[nRows + 1].state = "absent" BY <1>0, <2>1 DEF FreshRows
  <2>3. nRows + 1 \notin enq[c].oldTerminal BY <2>2 DEF CallOK, Terminal
  <2>4. /\ rows'[nRows + 1].key = enq[c].key /\ rows'[nRows + 1].spec = enq[c].spec
    BY <1>0, <2>1, NewRowType DEF TypeOK
  <2>5. \A j \in Jobs \ {nRows + 1} : rows'[j] = rows[j] BY <2>1 DEF TypeOK
  <2>6. \A j \in enq[c].oldTerminal : rows'[j].state \in Terminal
    BY <1>0, <2>3, <2>5 DEF CallOK
  <2>7. \/ EnqueueReturn(c, "created", nRows + 1)
        \/ EnqueueReturn(c, "error", NoJob)
    BY <1>2 DEF EnqueueInserted
  <2>8. /\ enq'[c].pc = "done"
        /\ \/ enq'[c].outcome = "created" /\ enq'[c].row = nRows + 1
           \/ enq'[c].outcome = "error"
        /\ enq'[c].key = enq[c].key /\ enq'[c].spec = enq[c].spec
        /\ enq'[c].oldRows = enq[c].oldRows
        /\ enq'[c].oldTerminal = enq[c].oldTerminal
    BY <1>b, <2>7
  <2>9. enq[c].oldRows <= nRows + 1 BY <1>0 DEF CallOK
  <2> QED BY <1>0, <2>1, <2>3, <2>4, <2>6, <2>8, <2>9 DEF CallOK
<1>3. CASE EnqueueConflict(c)
  <2>1. rows' = rows /\ nRows' = nRows BY <1>3 DEF EnqueueConflict
  <2>2. CASE enq' = [enq EXCEPT ![c].pc = "select"] /\ enq[c].pc = "insert"
    <3>1. /\ enq'[c].pc = "select" /\ enq'[c].outcome = enq[c].outcome
          /\ enq'[c].row = enq[c].row
          /\ enq'[c].key = enq[c].key /\ enq'[c].spec = enq[c].spec
          /\ enq'[c].oldRows = enq[c].oldRows
          /\ enq'[c].oldTerminal = enq[c].oldTerminal
      BY <1>0, <2>2 DEF TypeOK, Enq
    <3> QED BY <2>1, <3>1 DEF CallOK
  <2>3. CASE enq[c].pc = "reinsert" /\ EnqueueReturn(c, "lookup_failed", NoJob)
    <3>1. PICK j \in LiveRows(enq[c].key) : TRUE BY <1>3 DEF EnqueueConflict
    <3>2. j \in Jobs /\ j > enq[c].oldRows /\ j <= nRows /\ rows[j].key = enq[c].key
      BY <1>a, <2>3, <3>1 DEF CallOK, LiveRows, Live
    <3>3. j \in enq[c].oldRows + 1 .. nRows BY <1>0, <3>2 DEF Jobs
    <3>4. /\ enq'[c].pc = "done" /\ enq'[c].outcome = "lookup_failed"
          /\ enq'[c].key = enq[c].key
          /\ enq'[c].oldRows = enq[c].oldRows
          /\ enq'[c].oldTerminal = enq[c].oldTerminal
      BY <1>b, <2>3
    <3> QED BY <2>1, <3>2, <3>3, <3>4 DEF CallOK
  <2> QED BY <1>3, <2>2, <2>3 DEF EnqueueConflict
<1>4. CASE EnqueueLookup(c)
  <2>1. rows' = rows /\ nRows' = nRows BY <1>4 DEF EnqueueLookup
  <2>2. CASE LookupRows(c) = {} /\ enq' = [enq EXCEPT ![c].pc = "reinsert"]
    <3>1. /\ enq'[c].pc = "reinsert" /\ enq'[c].outcome = enq[c].outcome
          /\ enq'[c].row = enq[c].row
          /\ enq'[c].key = enq[c].key /\ enq'[c].spec = enq[c].spec
          /\ enq'[c].oldRows = enq[c].oldRows
          /\ enq'[c].oldTerminal = enq[c].oldTerminal
      BY <1>0, <2>2 DEF TypeOK, Enq
    <3> QED BY <2>1, <2>2, <3>1 DEF CallOK, LookupRows, LiveRows
  <2>3. ASSUME NEW j \in LookupRows(c),
               EnqueueReturn(c, IF rows[j].spec # enq[c].spec
                                  THEN "divergent" ELSE "deduped", j)
        PROVE  CallOK(c)'
    <3>1. /\ j \in Jobs /\ j <= nRows /\ rows[j].key = enq[c].key
          /\ j \notin enq[c].oldTerminal
      BY <1>a, <2>3 DEF LookupRows, LiveRows, CallOK, Live, Terminal
    <3>2. /\ enq'[c].pc = "done" /\ enq'[c].row = j
          /\ \/ enq'[c].outcome = "deduped" /\ rows[j].spec = enq[c].spec
             \/ enq'[c].outcome = "divergent"
          /\ enq'[c].key = enq[c].key /\ enq'[c].spec = enq[c].spec
          /\ enq'[c].oldRows = enq[c].oldRows
          /\ enq'[c].oldTerminal = enq[c].oldTerminal
      BY <1>b, <2>3
    <3> QED BY <2>1, <3>1, <3>2 DEF CallOK
  <2> QED BY <1>4, <2>2, <2>3 DEF EnqueueLookup
<1>5. CASE EnqueueError(c)
  <2>1. rows' = rows /\ nRows' = nRows /\ EnqueueReturn(c, "error", NoJob)
    BY <1>5 DEF EnqueueError
  <2>2. /\ enq'[c].pc = "done" /\ enq'[c].outcome = "error"
        /\ enq'[c].oldRows = enq[c].oldRows
        /\ enq'[c].oldTerminal = enq[c].oldTerminal
    BY <1>b, <2>1
  <2> QED BY <2>1, <2>2 DEF CallOK
<1> QED BY <1>1, <1>2, <1>3, <1>4, <1>5 DEF CallerNext

LEMMA CallsStep == IInv /\ CallsOK /\ [Next]_qvars => CallsOK'
<1> SUFFICES ASSUME IInv, CallsOK, [Next]_qvars, NEW d \in Callers PROVE CallOK(d)'
  BY DEF CallsOK
<1>0. TypeOK /\ BusySlots /\ FreshRows /\ CallOK(d)
  BY DEF IInv, HolderInv, BudgetInv, CallsOK
<1>1. CASE CallerNext(d) BY <1>0, <1>1, CallStep
<1>2. CASE enq'[d] = enq[d] BY <1>0, <1>2, CallKept
<1>3. ASSUME NEW c \in Callers, c # d, CallerNext(c) PROVE enq'[d] = enq[d]
  <2>1. ASSUME NEW outcome, NEW j, EnqueueReturn(c, outcome, j) PROVE enq'[d] = enq[d]
    BY <1>0, <1>3, <2>1 DEF EnqueueReturn, TypeOK
  <2>2. (\E k \in Keys, sp \in Specs, t \in RunDelays : EnqueueCall(c, k, sp, t))
          => enq'[d] = enq[d]
    BY <1>0, <1>3 DEF EnqueueCall, TypeOK
  <2>3. EnqueueInserted(c) \/ EnqueueError(c) => enq'[d] = enq[d]
    BY <2>1 DEF EnqueueInserted, EnqueueError
  <2>4. EnqueueConflict(c) => enq'[d] = enq[d]
    BY <1>0, <1>3, <2>1 DEF EnqueueConflict, TypeOK
  <2>5. EnqueueLookup(c) => enq'[d] = enq[d]
    BY <1>0, <1>3, <2>1 DEF EnqueueLookup, TypeOK
  <2> QED BY <1>3, <2>2, <2>3, <2>4, <2>5 DEF CallerNext
<1>4. ASSUME NEW w \in Workers, WorkerNext(w) PROVE enq' = enq
  <2>1. HeartbeatFires(w) \/ Renewed(w) \/ RenewError(w) => enq' = enq
    BY DEF HeartbeatFires, Renewed, RenewError
  <2>2. HeartbeatStopped(w) \/ (\E res \in Results : HandlerEnds(w, res)) => enq' = enq
    BY DEF HeartbeatStopped, HandlerEnds
  <2>3. Completed(w) \/ CompleteError(w) \/ Failed(w) \/ FailError(w) => enq' = enq
    BY DEF Completed, CompleteError, Failed, FailError
  <2> QED BY <1>4, <2>1, <2>2, <2>3 DEF WorkerNext
<1>5. ASSUME NEW r \in Runners, RunnerNext(r) PROVE enq' = enq
  <2>1. TickBegin(r) \/ TickError(r) => enq' = enq BY DEF TickBegin, TickError
  <2>3. TickEnd(r) => enq' = enq BY Zenon DEF TickEnd
  <2>2. Stop(r) \/ StopResolved(r) \/ Crash(r) \/ Start(r) => enq' = enq
    BY DEF Stop, StopResolved, Crash, Start
  <2> QED BY <1>5, <2>1, <2>2, <2>3 DEF RunnerNext
<1>6. Tick \/ UNCHANGED qvars => enq' = enq BY DEF Tick, qvars
<1> QED BY <1>1, <1>2, <1>3, <1>4, <1>5, <1>6 DEF Next

LEMMA InitCalls == Init => CallsOK
<1> SUFFICES ASSUME Init, NEW c \in Callers PROVE CallOK(c) BY DEF CallsOK
<1>1. /\ enq[c].pc = "idle" /\ enq[c].outcome = "none"
      /\ enq[c].oldRows = 0 /\ enq[c].oldTerminal = {} /\ nRows = 0
  BY DEF Init
<1> QED BY <1>1 DEF CallOK

(***************************************************************************)
(* What stop() leaves behind.  While none of a runner's statements failed, *)
(* every lease it took is held by one of its executions: a claim occupies  *)
(* a slot for each row it returns, and complete and fail free the slot     *)
(* only after the row they hold has left "running".                        *)
(***************************************************************************)
LeasesHeld(r) ==
    runner[r].faults = 0 =>
       \A j \in Jobs :
          rows[j].state = "running" /\ rows[j].lease_token \in hist.minted[r] =>
             \E w \in Slots(r) : /\ exec[w].pc # "free"
                                 /\ exec[w].job = j
                                 /\ exec[w].token = rows[j].lease_token

StopOK(r) ==
    /\ \A t \in hist.minted[r] : t <= nTokens
    /\ runner[r].phase = "stopped" =>
          ~runner[r].claiming /\ \A w \in Slots(r) : exec[w].pc = "free"
    /\ LeasesHeld(r)

StopsOK == \A r \in Runners : StopOK(r)

\* complete and fail of a holder take its row out of "running".
LEMMA SettlingEndsLease ==
  ASSUME TypeOK, NEW w \in Workers, exec[w].job \in Jobs, CompleteRow(w) \/ FailRow(w)
  PROVE  rows'[exec[w].job].state # "running"
<1> DEFINE job == exec[w].job
           t == exec[w].now + Backoff(rows[job].attempts)
<1>1. rows[job] \in Row /\ exec[w].now \in Nat BY DEF TypeOK, Exec
<1>2. rows[job].attempts \in Nat BY <1>1 DEF Row
<1>3. t \in Nat BY <1>1, <1>2, BackoffType, QueueAssumption
<1>4. \/ rows' = [rows EXCEPT ![job] = Settled(rows[job], "succeeded")]
      \/ rows' = [rows EXCEPT ![job] = Settled(rows[job], "dead_letter")]
      \/ rows' = [rows EXCEPT ![job] = Requeued(rows[job], t)]
  BY DEF CompleteRow, FailRow, TypeOK
<1> HIDE DEF t
<1>5. /\ Settled(rows[job], "succeeded").state = "succeeded"
      /\ Settled(rows[job], "dead_letter").state = "dead_letter"
  BY <1>1, SettledRowType DEF States
<1>6. Requeued(rows[job], t).state = "queued" BY <1>1, <1>3, RequeuedRowType
<1> QED BY <1>4, <1>5, <1>6 DEF TypeOK

\* An execution: it gives its slot up only with the lease, or after a fault.
LEMMA StopWorkerStep ==
  ASSUME TypeOK, BusySlots, NEW r \in Runners, StopOK(r), NEW w \in Workers, WorkerNext(w)
  PROVE  StopOK(r)'
<1>0. /\ runner[r].faults \in Nat /\ exec[w] \in Exec /\ runner \in [Runners -> Runner]
      /\ RunnerOf[w] \in Runners
  BY QueueAssumption DEF TypeOK, Runner
<1>a. /\ nTokens' = nTokens
      /\ \A v \in Workers \ {w} : exec'[v] = exec[v]
      /\ exec[w].pc = "free" => exec'[w].pc = "free"
  BY WorkerSlots, FreeSlotType
<1>b. \A j \in Jobs : rows'[j].state = "running" =>
         rows[j].state = "running" /\ rows'[j].lease_token = rows[j].lease_token
  BY WorkerSteps DEF BusySlots, Kept, SettledBy
<1>c. hist'.minted = hist.minted
  <2>1. ASSUME NEW res \in Results, HandlerEnds(w, res) PROVE hist'.minted = hist.minted
    BY <2>1 DEF HandlerEnds, TypeOK, Hist
  <2>2. (\E res \in Results : HandlerEnds(w, res)) \/ hist' = hist
    BY DEF WorkerNext, HeartbeatFires, Renewed, RenewError, HeartbeatStopped,
       Completed, CompleteError, Failed, FailError
  <2> QED BY <2>1, <2>2
\* Either the step keeps w's claim, or it settles what w holds, or it is a
\* failed statement of w's runner.
<1> DEFINE keeps == /\ exec'[w].job = exec[w].job /\ exec'[w].token = exec[w].token
                    /\ exec'[w].pc = "free" <=> exec[w].pc = "free"
           settles == Holds(w) => CompleteRow(w) \/ FailRow(w)
           Failing == runner' = [runner EXCEPT ![RunnerOf[w]].faults = @ + 1]
<1>d. \/ runner' = runner /\ (keeps \/ settles)
      \/ Failing
  <2>1. ASSUME NEW res \in Results, HandlerEnds(w, res) PROVE runner' = runner /\ keeps
    BY <1>0, <2>1 DEF HandlerEnds, TypeOK, Exec
  <2>2. HeartbeatFires(w) \/ Renewed(w) \/ HeartbeatStopped(w) => runner' = runner /\ keeps
    BY <1>0 DEF HeartbeatFires, Renewed, HeartbeatStopped, TypeOK, Exec
  <2>3. Completed(w) \/ Failed(w) => runner' = runner /\ settles
    BY DEF Completed, Failed
  <2>4. RenewError(w) \/ CompleteError(w) \/ FailError(w) => Failing
    BY DEF RenewError, CompleteError, FailError
  <2> QED BY <2>1, <2>2, <2>3, <2>4 DEF WorkerNext
<1>e. /\ runner'[r].phase = runner[r].phase /\ runner'[r].claiming = runner[r].claiming
      /\ runner'[r].faults = 0 => runner[r].faults = 0
      /\ runner' = runner \/ RunnerOf[w] # r \/ runner'[r].faults # 0
  <2>1. CASE runner' = runner BY <2>1
  <2>2. CASE Failing BY <1>0, <2>2 DEF Runner
  <2> QED BY <1>d, <2>1, <2>2
<1>1. \A t \in hist'.minted[r] : t <= nTokens' BY <1>a, <1>c DEF StopOK
<1>2. runner'[r].phase = "stopped" =>
        ~runner'[r].claiming /\ \A v \in Slots(r) : exec'[v].pc = "free"
  BY <1>a, <1>e DEF StopOK, Slots
<1>3. ASSUME runner'[r].faults = 0, NEW j \in Jobs,
             rows'[j].state = "running", rows'[j].lease_token \in hist'.minted[r]
      PROVE  \E v \in Slots(r) : /\ exec'[v].pc # "free" /\ exec'[v].job = j
                                 /\ exec'[v].token = rows'[j].lease_token
  <2>1. PICK v \in Slots(r) : /\ exec[v].pc # "free" /\ exec[v].job = j
                              /\ exec[v].token = rows[j].lease_token
    BY <1>3, <1>b, <1>c, <1>e DEF StopOK, LeasesHeld
  <2>2. rows'[j].lease_token = rows[j].lease_token /\ rows[j].state = "running"
    BY <1>3, <1>b
  <2>3. CASE v # w BY <1>a, <2>1, <2>2, <2>3 DEF Slots
  <2>4. CASE v = w
    <3>1. RunnerOf[w] = r BY <2>4 DEF Slots
    <3>2. runner' = runner BY <1>3, <1>e, <3>1
    <3>3. Holds(w) BY <2>1, <2>2, <2>4 DEF Holds
    <3>4. ~(CompleteRow(w) \/ FailRow(w))
      BY <1>3, <2>1, <2>4, SettlingEndsLease
    <3>5. keeps \/ Failing BY <1>d, <3>3, <3>4
    <3>6. ~Failing BY <1>0, <3>1, <3>2 DEF Runner
    <3> QED BY <2>1, <2>2, <2>4, <3>5, <3>6
  <2> QED BY <2>3, <2>4
<1> QED BY <1>1, <1>2, <1>3 DEF StopOK, LeasesHeld, Slots

\* Another runner takes leases under tokens of its own only.
LEMMA StopOtherStep ==
  ASSUME TypeOK, TokensMinted, NEW r \in Runners, StopOK(r),
         NEW q \in Runners, q # r, RunnerNext(q)
  PROVE  StopOK(r)'
<1>0. /\ nTokens \in Nat /\ hist.minted \in [Runners -> SUBSET Nat]
  BY DEF TypeOK, Hist
<1>1. runner'[r] = runner[r]
  <2>1. TickBegin(q) \/ Stop(q) \/ StopResolved(q) \/ Start(q) => runner'[r] = runner[r]
    BY DEF TickBegin, Stop, StopResolved, Start, TypeOK
  <2>2. TickError(q) \/ Crash(q) => runner'[r] = runner[r]
    BY DEF TickError, Crash, TypeOK
  <2>3. ASSUME TickEnd(q) PROVE runner'[r] = runner[r]
    <3>1. runner' = [runner EXCEPT ![q] = TickOver(@, @.phase, 0)] BY <2>3, Zenon DEF TickEnd
    <3> QED BY <3>1 DEF TypeOK
  <2> QED BY <2>1, <2>2, <2>3 DEF RunnerNext
<1>2. ASSUME NEW w \in Slots(r) PROVE exec'[w] = exec[w]
  <2>1. RunnerOf[w] = r /\ w \in Workers BY DEF Slots
  <2>2. TickBegin(q) \/ TickError(q) \/ Stop(q) \/ StopResolved(q) \/ Start(q) => exec' = exec
    BY DEF TickBegin, TickError, Stop, StopResolved, Start
  <2>3. Crash(q) => exec'[w] = exec[w] BY <2>1 DEF Crash
  <2>4. ASSUME TickEnd(q) PROVE exec'[w] = exec[w]
    <3>a. PICK C \in SUBSET Jobs : \E slot \in [C -> FreeSlots(q)] :
             exec' = [v \in Workers |->
                        IF \E j \in C : slot[j] = v
                          THEN Dispatch(q, CHOOSE j \in C : slot[j] = v, NewToken)
                          ELSE exec[v]]
      BY <2>4, Zenon DEF TickEnd
    <3>1. PICK slot \in [C -> FreeSlots(q)] :
             exec' = [v \in Workers |->
                        IF \E j \in C : slot[j] = v
                          THEN Dispatch(q, CHOOSE j \in C : slot[j] = v, NewToken)
                          ELSE exec[v]]
      BY <3>a
    <3>2. \A j \in C : slot[j] # w BY <2>1 DEF FreeSlots, Slots
    <3> QED BY <2>1, <3>1, <3>2
  <2> QED BY <2>2, <2>3, <2>4 DEF RunnerNext
<1>3. hist'.minted[r] = hist.minted[r]
  <2>1. TickBegin(q) \/ Stop(q) \/ StopResolved(q) \/ Crash(q) \/ Start(q) => hist' = hist
    BY DEF TickBegin, Stop, StopResolved, Crash, Start
  <2>2. ASSUME TickError(q) PROVE hist'.minted[r] = hist.minted[r]
    <3>1. hist' = hist \/ \E S : hist' = [hist EXCEPT !.minted[q] = @ \cup S]
      BY <2>2 DEF TickError
    <3> QED BY <3>1 DEF TypeOK, Hist
  <2>3. ASSUME TickEnd(q) PROVE hist'.minted[r] = hist.minted[r]
    <3>1. \E S, T : hist' = [hist EXCEPT !.starts = S, !.minted[q] = @ \cup T]
      BY <2>3, Zenon DEF TickEnd
    <3> QED BY <3>1 DEF TypeOK, Hist
  <2> QED BY <2>1, <2>2, <2>3 DEF RunnerNext
<1>4. nTokens' >= nTokens /\ nTokens' \in Nat
  <2>1. ASSUME NEW E \in SUBSET Due(runner[q].now), NEW C \in SUBSET Jobs,
               ClaimDueJobs(q, E, C)
        PROVE  nTokens' \in {nTokens, nTokens + 1}
    BY <2>1, ClaimSteps
  <2>2. nTokens' \in {nTokens, nTokens + 1} BY <2>1, RunnerSteps
  <2> QED BY <1>0, <2>2
<1>5. ASSUME NEW j \in Jobs, rows'[j].state = "running"
      PROVE  rows'[j] = rows[j] \/ rows'[j].lease_token = nTokens + 1
  <2>1. ASSUME NEW E \in SUBSET Due(runner[q].now), NEW C \in SUBSET Jobs,
               ClaimDueJobs(q, E, C)
        PROVE  rows'[j] = rows[j] \/ rows'[j].lease_token = nTokens + 1
    BY <1>5, <2>1, ClaimSteps DEF ClaimedRow, ExpiredRow
  <2> QED BY <2>1, RunnerSteps
<1>6. \A t \in hist'.minted[r] : t <= nTokens' BY <1>0, <1>3, <1>4 DEF StopOK
<1>7. nTokens + 1 \notin hist'.minted[r] BY <1>0, <1>3 DEF StopOK
<1>8. LeasesHeld(r)' BY <1>1, <1>2, <1>3, <1>5, <1>7 DEF StopOK, LeasesHeld, Slots
<1> QED BY <1>1, <1>2, <1>6, <1>8 DEF StopOK, Slots

\* The runner's own claim: every row it returns gets a slot.
LEMMA StopClaimStep ==
  ASSUME TypeOK, BusySlots, TokensMinted, NEW r \in Runners, StopOK(r), TickEnd(r)
  PROVE  StopOK(r)'
<1>0. /\ nTokens \in Nat /\ hist \in Hist /\ runner[r] \in Runner
      /\ \A j \in Jobs : rows[j] \in Row
  BY DEF TypeOK
<1>a. PICK E \in SUBSET Due(runner[r].now), C \in SUBSET Jobs :
        /\ ClaimDueJobs(r, E, C)
        /\ \E slot \in [C -> FreeSlots(r)] :
              /\ \A i, j \in C : slot[i] = slot[j] => i = j
              /\ exec' = [w \in Workers |->
                            IF \E j \in C : slot[j] = w
                              THEN Dispatch(r, CHOOSE j \in C : slot[j] = w, NewToken)
                              ELSE exec[w]]
        /\ \E S : hist' = [hist EXCEPT !.starts = S,
                             !.minted[r] = @ \cup IF C = {} THEN {} ELSE {NewToken}]
  BY Zenon DEF TickEnd
<1>1. PICK slot \in [C -> FreeSlots(r)] :
        /\ \A i, j \in C : slot[i] = slot[j] => i = j
        /\ exec' = [w \in Workers |->
                      IF \E j \in C : slot[j] = w
                        THEN Dispatch(r, CHOOSE j \in C : slot[j] = w, NewToken)
                        ELSE exec[w]]
  BY <1>a
<1>2. /\ runner[r].claiming
      /\ runner' = [runner EXCEPT ![r] = TickOver(@, @.phase, 0)]
  BY Zenon DEF TickEnd
<1>3. runner'[r].phase = runner[r].phase /\ runner'[r].faults = runner[r].faults
  BY <1>0, <1>2 DEF TickOver, Runner, TypeOK
<1>4. hist'.minted[r] = hist.minted[r] \cup (IF C = {} THEN {} ELSE {nTokens + 1})
  BY <1>0, <1>a DEF Hist, NewToken
<1>5. nTokens' = IF C = {} THEN nTokens ELSE nTokens + 1 BY <1>a, ClaimSteps
<1>6. \A t \in hist'.minted[r] : t <= nTokens'
  BY <1>0, <1>4, <1>5 DEF StopOK, Hist
<1>7. runner'[r].phase # "stopped" BY <1>2, <1>3 DEF StopOK
<1>8. ASSUME runner'[r].faults = 0, NEW j \in Jobs,
             rows'[j].state = "running", rows'[j].lease_token \in hist'.minted[r]
      PROVE  \E v \in Slots(r) : /\ exec'[v].pc # "free" /\ exec'[v].job = j
                                 /\ exec'[v].token = rows'[j].lease_token
  <2>1. CASE j \in C
    <3>1. rows'[j].lease_token = nTokens + 1 BY <1>a, <2>1, ClaimSteps DEF ClaimedRow
    <3>2. slot[j] \in Slots(r) /\ slot[j] \in Workers BY <2>1 DEF FreeSlots, Slots
    <3>3. (CHOOSE i \in C : slot[i] = slot[j]) = j BY <1>1, <2>1
    <3>4. exec'[slot[j]] = Dispatch(r, j, nTokens + 1)
      BY <1>1, <2>1, <3>2, <3>3 DEF NewToken
    <3>5. /\ Dispatch(r, j, nTokens + 1).pc # "free"
          /\ Dispatch(r, j, nTokens + 1).job = j
          /\ Dispatch(r, j, nTokens + 1).token = nTokens + 1
      <4>1. nTokens + 1 \in Nat BY <1>0
      <4> QED BY <4>1, DispatchType
    <3> QED BY <3>1, <3>2, <3>4, <3>5
  <2>2. CASE j \notin C
    <3>1. rows'[j] = rows[j]
      <4>1. /\ \A i \in E \ C : ExpiredRow(i)
            /\ \A i \in Jobs \ E : rows'[i] = rows[i]
        BY <1>a, ClaimSteps
      <4> QED BY <1>8, <2>2, <4>1 DEF ExpiredRow
    <3>2. rows[j].lease_token <= nTokens /\ rows[j].lease_token \in Nat
      BY <1>0 DEF TokensMinted, Row
    <3>3. rows[j].lease_token \in hist.minted[r]
      BY <1>0, <1>4, <1>8, <3>1, <3>2
    <3>4. PICK v \in Slots(r) : /\ exec[v].pc # "free" /\ exec[v].job = j
                                /\ exec[v].token = rows[j].lease_token
      BY <1>3, <1>8, <3>1, <3>3 DEF StopOK, LeasesHeld
    <3>5. \A i \in C : slot[i] # v BY <3>4 DEF FreeSlots
    <3>6. exec'[v] = exec[v] BY <1>1, <3>5 DEF Slots
    <3> QED BY <3>1, <3>4, <3>6
  <2> QED BY <2>1, <2>2
<1> QED BY <1>6, <1>7, <1>8 DEF StopOK, LeasesHeld, Slots

\* The runner's other steps: a fault excuses it, stop() waits for its slots.
LEMMA StopRunnerStep ==
  ASSUME TypeOK, BusySlots, TokensMinted, NEW r \in Runners, StopOK(r), RunnerNext(r)
  PROVE  StopOK(r)'
<1>0. /\ runner[r] \in Runner /\ runner[r].faults \in Nat
      /\ nTokens \in Nat /\ hist \in Hist
  BY DEF TypeOK, Runner
<1>1. CASE TickEnd(r) BY <1>1, StopClaimStep
<1>2. CASE TickBegin(r) \/ Stop(r) \/ Start(r)
  <2>1. /\ UNCHANGED <<rows, nTokens, exec, hist>>
        /\ runner'[r].faults = runner[r].faults /\ runner'[r].phase # "stopped"
    BY <1>0, <1>2 DEF TickBegin, Stop, Start, TypeOK, Runner
  <2> QED BY <2>1 DEF StopOK, LeasesHeld, Slots
<1>3. CASE StopResolved(r)
  <2>1. /\ UNCHANGED <<rows, nTokens, exec, hist>>
        /\ runner'[r].faults = runner[r].faults
        /\ ~runner'[r].claiming /\ FreeSlots(r) = Slots(r)
    BY <1>0, <1>3 DEF StopResolved, TypeOK, Runner
  <2>2. \A w \in Slots(r) : exec[w].pc = "free" BY <2>1 DEF FreeSlots
  <2> QED BY <2>1, <2>2 DEF StopOK, LeasesHeld, Slots
<1>4. CASE Crash(r)
  <2>1. /\ UNCHANGED <<nTokens, hist>>
        /\ runner' = [runner EXCEPT ![r] = TickOver(@, "down", 1)]
    BY <1>4 DEF Crash
  <2>2. runner'[r].faults # 0 /\ runner'[r].phase = "down"
    BY <1>0, <2>1 DEF TickOver, Runner, TypeOK
  <2> QED BY <2>1, <2>2 DEF StopOK, LeasesHeld
<1>5. CASE TickError(r)
  <2>1. /\ runner[r].claiming
        /\ runner' = [runner EXCEPT ![r] = TickOver(@, @.phase, 1)]
    BY <1>5 DEF TickError
  <2>2. runner'[r].faults # 0 /\ runner'[r].phase = runner[r].phase
    BY <1>0, <2>1 DEF TickOver, Runner, TypeOK
  <2>3. \A t \in hist'.minted[r] : t <= nTokens'
    <3>1. CASE UNCHANGED <<nTokens, hist>> BY <3>1 DEF StopOK
    <3>2. ASSUME NEW E \in SUBSET Due(runner[r].now), NEW C \in SUBSET Jobs,
                 ClaimDueJobs(r, E, C),
                 hist' = [hist EXCEPT !.minted[r] =
                            @ \cup IF C = {} THEN {} ELSE {NewToken}]
          PROVE  \A t \in hist'.minted[r] : t <= nTokens'
      <4>1. nTokens' = IF C = {} THEN nTokens ELSE nTokens + 1 BY <3>2, ClaimSteps
      <4>2. hist'.minted[r] = hist.minted[r] \cup (IF C = {} THEN {} ELSE {nTokens + 1})
        BY <1>0, <3>2 DEF Hist, NewToken
      <4> QED BY <1>0, <4>1, <4>2 DEF StopOK, Hist
    <3> QED BY <1>5, <3>1, <3>2 DEF TickError
  <2> QED BY <2>1, <2>2, <2>3 DEF StopOK, LeasesHeld
<1> QED BY <1>1, <1>2, <1>3, <1>4, <1>5 DEF RunnerNext

LEMMA StopsStep == IInv /\ StopsOK /\ [Next]_qvars => StopsOK'
<1> SUFFICES ASSUME IInv, StopsOK, [Next]_qvars, NEW r \in Runners PROVE StopOK(r)'
  BY DEF StopsOK
<1>0. TypeOK /\ BusySlots /\ TokensMinted /\ StopOK(r)
  BY DEF IInv, HolderInv, StopsOK
<1>1. CASE Tick \/ UNCHANGED qvars
  BY <1>0, <1>1 DEF Tick, qvars, StopOK, LeasesHeld, Slots
<1>2. ASSUME NEW c \in Callers, CallerNext(c) PROVE StopOK(r)'
  <2>1. /\ UNCHANGED <<nTokens, exec, hist>>
        /\ \A j \in Jobs : rows'[j] = rows[j] \/ rows'[j].state = "queued"
    BY <1>0, <1>2, CallerSteps
  <2>2. runner' = runner
    BY <1>2 DEF CallerNext, EnqueueCall, EnqueueInserted, EnqueueConflict,
       EnqueueLookup, EnqueueError
  <2> QED BY <1>0, <2>1, <2>2 DEF StopOK, LeasesHeld, Slots
<1>3. ASSUME NEW w \in Workers, WorkerNext(w) PROVE StopOK(r)'
  BY <1>0, <1>3, StopWorkerStep
<1>4. ASSUME NEW q \in Runners, RunnerNext(q) PROVE StopOK(r)'
  BY <1>0, <1>4, StopOtherStep, StopRunnerStep
<1> QED BY <1>1, <1>2, <1>3, <1>4 DEF Next

LEMMA InitStops == Init => StopsOK
<1> SUFFICES ASSUME Init, NEW r \in Runners PROVE StopOK(r) BY DEF StopsOK
<1>1. hist.minted[r] = {} /\ runner[r].phase = "up" BY DEF Init
<1> QED BY <1>1 DEF StopOK, LeasesHeld

(***************************************************************************)
(* Who may take a lease from a running handler.  A renewal and a claim     *)
(* both read a clock before they are sent, and each runner reads its own.  *)
(* Between two renewals the lease outlives the next heartbeat by           *)
(* LeaseMs - RenewMs, so a claim finds it expired before that heartbeat is *)
(* due only if the clocks of the two runners disagree by more.             *)
(***************************************************************************)
\* The clocks of two runners differ by at most what a lease outlives its
\* heartbeat.
ClocksAgree == \A q, r \in Runners : Skew[q] + RenewMs <= Skew[r] + LeaseMs

\* The lease of a handler in a runner without faults is as old as its
\* heartbeat says: the renewal in flight, or the last one, read the clock
\* RenewMs before the next is due.  A handler that gave up its heartbeat had
\* already lost the lease.
LeaseAged(w) ==
    exec[w].pc = "handle" /\ Holds(w) =>
       /\ exec[w].hb # "off"
       /\ runner[RunnerOf[w]].faults = 0 =>
             /\ exec[w].hb = "timer" /\ exec[w].renews > 0 =>
                   rows[exec[w].job].lease_until + RenewMs >= exec[w].due + LeaseMs
             /\ exec[w].hb = "renewing" => exec[w].now + RenewMs >= exec[w].due

\* A claim was sent at a time its runner's clock has since reached.
ClaimSent(r) == runner[r].claiming => runner[r].now <= Clock(r)

LeasesAged == /\ \A w \in Workers : LeaseAged(w)
              /\ \A r \in Runners : ClaimSent(r)

\* Only an execution that holds its row changes it, and no other row.
LEMMA WorkerTouches ==
  ASSUME TypeOK, NEW w \in Workers, WorkerNext(w), NEW j \in Jobs, rows'[j] # rows[j]
  PROVE  j = exec[w].job /\ Holds(w)
<1>1. CASE ~Holds(w) \/ UNCHANGED rows
  <2>1. UNCHANGED rows
    BY <1>1 DEF WorkerNext, HeartbeatFires, Renewed, RenewError, HandlerEnds,
       HeartbeatStopped, Completed, CompleteError, Failed, FailError
  <2> QED BY <2>1
<1>2. CASE Holds(w) /\ (RenewRow(w) \/ CompleteRow(w) \/ FailRow(w))
  BY <1>2 DEF RenewRow, CompleteRow, FailRow, TypeOK
<1>3. UNCHANGED rows \/ (Holds(w) /\ (RenewRow(w) \/ CompleteRow(w) \/ FailRow(w)))
  BY DEF WorkerNext, HeartbeatFires, Renewed, RenewError, HandlerEnds,
     HeartbeatStopped, Completed, CompleteError, Failed, FailError
<1> QED BY <1>1, <1>2, <1>3

\* So no other execution changes the row a handler holds.
LEMMA OthersLeaveHeldRow ==
  ASSUME TypeOK, HolderInv, NEW w \in Workers, NEW v \in Workers, v # w,
         exec[w].pc # "free", Holds(w), WorkerNext(v)
  PROVE  rows'[exec[w].job] = rows[exec[w].job] /\ exec'[w] = exec[w]
<1>1. exec[w].job \in Jobs /\ exec[w].job # NoJob
  BY DEF HolderInv, BusySlots, Jobs, NoJob
<1>2. exec'[w] = exec[w] BY WorkerSlots
<1>3. ASSUME rows'[exec[w].job] # rows[exec[w].job] PROVE FALSE
  <2>1. exec[v].job = exec[w].job /\ Holds(v) BY <1>1, <1>3, WorkerTouches
  <2>2. exec[v].token = exec[w].token BY <2>1 DEF Holds
  <2> QED BY <1>1, <2>1, <2>2 DEF HolderInv, OneHolder
<1> QED BY <1>2, <1>3

\* A runner's step takes the row from its holder, and only when the lease has
\* expired by the clock its claim was sent at, or leaves it as it is.
LEMMA RunnerLeavesHeldRow ==
  ASSUME TypeOK, HolderInv, NEW w \in Workers, exec[w].pc # "free", Holds(w),
         NEW q \in Runners, RunnerNext(q)
  PROVE  \/ rows'[exec[w].job] = rows[exec[w].job]
         \/ /\ runner[q].claiming
            /\ rows[exec[w].job].lease_until <= runner[q].now
            /\ rows'[exec[w].job].lease_token # exec[w].token
<1> DEFINE j == exec[w].job
<1>1. j \in Jobs /\ exec[w].token \in 1 .. nTokens
  BY DEF HolderInv, BusySlots
<1>2. nTokens \in Nat BY DEF TypeOK
<1>3. rows'[j] # rows[j] => runner[q].claiming
  <2>1. TickEnd(q) \/ TickError(q) => runner[q].claiming
    BY Zenon DEF TickEnd, TickError
  <2>2. TickBegin(q) \/ Stop(q) \/ StopResolved(q) \/ Crash(q) \/ Start(q) => rows' = rows
    BY DEF TickBegin, Stop, StopResolved, Crash, Start
  <2> QED BY <2>1, <2>2 DEF RunnerNext
<1>4. ASSUME NEW E \in SUBSET Due(runner[q].now), NEW C \in SUBSET Jobs,
             ClaimDueJobs(q, E, C), rows'[j] # rows[j]
      PROVE  /\ rows[j].lease_until <= runner[q].now
             /\ rows'[j].lease_token # exec[w].token
  <2>1. /\ \A i \in C : ClaimedRow(i)
        /\ \A i \in E \ C : ExpiredRow(i)
        /\ \A i \in Jobs \ E : rows'[i] = rows[i]
    BY <1>4, ClaimSteps
  <2>2. j \in E BY <1>1, <1>4, <2>1
  <2>3. rows[j].lease_until <= runner[q].now BY <2>2 DEF Due, Holds
  <2>4. rows'[j].lease_token = nTokens + 1 \/ rows'[j].lease_token = NoToken
    BY <2>1, <2>2 DEF ClaimedRow, ExpiredRow
  <2> QED BY <1>1, <1>2, <2>3, <2>4 DEF NoToken
<1> QED BY <1>3, <1>4, RunnerSteps

\* Faults are never forgotten, a claim keeps the time it was sent at, and real
\* time does not go back.
LEMMA RunnerKeeps ==
  ASSUME TypeOK, [Next]_qvars, NEW r \in Runners
  PROVE  /\ runner'[r].faults = 0 => runner[r].faults = 0
         /\ runner'[r].claiming =>
               \/ runner[r].claiming /\ runner'[r].now = runner[r].now
               \/ runner'[r].now = Clock(r)
         /\ now' \in Nat /\ now' >= now
<1> DEFINE K(run) == /\ run.faults = 0 => runner[r].faults = 0
                     /\ run.claiming =>
                          \/ runner[r].claiming /\ run.now = runner[r].now
                          \/ run.now = Clock(r)
<1>0. /\ runner[r] \in Runner /\ runner[r].faults \in Nat /\ now \in Nat
      /\ runner[r].claiming \in BOOLEAN
  BY DEF TypeOK, Runner
<1>1. CASE Tick \/ UNCHANGED qvars BY <1>0, <1>1 DEF Tick, qvars
<1>2. ASSUME NEW c \in Callers, CallerNext(c) PROVE UNCHANGED <<now, runner>>
  BY <1>2 DEF CallerNext, EnqueueCall, EnqueueInserted, EnqueueConflict,
     EnqueueLookup, EnqueueError
<1>3. ASSUME NEW w \in Workers, WorkerNext(w) PROVE now' = now /\ K(runner'[r])
  <2>1. CASE UNCHANGED <<now, runner>> BY <1>0, <2>1
  <2>2. CASE runner' = [runner EXCEPT ![RunnerOf[w]].faults = @ + 1] /\ now' = now
    BY <1>0, <2>2 DEF TypeOK, Runner
  <2> QED BY <1>3, <2>1, <2>2 DEF WorkerNext, HeartbeatFires, Renewed, RenewError,
          HandlerEnds, HeartbeatStopped, Completed, CompleteError, Failed, FailError
<1>4. ASSUME NEW q \in Runners, RunnerNext(q) PROVE now' = now /\ K(runner'[r])
  <2>0. runner[q] \in Runner BY DEF TypeOK
  <2>1. CASE TickBegin(q)
    <3>1. runner' = [runner EXCEPT ![q] =
            [runner[q] EXCEPT !.claiming = TRUE, !.now = Clock(q),
                              !.limit = Cardinality(FreeSlots(q))]]
      BY <2>1 DEF TickBegin, TypeOK
    <3> QED BY <1>0, <2>0, <2>1, <3>1 DEF TickBegin, TypeOK, Runner
  <2>2. CASE Stop(q) \/ StopResolved(q) \/ Start(q)
    BY <1>0, <2>0, <2>2 DEF Stop, StopResolved, Start, TypeOK, Runner
  <2>3. ASSUME NEW phase, NEW f \in {0, 1},
               runner' = [runner EXCEPT ![q] = TickOver(@, phase, f)]
        PROVE  K(runner'[r])
    BY <1>0, <2>0, <2>3 DEF TickOver, TypeOK, Runner
  <2>4. CASE TickEnd(q)
    <3>1. /\ runner' = [runner EXCEPT ![q] = TickOver(@, runner[q].phase, 0)]
          /\ now' = now
      BY <2>4, Zenon DEF TickEnd, TypeOK
    <3> QED BY <2>3, <3>1
  <2>5. CASE TickError(q)
    <3>1. /\ runner' = [runner EXCEPT ![q] = TickOver(@, runner[q].phase, 1)]
          /\ now' = now
      BY <2>5 DEF TickError, TypeOK
    <3> QED BY <2>3, <3>1
  <2>6. CASE Crash(q) BY <2>3, <2>6 DEF Crash
  <2> QED BY <1>4, <2>1, <2>2, <2>4, <2>5, <2>6 DEF RunnerNext
<1> QED BY <1>0, <1>1, <1>2, <1>3, <1>4 DEF Next

\* A runner's step fills a free slot with a fresh execution, empties a slot or
\* leaves it alone.
LEMMA RunnerSlots ==
  ASSUME TypeOK, NEW q \in Runners, RunnerNext(q), NEW w \in Workers
  PROVE  \/ exec'[w] = exec[w]
         \/ exec'[w].pc # "handle"
         \/ /\ exec'[w].hb = "timer" /\ exec'[w].renews = 0
            /\ exec[w].pc = "free"
<1>1. CASE \A v \in Workers : exec'[v] \in {exec[v], FreeSlot}
  BY <1>1, FreeSlotType
<1>2. CASE TickEnd(q)
  <2>a. PICK C \in SUBSET Jobs : \E slot \in [C -> FreeSlots(q)] :
           exec' = [v \in Workers |->
                      IF \E j \in C : slot[j] = v
                        THEN Dispatch(q, CHOOSE j \in C : slot[j] = v, NewToken)
                        ELSE exec[v]]
    BY <1>2, Zenon DEF TickEnd
  <2>1. PICK slot \in [C -> FreeSlots(q)] :
           exec' = [v \in Workers |->
                      IF \E j \in C : slot[j] = v
                        THEN Dispatch(q, CHOOSE j \in C : slot[j] = v, NewToken)
                        ELSE exec[v]]
    BY <2>a
  <2>2. CASE \A j \in C : slot[j] # w BY <2>1, <2>2
  <2>3. ASSUME NEW j \in C, slot[j] = w PROVE exec[w].pc = "free"
    BY <2>3 DEF FreeSlots
  <2>4. ASSUME NEW j
        PROVE  \/ Dispatch(q, j, NewToken).pc # "handle"
               \/ /\ Dispatch(q, j, NewToken).hb = "timer"
                  /\ Dispatch(q, j, NewToken).renews = 0
    BY DEF Dispatch, FreeSlot
  <2> QED BY <2>1, <2>2, <2>3, <2>4
<1>3. TickBegin(q) \/ TickError(q) \/ Stop(q) \/ StopResolved(q) \/ Crash(q) \/ Start(q)
        => \A v \in Workers : exec'[v] \in {exec[v], FreeSlot}
  BY DEF TickBegin, TickError, Stop, StopResolved, Crash, Start
<1> QED BY <1>1, <1>2, <1>3 DEF RunnerNext

\* A lease once lost stays lost: the tokens of later claims are fresh.
LEMMA LeaseNotRegained ==
  ASSUME IInv, [Next]_qvars, NEW w \in Workers, exec[w].pc # "free",
         exec'[w].job = exec[w].job, exec'[w].token = exec[w].token, Holds(w)'
  PROVE  Holds(w)
<1> DEFINE j == exec[w].job
<1>0. /\ TypeOK /\ BusySlots /\ TokensMinted BY DEF IInv, HolderInv
<1>1. j \in Jobs /\ exec[w].token \in 1 .. nTokens /\ nTokens \in Nat
  BY <1>0 DEF BusySlots, TypeOK
<1>2. rows'[j].state = "running" /\ rows'[j].lease_token = exec[w].token BY DEF Holds
<1>3. CASE rows'[j] = rows[j] BY <1>2, <1>3 DEF Holds
<1>4. ASSUME NEW c \in Callers, CallerNext(c) PROVE rows'[j] = rows[j]
  BY <1>0, <1>1, <1>2, <1>4, CallerSteps
<1>5. ASSUME NEW v \in Workers, WorkerNext(v) PROVE Holds(w)
  <2>1. Kept(j) \/ SettledBy(v, j) BY <1>0, <1>1, <1>5, WorkerSteps DEF BusySlots
  <2>2. ~SettledBy(v, j) BY <1>1, <1>2 DEF SettledBy, NoToken
  <2> QED BY <1>2, <2>1, <2>2 DEF Kept, Holds
<1>6. ASSUME NEW q \in Runners, RunnerNext(q) PROVE rows'[j] = rows[j]
  <2>1. ASSUME NEW E \in SUBSET Due(runner[q].now), NEW C \in SUBSET Jobs,
               ClaimDueJobs(q, E, C)
        PROVE  rows'[j] = rows[j]
    <3>1. /\ \A i \in C : ClaimedRow(i)
          /\ \A i \in E \ C : ExpiredRow(i)
          /\ \A i \in Jobs \ E : rows'[i] = rows[i]
      BY <1>0, <2>1, ClaimSteps
    <3>2. ~ClaimedRow(j) BY <1>1, <1>2 DEF ClaimedRow
    <3>3. ~ExpiredRow(j) BY <1>2 DEF ExpiredRow
    <3> QED BY <1>1, <3>1, <3>2, <3>3
  <2> QED BY <1>0, <1>6, <2>1, RunnerSteps
<1>7. Tick \/ UNCHANGED qvars => rows' = rows BY DEF Tick, qvars
<1> QED BY <1>3, <1>4, <1>5, <1>6, <1>7 DEF Next

\* An execution's own heartbeat: it reads the clock when it is due, and the
\* renewal it sends extends the lease from that reading.
LEMMA OwnHeartbeat ==
  ASSUME IInv, NEW w \in Workers, LeaseAged(w), WorkerNext(w),
         runner'[RunnerOf[w]].faults = 0 => runner[RunnerOf[w]].faults = 0,
         Holds(w)' => Holds(w)
  PROVE  LeaseAged(w)'
<1> USE QueueAssumption
<1>0. /\ exec[w] \in Exec /\ RunnerOf[w] \in Runners /\ Clock(RunnerOf[w]) \in Nat
      /\ runner \in [Runners -> Runner] /\ TypeOK
      /\ exec[w].pc = "handle" => exec[w].job \in Jobs
  BY ClockType DEF IInv, HolderInv, BusySlots, TypeOK
<1>1. CASE HeartbeatFires(w)
  <2>1. exec'[w] = [exec[w] EXCEPT !.hb = "renewing", !.now = Clock(RunnerOf[w]),
                                   !.due = Clock(RunnerOf[w]) + RenewMs,
                                   !.renews = @ + 1]
    BY <1>1 DEF HeartbeatFires, IInv, TypeOK
  <2>2. /\ exec'[w].hb = "renewing" /\ exec'[w].now = Clock(RunnerOf[w])
        /\ exec'[w].due = Clock(RunnerOf[w]) + RenewMs
    BY <1>0, <2>1 DEF Exec
  <2> QED BY <1>0, <2>2 DEF LeaseAged
<1>2. CASE Renewed(w)
  <2>1. CASE Holds(w) /\ RenewRow(w) /\ exec' = [exec EXCEPT ![w].hb = "timer", ![w].now = 0]
    <3>1. /\ exec'[w].hb = "timer" /\ exec'[w].pc = exec[w].pc
          /\ exec'[w].due = exec[w].due /\ exec'[w].job = exec[w].job
      BY <1>0, <2>1 DEF Exec, TypeOK
    <3>2. runner' = runner /\ exec[w].hb = "renewing" BY <1>2 DEF Renewed
    <3>3. ASSUME exec[w].pc = "handle"
          PROVE  rows'[exec[w].job].lease_until = exec[w].now + LeaseMs
      BY <1>0, <2>1, <3>3 DEF RenewRow, TypeOK, Row
    <3>4. ASSUME exec[w].pc = "handle", runner[RunnerOf[w]].faults = 0
          PROVE  exec[w].now + LeaseMs + RenewMs >= exec[w].due + LeaseMs
      <4>1. exec[w].now + RenewMs >= exec[w].due BY <2>1, <3>2, <3>4 DEF LeaseAged
      <4>2. exec[w].now \in Nat /\ exec[w].due \in Nat BY <1>0 DEF Exec
      <4> QED BY <4>1, <4>2
    <3> QED BY <3>1, <3>2, <3>3, <3>4 DEF LeaseAged
  <2>2. CASE ~Holds(w) BY <2>2 DEF LeaseAged
  <2> QED BY <1>2, <2>1, <2>2 DEF Renewed
<1>3. CASE RenewError(w)
  <2>1. /\ exec'[w].hb = "timer"
        /\ runner' = [runner EXCEPT ![RunnerOf[w]].faults = @ + 1]
    BY <1>0, <1>3 DEF RenewError, TypeOK, Exec
  <2>2. runner[RunnerOf[w]].faults \in Nat BY <1>0 DEF Runner
  <2>3. runner'[RunnerOf[w]].faults # 0 BY <1>0, <2>1, <2>2 DEF Runner
  <2> QED BY <2>1, <2>3 DEF LeaseAged
<1>4. CASE \/ \E result \in Results : HandlerEnds(w, result)
           \/ HeartbeatStopped(w) \/ CompleteError(w)
           \/ Completed(w) \/ Failed(w) \/ FailError(w)
  <2>1. exec'[w].pc # "handle"
    BY <1>0, <1>4, FreeSlotType DEF HandlerEnds, HeartbeatStopped, CompleteError,
       Completed, Failed, FailError, Free, TypeOK, Exec
  <2> QED BY <2>1 DEF LeaseAged
<1> QED BY <1>1, <1>2, <1>3, <1>4 DEF WorkerNext

LEMMA LeasesStep == IInv /\ LeasesAged /\ [Next]_qvars => LeasesAged'
<1> SUFFICES ASSUME IInv, LeasesAged, [Next]_qvars PROVE LeasesAged' OBVIOUS
<1>0. TypeOK /\ HolderInv /\ RunnerOf \in [Workers -> Runners]
  BY QueueAssumption DEF IInv
<1>1. ASSUME NEW r \in Runners PROVE ClaimSent(r)'
  <2>1. Clock(r) \in Nat /\ Skew[r] \in Nat /\ now \in Nat
    BY <1>0, ClockType, QueueAssumption DEF TypeOK
  <2>2. Clock(r)' >= Clock(r) /\ Clock(r)' \in Nat
    BY <1>0, <2>1, RunnerKeeps DEF Clock
  <2>3. runner[r].now \in Nat BY <1>0 DEF TypeOK, Runner
  <2>4. ClaimSent(r) BY DEF LeasesAged
  <2> HIDE DEF Clock
  <2> QED BY <1>0, <2>1, <2>2, <2>3, <2>4, RunnerKeeps DEF ClaimSent
<1>2. ASSUME NEW w \in Workers PROVE LeaseAged(w)'
  <2> DEFINE r == RunnerOf[w]
  <2>0. LeaseAged(w) /\ r \in Runners BY <1>0 DEF LeasesAged
  <2>1. runner'[r].faults = 0 => runner[r].faults = 0 BY <1>0, <2>0, RunnerKeeps
  <2>2. ASSUME exec'[w] = exec[w], exec[w].pc = "handle", Holds(w)' PROVE Holds(w)
    BY <2>2, LeaseNotRegained
  <2>3. ASSUME exec'[w] = exec[w],
               exec[w].pc = "handle" /\ Holds(w) => rows'[exec[w].job] = rows[exec[w].job]
        PROVE  LeaseAged(w)'
    BY <2>0, <2>1, <2>2, <2>3 DEF LeaseAged
  <2>4. CASE Tick \/ UNCHANGED qvars BY <2>3, <2>4 DEF Tick, qvars
  <2>5. ASSUME NEW c \in Callers, CallerNext(c) PROVE LeaseAged(w)'
    <3>1. exec' = exec BY <1>0, <2>5, CallerSteps
    <3>2. CASE rows'[exec[w].job] = rows[exec[w].job] BY <2>3, <3>1, <3>2
    <3>3. CASE exec[w].pc = "handle" /\ rows'[exec[w].job] # rows[exec[w].job]
      <4>1. exec[w].job \in Jobs BY <1>0, <3>3 DEF HolderInv, BusySlots
      <4>2. rows'[exec[w].job].state = "queued" BY <1>0, <2>5, <3>3, <4>1, CallerSteps
      <4> QED BY <3>1, <4>2 DEF LeaseAged, Holds
    <3>4. CASE exec[w].pc # "handle" BY <3>1, <3>4 DEF LeaseAged
    <3> QED BY <3>2, <3>3, <3>4
  <2>6. ASSUME NEW v \in Workers, v # w, WorkerNext(v) PROVE LeaseAged(w)'
    <3>1. exec'[w] = exec[w] BY <1>0, <2>6, WorkerSlots
    <3>2. exec[w].pc = "handle" /\ Holds(w) => rows'[exec[w].job] = rows[exec[w].job]
      BY <1>0, <2>6, OthersLeaveHeldRow
    <3> QED BY <2>3, <3>1, <3>2
  <2>7. CASE WorkerNext(w)
    <3>1. CASE exec'[w].pc # "handle" BY <3>1 DEF LeaseAged
    <3>2. CASE exec'[w].pc = "handle"
      <4>1. /\ exec[w].pc # "free"
            /\ exec'[w].job = exec[w].job /\ exec'[w].token = exec[w].token
        BY <1>0, <2>7, <3>2, WorkerSlots, FreeSlotType
      <4>2. Holds(w)' => Holds(w) BY <4>1, LeaseNotRegained
      <4> QED BY <2>0, <2>1, <2>7, <4>2, OwnHeartbeat
    <3> QED BY <3>1, <3>2
  <2>8. ASSUME NEW q \in Runners, RunnerNext(q) PROVE LeaseAged(w)'
    <3>1. CASE exec'[w].pc # "handle" BY <3>1 DEF LeaseAged
    <3>2. CASE exec'[w].hb = "timer" /\ exec'[w].renews = 0 BY <3>2 DEF LeaseAged
    <3>3. CASE exec'[w] = exec[w]
      <4>1. CASE exec[w].pc = "handle" /\ Holds(w)
        <5>1. \/ rows'[exec[w].job] = rows[exec[w].job]
              \/ rows'[exec[w].job].lease_token # exec[w].token
          BY <1>0, <2>8, <4>1, RunnerLeavesHeldRow
        <5>2. rows'[exec[w].job].lease_token # exec[w].token => ~Holds(w)'
          BY <3>3 DEF Holds
        <5> QED BY <2>3, <3>3, <5>1, <5>2 DEF LeaseAged
      <4>2. CASE ~(exec[w].pc = "handle" /\ Holds(w)) BY <2>3, <3>3, <4>2
      <4> QED BY <4>1, <4>2
    <3> QED BY <1>0, <2>8, <3>1, <3>2, <3>3, RunnerSlots
  <2> QED BY <2>4, <2>5, <2>6, <2>7, <2>8 DEF Next
<1> QED BY <1>1, <1>2 DEF LeasesAged

LEMMA InitLeases == Init => LeasesAged
BY DEF Init, LeasesAged, LeaseAged, ClaimSent, FreeSlot

\* Where a lease ends under its handler: another runner's claim found it
\* expired, although the heartbeat is not due, not in flight and never failed.
LEMMA LeaseLoss ==
  ASSUME ClocksAgree, IInv, LeasesAged, [Next]_qvars,
         NEW w \in Workers, exec[w].pc = "handle", Holds(w),
         exec'[w].pc = "handle", ~Holds(w)',
         ~(Clock(RunnerOf[w]) >= exec[w].due), exec[w].hb # "renewing",
         ~(runner[RunnerOf[w]].faults > 0)
  PROVE  exec[w].renews = 0
         /\ rows[exec[w].job].lease_until - LeaseMs < exec[w].due - RenewMs
<1> USE QueueAssumption
<1> DEFINE j == exec[w].job
           r == RunnerOf[w]
<1>0. /\ TypeOK /\ HolderInv /\ FreshRows /\ r \in Runners /\ j \in Jobs
      /\ exec[w].token \in 1 .. nTokens
  BY DEF IInv, HolderInv, BudgetInv, BusySlots
<1>1. /\ exec[w] \in Exec /\ rows[j] \in Row /\ runner[r].faults \in Nat
      /\ runner[r].faults = 0
  BY <1>0 DEF TypeOK, Runner
<1>2. ASSUME exec'[w].job = j, exec'[w].token = exec[w].token,
             rows'[j].state = "running", rows'[j].lease_token = rows[j].lease_token
      PROVE  FALSE
  BY <1>2 DEF Holds
<1>3. ASSUME NEW q \in Runners, runner[q].claiming, rows[j].lease_until <= runner[q].now
      PROVE  exec[w].renews = 0 /\ rows[j].lease_until - LeaseMs < exec[w].due - RenewMs
  <2> DEFINE until == rows[j].lease_until
             due == exec[w].due
             sq == Skew[q]
             sr == Skew[r]
  <2>1. /\ until \in Nat /\ due \in Nat /\ now \in Nat /\ sq \in Nat /\ sr \in Nat
        /\ exec[w].renews \in Nat
    BY <1>0, <1>1 DEF Row, Exec, TypeOK
  <2>2. runner[q].now \in Nat /\ runner[q].now <= now + sq
    BY <1>0, <1>3 DEF LeasesAged, ClaimSent, Clock, TypeOK, Runner
  <2>3. until <= now + sq BY <1>3, <2>1, <2>2
  <2>4. now + sr < due BY <2>1 DEF Clock
  <2>5. sq + RenewMs <= sr + LeaseMs BY <1>0 DEF ClocksAgree
  <2>6. LeaseMs \in Nat /\ RenewMs \in Nat OBVIOUS
  <2>7. exec[w].hb = "timer" BY <1>1 DEF LeasesAged, LeaseAged, Exec
  <2>8. exec[w].renews > 0 => until + RenewMs >= due + LeaseMs
    BY <1>1, <2>7 DEF LeasesAged, LeaseAged
  <2> HIDE DEF until, due, sq, sr
  <2>9. until + RenewMs < due + LeaseMs BY <2>1, <2>3, <2>4, <2>5, <2>6
  <2>10. exec[w].renews = 0 BY <2>1, <2>6, <2>8, <2>9
  <2>11. until - LeaseMs < due - RenewMs BY <2>1, <2>6, <2>9
  <2> QED BY <2>10, <2>11 DEF until, due
<1>4. CASE Tick \/ UNCHANGED qvars BY <1>2, <1>4 DEF Tick, qvars, Holds
<1>5. ASSUME NEW c \in Callers, CallerNext(c) PROVE FALSE
  <2>1. nRows + 1 # j BY <1>0 DEF FreshRows, Holds, TypeOK
  <2>2. exec' = exec /\ rows'[j] = rows[j] BY <1>0, <1>5, <2>1, CallerSteps
  <2> QED BY <1>2, <2>2 DEF Holds
<1>6. ASSUME NEW v \in Workers, v # w, WorkerNext(v) PROVE FALSE
  BY <1>0, <1>2, <1>6, OthersLeaveHeldRow DEF Holds
<1>7. ASSUME WorkerNext(w) PROVE FALSE
  <2>1. exec'[w].job = j /\ exec'[w].token = exec[w].token
    BY <1>0, <1>7, WorkerSlots, FreeSlotType
  <2>2. ~SettledBy(w, j) BY DEF SettledBy
  <2>3. Kept(j) BY <1>0, <1>7, <2>2, WorkerSteps
  <2> QED BY <1>2, <2>1, <2>3 DEF Kept, Holds
<1>8. ASSUME NEW q \in Runners, RunnerNext(q)
      PROVE  exec[w].renews = 0 /\ rows[j].lease_until - LeaseMs < exec[w].due - RenewMs
  <2>1. exec'[w] = exec[w] BY <1>0, <1>8, RunnerSlots
  <2>2. rows'[j] # rows[j] BY <1>2, <2>1 DEF Holds
  <2> QED BY <1>0, <1>3, <1>8, <2>2, RunnerLeavesHeldRow
<1> QED BY <1>4, <1>5, <1>6, <1>7, <1>8 DEF Next

(***************************************************************************)
(* The theorems.                                                           *)
(***************************************************************************)
LEMMA Invariance == Spec => []IInv
<1>1. IInv /\ [Next]_qvars => IInv'
  BY NextType, HolderStep, BudgetStep, CauseStep, KeyStep DEF IInv, HolderInv, BudgetInv
<1> QED BY <1>1, InitIInv, PTL DEF Spec

\* However leases are lost, statements fail and runners crash, no handler is
\* started more often than max_attempts allows (claimDueJobs).
THEOREM AttemptsBounded == Spec => []HandlerRunsWithinBudget
<1>1. IInv => HandlerRunsWithinBudget BY DEF IInv, BudgetInv
<1> QED BY <1>1, Invariance, PTL

\* Two executions of one job never hold the same lease token, so the guard of
\* renew, complete and fail lets at most one of them through.
THEOREM LeaseTellsExecutionsApart == Spec => []OneHolder
<1>1. IInv => OneHolder BY DEF IInv, HolderInv
<1> QED BY <1>1, Invariance, PTL

\* A job succeeds only if a handler of it returned, and is dead-lettered only
\* if one threw the terminal error or its attempts are used up.
THEOREM JobsSettleForCause == Spec => []SettledForCause
<1>1. IInv => SettledForCause BY DEF IInv, CauseInv
<1> QED BY <1>1, Invariance, PTL

\* At most one live job holds an idempotency key (migration 047).
THEOREM LiveKeysUnique == Spec => []LiveKeyUnique
<1>1. IInv => LiveKeyUnique BY DEF IInv
<1> QED BY <1>1, Invariance, PTL

\* succeeded and dead_letter are final: no late worker, claim or enqueue
\* changes a settled row.
THEOREM SettledRowsFinal == Spec => TerminalIsFinal
<1>1. IInv /\ [Next]_qvars
        => [\A j \in Jobs : rows[j].state \in Terminal => rows'[j] = rows[j]]_qvars
  <2> SUFFICES ASSUME IInv, [Next]_qvars, NEW j \in Jobs, rows[j].state \in Terminal
               PROVE  rows'[j] = rows[j]
    OBVIOUS
  <2>1. CASE \A i \in Jobs : rows[i].state \in Terminal => rows'[i] = rows[i]
    BY <2>1
  <2>2. ASSUME NEW i \in Jobs, rows[i].state = "absent",
               \A k \in Jobs \ {i} : rows'[k] = rows[k]
        PROVE  rows'[j] = rows[j]
    BY <2>2 DEF Terminal
  <2> QED BY <2>1, <2>2, RowSteps DEF IInv, HolderInv, BudgetInv
<1> QED BY <1>1, Invariance, PTL DEF Spec, TerminalIsFinal

\* enqueue answers with a job of the requested key and semantics that had not
\* ended when the call began, and gives up only when a job took the key since.
THEOREM EnqueueAnswersAreLive == Spec => []EnqueueAnswersLiveJob
<1>1. CallsOK => EnqueueAnswersLiveJob BY DEF CallsOK, CallOK, EnqueueAnswersLiveJob
<1> QED BY <1>1, Invariance, InitCalls, CallsStep, PTL DEF Spec

\* A stop() that resolved leaves no row leased by its runner, if none of the
\* runner's statements failed and it never crashed.
THEOREM StopLeavesNoLease == Spec => []StopStrandsNothing
<1>1. IInv /\ StopsOK => StopStrandsNothing
  <2> SUFFICES ASSUME StopsOK, NEW r \in Runners,
                      runner[r].phase = "stopped", runner[r].faults = 0,
                      NEW j \in Jobs, rows[j].state = "running",
                      rows[j].lease_token \in hist.minted[r]
               PROVE  FALSE
    BY DEF StopStrandsNothing
  <2>1. StopOK(r) BY DEF StopsOK
  <2> QED BY <2>1 DEF StopOK, LeasesHeld
<1> QED BY <1>1, Invariance, InitStops, StopsStep, PTL DEF Spec
\* The heartbeat holds the lease of a running handler: if the runners' clocks
\* differ by at most what a lease outlives its heartbeat, another claim takes
\* it only once a renewal is due or in flight, after a statement of the
\* handler's runner failed, or when the claim was answered late.
THEOREM HeartbeatHoldsLease == ClocksAgree => (Spec => LeaseLostForCause)
<1> SUFFICES ASSUME ClocksAgree PROVE Spec => LeaseLostForCause OBVIOUS
<1>1. IInv /\ LeasesAged /\ [Next]_qvars
        => [\A w \in Workers :
              (/\ exec[w].pc = "handle" /\ Holds(w)
               /\ exec'[w].pc = "handle" /\ ~Holds(w)') =>
                 \/ Clock(RunnerOf[w]) >= exec[w].due
                 \/ exec[w].hb = "renewing"
                 \/ runner[RunnerOf[w]].faults > 0
                 \/ /\ exec[w].renews = 0
                    /\ rows[exec[w].job].lease_until - LeaseMs
                         < exec[w].due - RenewMs]_qvars
  BY LeaseLoss
<1> QED BY <1>1, Invariance, InitLeases, LeasesStep, PTL DEF Spec, LeaseLostForCause
=============================================================================
