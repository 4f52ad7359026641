------------------------------- MODULE Spool -------------------------------
(***************************************************************************)
(* The JSONL spool of the TypeScript client and the runtimes that share    *)
(* it: a write that failed is parked in the spool file, and after a write  *)
(* that succeeded the spool is drained.                                    *)
(*                                                                         *)
(* The lock covers the append, the snapshot and the commit of a drain; the *)
(* dispatches in between run without it, next to other processes.  A file  *)
(* is replaced atomically, so an append or a snapshot is one step and a    *)
(* commit is one step per file.  How the lock itself works is in           *)
(* SpoolLock.                                                              *)
(*                                                                         *)
(* A definition D_Slip is D with one plausible slip in the code; no action *)
(* uses it.  It serves to see that a property notices the slip.            *)
(***************************************************************************)
EXTENDS Integers, FiniteSets

CONSTANTS
    Procs,          \* processes, each with one runtime over the same spool
    SteadyProcs,    \* those that do not crash
    Namespaces,
    NamespaceOf,    \* config.namespace of a process
    Threshold,      \* quarantineThreshold
    MaxLines,       \* maxLines
    Leftover,       \* what the spool file holds at the start
    MaxUnits,       \* bound: failed writes
    MaxFaults       \* bound: crashes and failed file writes

NoOne == "no one"
DeadOwner == "dead owner"

ASSUME SpoolAssumption ==
    /\ SteadyProcs \subseteq Procs
    /\ NoOne \notin Procs /\ DeadOwner \notin Procs
    /\ NamespaceOf \in [Procs -> Namespaces]
    /\ Threshold \in Nat \ {0}
    /\ MaxLines \in Nat \ {0}
    /\ Leftover \in {{}} \cup {{[id |-> 0, size |-> n, namespace |-> s]} :
                                 n \in {1, 2}, s \in Namespaces}
    /\ MaxUnits \in Nat
    /\ MaxFaults \in Nat

VARIABLES
    spool,      \* the units of the spool file
    ahead,      \* file order: the units that were in the file when one was appended
    sidecar,    \* the quarantined units
    retry,      \* consecutive failures of each unit in the retry state
    lock,       \* the process that holds the lock file, NoOne or DeadOwner
    proc,       \* what each process is doing
    delivered,  \* the records the server took: <<unit, index>>
    hist        \* history: SPOOLED receipts, real failures, counters

svars == <<spool, ahead, sidecar, retry, lock, proc, delivered, hist>>

Ids == 0 .. MaxUnits   \* 0: a unit left over from an earlier process

\* A unit replays as a whole: a write, or the session_start its lane still
\* needs (record 1) and then the write (record 2).
Unit == [id: Ids, size: {1, 2}, namespace: Namespaces]

\* The phases of a commit.
Commits == {"sidecar", "reconcile", "rewrite", "counters"}

Pass == [pc: {"idle", "append", "drain", "dispatch", "commit"} \cup Commits,
         lane: BOOLEAN,             \* conversationKey is set
         writing: SUBSET Unit,      \* the write to be parked
         snapshot: SUBSET Unit, prior: [Ids -> 0 .. Threshold],
         todo: SUBSET Unit,         \* the part of the snapshot still to be dispatched
         record: {1, 2},            \* the record of the next unit that is due
         replayed: SUBSET Ids, failed: SUBSET Ids]

NoCounts == [u \in Ids |-> 0]

Idle(lane) == [pc |-> "idle", lane |-> lane, writing |-> {}, snapshot |-> {},
               prior |-> NoCounts, todo |-> {}, record |-> 1,
               replayed |-> {}, failed |-> {}]

IdsOf(units) == {x.id : x \in units}

Init ==
    /\ spool = Leftover /\ ahead = [u \in Ids |-> {}]
    /\ sidecar = {} /\ retry = NoCounts /\ lock = NoOne
    /\ proc = [p \in Procs |-> Idle(FALSE)]
    /\ delivered = {}
    /\ hist = [spooled |-> Leftover, fails |-> NoCounts, units |-> 0, faults |-> 0]

Lines ==
    Cardinality(UNION {{x} \X (1 .. x.size) : x \in spool})

Update(p, q) == proc' = [proc EXCEPT ![p] = q]

-----------------------------------------------------------------------------
(* A write: directly, and if that fails through the spool *)

\* ensureLane and the call succeed: the receipt is SAVED, and a drain follows
\* when the spool file, read without the lock, has something pending.
WriteSaved(p) ==
    /\ proc[p].pc = "idle"
    /\ Update(p, [Idle(TRUE) EXCEPT !.pc = IF spool = {} THEN "idle" ELSE "drain"])
    /\ UNCHANGED <<spool, ahead, sidecar, retry, lock, delivered, hist>>

\* session_start or the call fails, or took effect with its answer lost.
WriteFailed(p) ==
    /\ proc[p].pc = "idle"
    /\ hist.units < MaxUnits
    /\ \E lane \in {proc[p].lane, TRUE}, took \in BOOLEAN :
         LET id == hist.units + 1
             unit == [id |-> id, size |-> IF lane THEN 1 ELSE 2,
                      namespace |-> NamespaceOf[p]]
         IN  /\ Update(p, [Idle(lane) EXCEPT !.pc = "append", !.writing = {unit}])
             /\ delivered' = IF took THEN delivered \cup {<<id, 1>>} ELSE delivered
    /\ hist' = [hist EXCEPT !.units = @ + 1]
    /\ UNCHANGED <<spool, ahead, sidecar, retry, lock>>

\* The server refuses the write itself: FAILED, and nothing is parked.
WriteRefused(p) ==
    /\ proc[p].pc = "idle"
    /\ \E lane \in {proc[p].lane, TRUE} : Update(p, Idle(lane))
    /\ UNCHANGED <<spool, ahead, sidecar, retry, lock, delivered, hist>>

\* appendBatch: the receipt is SPOOLED, or LOST when the spool is full.
AppendBatch(p) ==
    /\ proc[p].pc = "append"
    /\ lock = NoOne
    /\ \E unit \in proc[p].writing :
         IF Lines + unit.size <= MaxLines
         THEN /\ spool' = spool \cup {unit}
              /\ ahead' = [ahead EXCEPT ![unit.id] = IdsOf(spool)]
              /\ hist' = [hist EXCEPT !.spooled = @ \cup {unit}]
         ELSE UNCHANGED <<spool, ahead, hist>>
    /\ Update(p, Idle(proc[p].lane))
    /\ UNCHANGED <<sidecar, retry, lock, delivered>>

Fault == hist.faults < MaxFaults
Faulted == [hist EXCEPT !.faults = @ + 1]

\* The write of the file failed and was undone: the receipt is LOST.
AppendFailed(p) ==
    /\ proc[p].pc = "append" /\ lock = NoOne
    /\ Fault /\ hist' = Faulted
    /\ Update(p, Idle(proc[p].lane))
    /\ UNCHANGED <<spool, ahead, sidecar, retry, lock, delivered>>

\* "timed out acquiring spool lock": the receipt is LOST, a drain ends, and
\* a commit does not take place.
LockTimeout(p) ==
    /\ proc[p].pc \in {"append", "drain", "commit"}
    /\ lock \in Procs
    /\ Update(p, Idle(proc[p].lane))
    /\ UNCHANGED <<spool, ahead, sidecar, retry, lock, delivered, hist>>

-----------------------------------------------------------------------------
(* A drain: snapshot, dispatch, commit *)

Snapshot(p) ==
    /\ proc[p].pc = "drain"
    /\ lock = NoOne
    /\ Update(p, [proc[p] EXCEPT !.pc = "dispatch",
                                 !.snapshot = spool, !.todo = spool, !.prior = retry])
    /\ UNCHANGED <<spool, ahead, sidecar, retry, lock, delivered, hist>>

\* The first unit of the snapshot, in file order, that is still to be
\* dispatched.
Dispatching(p, x) ==
    /\ proc[p].pc = "dispatch"
    /\ x \in proc[p].todo
    /\ \A y \in proc[p].todo : y.id \notin ahead[x.id]

NextUnit(q, x) == [q EXCEPT !.todo = @ \ {x}, !.record = 1]

\* A unit of another namespace ends the pass.
DispatchRetained_Slip(p, x) ==
    /\ Dispatching(p, x)
    /\ x.namespace # NamespaceOf[p]
    /\ Update(p, [proc[p] EXCEPT !.todo = {}])
    /\ UNCHANGED <<spool, ahead, sidecar, retry, lock, delivered, hist>>

\* unparkPayload: a unit of another namespace is retained.
DispatchRetained(p, x) ==
    /\ Dispatching(p, x)
    /\ x.namespace # NamespaceOf[p]
    /\ Update(p, NextUnit(proc[p], x))
    /\ UNCHANGED <<spool, ahead, sidecar, retry, lock, delivered, hist>>

DispatchOk(p, x) ==
    /\ Dispatching(p, x)
    /\ x.namespace = NamespaceOf[p]
    /\ delivered' = delivered \cup {<<x.id, proc[p].record>>}
    /\ Update(p, IF proc[p].record < x.size
                 THEN [proc[p] EXCEPT !.record = 2]
                 ELSE [NextUnit(proc[p], x) EXCEPT !.replayed = @ \cup {x.id}])
    /\ UNCHANGED <<spool, ahead, sidecar, retry, lock, hist>>

\* Real failures are counted up to the threshold.
Raised(n) == IF n < Threshold THEN n + 1 ELSE n
Failed(id) == [hist EXCEPT !.fails[id] = Raised(@)]

\* The server may have taken the record although the call failed.
MayTake(x, record) ==
    \E took \in BOOLEAN :
        delivered' = IF took THEN delivered \cup {<<x.id, record>>} ELSE delivered

\* The unit goes on with its next record although this one failed.
DispatchFailed_Slip(p, x) ==
    /\ Dispatching(p, x)
    /\ x.namespace = NamespaceOf[p]
    /\ MayTake(x, proc[p].record)
    /\ hist' = Failed(x.id)
    /\ Update(p, IF proc[p].record < x.size
                 THEN [proc[p] EXCEPT !.record = 2, !.failed = @ \cup {x.id}]
                 ELSE [NextUnit(proc[p], x) EXCEPT !.failed = @ \cup {x.id}])
    /\ UNCHANGED <<spool, ahead, sidecar, retry, lock>>

\* A record fails, or its answer is lost: the rest of the unit is skipped.
DispatchFailed(p, x) ==
    /\ Dispatching(p, x)
    /\ x.namespace = NamespaceOf[p]
    /\ MayTake(x, proc[p].record)
    /\ hist' = Failed(x.id)
    /\ Update(p, [NextUnit(proc[p], x) EXCEPT !.failed = @ \cup {x.id}])
    /\ UNCHANGED <<spool, ahead, sidecar, retry, lock>>

Dispatch(p) ==
    \E x \in proc[p].todo :
        DispatchRetained(p, x) \/ DispatchOk(p, x) \/ DispatchFailed(p, x)

\* A pass in which every unit was retained has nothing to commit.
PassEnds(p) ==
    /\ proc[p].pc = "dispatch" /\ proc[p].todo = {}
    /\ IF proc[p].replayed \cup proc[p].failed = {}
       THEN Update(p, Idle(proc[p].lane))
       ELSE Update(p, [proc[p] EXCEPT !.pc = "commit"])
    /\ UNCHANGED <<spool, ahead, sidecar, retry, lock, delivered, hist>>

-----------------------------------------------------------------------------
(* commitReplayPass *)

\* recordUnitFailure: this pass's count of a failed unit, and whether it
\* crosses the threshold.
Count_Slip(q, u) == q.prior[u] + 2
Count(q, u) == q.prior[u] + 1
Quarantines(q) == {u \in q.failed : Count(q, u) >= Threshold}

CommitBegins(p) ==
    /\ proc[p].pc = "commit"
    /\ lock = NoOne
    /\ lock' = p
    /\ Update(p, [proc[p] EXCEPT !.pc = "sidecar"])
    /\ UNCHANGED <<spool, ahead, sidecar, retry, delivered, hist>>

Committing(p, pc, next) ==
    /\ proc[p].pc = pc /\ lock = p
    /\ Update(p, [proc[p] EXCEPT !.pc = next])

\* appendQuarantinedUnits: of the units still in the file; an entry of the
\* same unit is replaced.
CommitSidecar(p) ==
    /\ Committing(p, "sidecar", "reconcile")
    /\ sidecar' = sidecar \cup
                  {x \in spool : x.id \in Quarantines(proc[p])}
    /\ UNCHANGED <<spool, ahead, retry, lock, delivered, hist>>

\* removeQuarantinedEntries
CommitReconcile(p) ==
    /\ Committing(p, "reconcile", "rewrite")
    /\ sidecar' = {x \in sidecar : x.id \notin proc[p].replayed}
    /\ UNCHANGED <<spool, ahead, retry, lock, delivered, hist>>

\* The failed units go with the replayed ones.
Remaining_Slip(q) == {x \in spool : x.id \notin q.replayed \cup q.failed}

\* partitionLiveUnits on the file as it is now.
Remaining(q) == {x \in spool : x.id \notin q.replayed \cup Quarantines(q)}

\* The file is rewritten from the snapshot.
CommitSpool_Slip(p) ==
    /\ Committing(p, "rewrite", "counters")
    /\ LET q == proc[p]
       IN  spool' = {x \in q.snapshot : x.id \notin q.replayed \cup Quarantines(q)}
    /\ UNCHANGED <<ahead, sidecar, retry, lock, delivered, hist>>

CommitSpool(p) ==
    /\ Committing(p, "rewrite", "counters")
    /\ spool' = Remaining(proc[p])
    /\ UNCHANGED <<ahead, sidecar, retry, lock, delivered, hist>>

\* mergeRetryUnits: the count on disk wins over a lower one of this pass.
Merged(q, u) ==
    LET before == IF retry[u] # 0 THEN retry[u] ELSE q.prior[u]
    IN  IF u \notin IdsOf(spool) THEN 0
        ELSE IF u \in q.failed /\ Count(q, u) >= before THEN Count(q, u)
        ELSE before

CommitRetry(p) ==
    /\ proc[p].pc = "counters" /\ lock = p
    /\ retry' = [u \in Ids |-> Merged(proc[p], u)]
    /\ lock' = NoOne
    /\ Update(p, Idle(proc[p].lane))
    /\ UNCHANGED <<spool, ahead, sidecar, delivered, hist>>

\* A file could not be replaced: the commit ends there.
CommitFailed(p) ==
    /\ proc[p].pc \in Commits
    /\ lock = p
    /\ Fault /\ hist' = Faulted
    /\ lock' = NoOne
    /\ Update(p, Idle(proc[p].lane))
    /\ UNCHANGED <<spool, ahead, sidecar, retry, delivered>>

-----------------------------------------------------------------------------

\* A process dies and is started again; the lock file it held stays.
Crash(p) ==
    /\ p \notin SteadyProcs
    /\ proc[p] # Idle(FALSE)
    /\ Fault /\ hist' = Faulted
    /\ Update(p, Idle(FALSE))
    /\ \/ lock # p /\ lock' = lock
       \/ lock = p /\ lock' = DeadOwner
       \/ /\ proc[p].pc \in {"append", "drain"} /\ lock = NoOne
          /\ lock' = DeadOwner
    /\ UNCHANGED <<spool, ahead, sidecar, retry, delivered>>

\* recoverDeadOrStaleLock, by a process that waits for the lock.
RecoverLock(p) ==
    /\ proc[p].pc \in {"append", "drain", "commit"}
    /\ lock = DeadOwner
    /\ lock' = NoOne
    /\ UNCHANGED <<spool, ahead, sidecar, retry, proc, delivered, hist>>

Step(p) ==
    \/ AppendBatch(p) \/ Snapshot(p)
    \/ Dispatch(p) \/ PassEnds(p)
    \/ CommitBegins(p) \/ CommitSidecar(p) \/ CommitReconcile(p)
    \/ CommitSpool(p) \/ CommitRetry(p)
    \/ RecoverLock(p)

Next ==
    \E p \in Procs :
        \/ WriteSaved(p) \/ WriteFailed(p) \/ WriteRefused(p)
        \/ AppendBatch(p) \/ AppendFailed(p) \/ LockTimeout(p)
        \/ Snapshot(p) \/ Dispatch(p) \/ PassEnds(p)
        \/ CommitBegins(p) \/ CommitSidecar(p) \/ CommitReconcile(p)
        \/ CommitSpool(p) \/ CommitRetry(p) \/ CommitFailed(p)
        \/ Crash(p) \/ RecoverLock(p)

Spec == Init /\ [][Next]_svars

\* A steady process goes on with what it began and keeps writing with
\* success; whoever holds the lock finishes its local file writes, and a
\* commit that finds the lock free again and again does take it.
Fairness ==
    /\ \A p \in Procs : WF_svars(Step(p))
    /\ \A p \in SteadyProcs : SF_svars(WriteSaved(p)) /\ SF_svars(Snapshot(p))
                              /\ SF_svars(CommitBegins(p))

FairSpec == Spec /\ Fairness

-----------------------------------------------------------------------------
(* Properties *)

\* The files, the lock, the processes and the history keep their types; only
\* a process that writes the files of a commit holds the lock.
TypeOK ==
    /\ spool \subseteq Unit /\ sidecar \subseteq Unit
    /\ ahead \in [Ids -> SUBSET Ids]
    /\ retry \in [Ids -> 0 .. Threshold]
    /\ lock \in Procs \cup {NoOne, DeadOwner}
    /\ proc \in [Procs -> Pass]
    /\ \A p \in Procs : lock = p <=> proc[p].pc \in Commits
    /\ delivered \subseteq Ids \X {1, 2}
    /\ hist \in [spooled: SUBSET Unit, fails: [Ids -> 0 .. Threshold],
                 units: 0 .. MaxUnits, faults: 0 .. MaxFaults]

Held == spool \cup sidecar

Written(x) == \A i \in 1 .. x.size : <<x.id, i>> \in delivered

\* At-least-once: a write answered SPOOLED is in the spool or the quarantine
\* file until it has been delivered, through concurrent drains, appends
\* between a snapshot and its commit, crashes and failing file writes.
SpooledIsSafe == \A x \in hist.spooled : x \in Held \/ Written(x)

\* The spool implements the abstract delivery: a unit that is let go was
\* delivered and is never held again, whatever stale pass commits later.
Delivery == INSTANCE DurableDelivery WITH
    Units <- Unit, Size <- [x \in Unit |-> x.size],
    queue <- spool,
    parked <- sidecar \ spool,
    done <- hist.spooled \ Held,
    delivered <- {r \in Unit \X {1, 2} : <<r[1].id, r[2]>> \in delivered}

DeliversAtLeastOnce == Delivery!Spec

\* A unit reaches the quarantine file only after quarantineThreshold failed
\* dispatches of its own namespace, and its retry count never runs ahead of
\* what really failed.
QuarantineForCause ==
    /\ \A x \in sidecar : hist.fails[x.id] >= Threshold
    /\ \A u \in Ids : retry[u] <= hist.fails[u]

\* The server takes a write only after the session_start of its unit.
PairInOrder == \A r \in delivered : r[2] = 2 => <<r[1], 1>> \in delivered

\* A pass that worked on an old snapshot does not take a unit's retry count
\* back while the unit stays in the spool.
RetryNeverRegresses ==
    [][\A u \in IdsOf(spool) \cap IdsOf(spool') : retry'[u] >= retry[u]]_svars

\* Under FairSpec every unit of a steady process's namespace is in the end
\* delivered or quarantined, out of the spool.
EveryUnitSettles ==
    \A p \in SteadyProcs, u \in Ids :
        (u \in IdsOf({x \in spool : x.namespace = NamespaceOf[p]}))
            ~> (u \notin IdsOf(spool))
=============================================================================
