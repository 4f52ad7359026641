---------------------------- MODULE SpoolProofs ----------------------------
(***************************************************************************)
(* Proofs about Spool: at-least-once delivery, the refinement of           *)
(* DurableDelivery, the order of a unit's records, and the retry counts,   *)
(* for any number of processes, writes, crashes and failed file writes;    *)
(* and about SpoolLock, the lock file that Spool takes in one step, for    *)
(* any processes, however many end and however often a lock gets old.      *)
(***************************************************************************)
EXTENDS Spool, SpoolLock, TLAPS

\* Ids identify the units, and a write still to be parked is a new one.
Identity ==
    /\ spool \subseteq hist.spooled /\ sidecar \subseteq hist.spooled
    /\ \A x, y \in hist.spooled : x.id = y.id => x = y
    /\ \A x \in hist.spooled : x.id <= hist.units
    /\ \A p \in Procs :
         /\ proc[p].snapshot \subseteq hist.spooled
         /\ proc[p].todo \subseteq proc[p].snapshot
         /\ \A u \in proc[p].replayed \cup proc[p].failed :
                \E x \in proc[p].snapshot : x.id = u
         /\ \A x \in proc[p].writing :
              /\ x.id <= hist.units
              /\ \A y \in hist.spooled : y.id # x.id
              /\ \A q \in Procs \ {p} : \A y \in proc[q].writing : y.id # x.id

\* Of any two units one was in the file when the other was appended.
Ordered(units, before) ==
    \A x, y \in units : x = y \/ x.id \in before[y.id] \/ y.id \in before[x.id]

FileOrder == Ordered(spool, ahead) /\ \A p \in Procs : Ordered(proc[p].snapshot, ahead)

\* When record 2 is due, record 1 of the unit that is due was taken.
PairDue ==
    \A p \in Procs : proc[p].record = 2 =>
        \A x \in proc[p].todo :
            (\A y \in proc[p].todo : y.id \notin ahead[x.id]) => <<x.id, 1>> \in delivered

\* A pass with nothing dispatched; a drain begins with one.
Blank(q) ==
    /\ q.snapshot = {} /\ q.todo = {} /\ q.record = 1 /\ q.prior = NoCounts
    /\ q.replayed = {} /\ q.failed = {}

DrainBegins == \A p \in Procs : proc[p].pc = "drain" => Blank(proc[p])

\* What a pass counts as replayed was delivered.
ReplayedWritten ==
    \A p \in Procs : \A x \in hist.spooled : x.id \in proc[p].replayed => Written(x)

\* Before the spool file is rewritten the quarantined units are in the sidecar.
Marked ==
    \A p \in Procs : proc[p].pc \in {"reconcile", "rewrite"} =>
        \A x \in spool : x.id \in Quarantines(proc[p]) => x \in sidecar \/ Written(x)

\* Before the retry state is rewritten they are out of the spool file.
Purged ==
    \A p \in Procs : proc[p].pc = "counters" =>
        \A x \in spool : x.id \notin Quarantines(proc[p])

\* A pass counts from what was on disk, and one more for each unit that failed.
CountsReal ==
    \A p \in Procs, u \in Ids :
        /\ proc[p].prior[u] <= hist.fails[u]
        /\ u \in proc[p].failed => \/ proc[p].prior[u] + 1 <= hist.fails[u]
                                   \/ hist.fails[u] >= Threshold

SpoolInv ==
    /\ TypeOK /\ Identity /\ DrainBegins /\ FileOrder /\ PairDue /\ PairInOrder
    /\ ReplayedWritten /\ Marked /\ Purged /\ SpooledIsSafe
    /\ CountsReal /\ QuarantineForCause

-----------------------------------------------------------------------------
(* Types *)

LEMMA IdleType == \A lane \in BOOLEAN : Idle(lane) \in Pass
BY SpoolAssumption DEF Idle, Pass, NoCounts, Commits

\* An update changes the pass of one process.
LEMMA Updated ==
    ASSUME proc \in [Procs -> Pass], NEW p \in Procs
    PROVE  \A q \in Pass : Update(p, q) =>
             /\ proc' \in [Procs -> Pass]
             /\ proc'[p] = q
             /\ \A r \in Procs \ {p} : proc'[r] = proc[r]
BY DEF Update

LEMMA TypeInit == Init => TypeOK
<1> SUFFICES ASSUME Init PROVE TypeOK
  OBVIOUS
<1>1. Leftover \subseteq Unit
  BY SpoolAssumption DEF Unit, Ids
<1>2. NoCounts \in [Ids -> 0 .. Threshold]
  BY SpoolAssumption DEF NoCounts
<1>3. proc \in [Procs -> Pass]
  BY IdleType DEF Init
<1>4. \A p \in Procs : lock = p <=> proc[p].pc \in Commits
  BY SpoolAssumption DEF Init, Idle, Commits
<1>5. hist \in [spooled: SUBSET Unit, fails: [Ids -> 0 .. Threshold],
                units: 0 .. MaxUnits, faults: 0 .. MaxFaults]
  BY <1>1, <1>2, SpoolAssumption DEF Init
<1> QED
  BY <1>1, <1>2, <1>3, <1>4, <1>5 DEF Init, TypeOK

LEMMA WriteTypes ==
    ASSUME TypeOK, NEW p \in Procs, WriteSaved(p) \/ WriteFailed(p) \/ WriteRefused(p)
    PROVE  TypeOK'
<1> USE DEF TypeOK
<1>1. proc[p].lane \in BOOLEAN
  BY DEF Pass
<1>2. CASE WriteSaved(p)
  <2> DEFINE q == [Idle(TRUE) EXCEPT !.pc = IF spool = {} THEN "idle" ELSE "drain"]
  <2>1. q \in Pass /\ q.pc \notin Commits
    BY IdleType DEF Pass, Commits, Idle
  <2> HIDE DEF q
  <2>2. Update(p, q)
    BY <1>2 DEF WriteSaved, q
  <2>3. proc[p].pc \notin Commits
    BY <1>2 DEF WriteSaved, Commits
  <2> QED
    BY <1>2, <2>1, <2>2, <2>3, Updated DEF WriteSaved
<1>3. CASE WriteRefused(p)
  <2>1. \A lane \in BOOLEAN : Idle(lane).pc \notin Commits
    BY DEF Idle, Commits
  <2> QED
    BY <1>1, <1>3, <2>1, IdleType, Updated DEF WriteRefused, Commits
<1>4. CASE WriteFailed(p)
  <2> PICK lane \in {proc[p].lane, TRUE}, took \in BOOLEAN :
        LET id == hist.units + 1
            unit == [id |-> id, size |-> IF lane THEN 1 ELSE 2,
                     namespace |-> NamespaceOf[p]]
        IN  /\ Update(p, [Idle(lane) EXCEPT !.pc = "append", !.writing = {unit}])
            /\ delivered' = IF took THEN delivered \cup {<<id, 1>>} ELSE delivered
    BY <1>4 DEF WriteFailed
  <2> DEFINE id == hist.units + 1
             unit == [id |-> id, size |-> IF lane THEN 1 ELSE 2,
                      namespace |-> NamespaceOf[p]]
             q == [Idle(lane) EXCEPT !.pc = "append", !.writing = {unit}]
  <2>1. id \in Ids /\ hist.units + 1 \in 0 .. MaxUnits
    BY <1>4, SpoolAssumption DEF WriteFailed, Ids
  <2>2. unit \in Unit
    BY <2>1, SpoolAssumption DEF Unit
  <2>3. q \in Pass /\ q.pc \notin Commits
    BY <1>1, <2>2, IdleType DEF Pass, Commits, Idle
  <2>4. proc' \in [Procs -> Pass] /\ proc'[p] = q /\ \A r \in Procs \ {p} : proc'[r] = proc[r]
    BY <2>3, Updated
  <2>5. delivered' \subseteq Ids \X {1, 2}
    BY <2>1
  <2> QED
    BY <1>4, <2>1, <2>3, <2>4, <2>5 DEF WriteFailed, Commits
<1> QED
  BY <1>2, <1>3, <1>4

LEMMA LockTypes ==
    ASSUME TypeOK, NEW p \in Procs,
           \/ AppendBatch(p) \/ AppendFailed(p) \/ LockTimeout(p) \/ Snapshot(p)
           \/ CommitBegins(p) \/ CommitFailed(p) \/ Crash(p) \/ RecoverLock(p)
    PROVE  TypeOK'
<1> USE DEF TypeOK
<1>0. proc[p].lane \in BOOLEAN /\ proc[p] \in Pass
  BY DEF Pass
<1>1. \A lane \in BOOLEAN : Idle(lane) \in Pass /\ Idle(lane).pc \notin Commits
  BY IdleType DEF Idle, Commits
<1>2. CASE AppendBatch(p)
  <2>1. proc[p].writing \subseteq Unit /\ proc[p].pc \notin Commits
    BY <1>0, <1>2 DEF Pass, AppendBatch, Commits
  <2>2. IdsOf(spool) \subseteq Ids
    BY DEF IdsOf, Unit
  <2>3. \A x \in Unit : x.id \in Ids
    BY DEF Unit
  <2> QED
    BY <1>0, <1>1, <1>2, <2>1, <2>2, <2>3, Updated DEF AppendBatch
<1>3. CASE AppendFailed(p) \/ LockTimeout(p)
  <2>1. proc[p].pc \notin Commits
    BY <1>3 DEF AppendFailed, LockTimeout, Commits
  <2>2. AppendFailed(p) => hist.faults + 1 \in 0 .. MaxFaults
    BY SpoolAssumption DEF AppendFailed, Fault
  <2> QED
    BY <1>0, <1>1, <1>3, <2>1, <2>2, Updated DEF AppendFailed, LockTimeout, Faulted
<1>4. CASE Snapshot(p)
  <2> DEFINE q == [proc[p] EXCEPT !.pc = "dispatch",
                                  !.snapshot = spool, !.todo = spool, !.prior = retry]
  <2>1. q \in Pass /\ q.pc \notin Commits /\ proc[p].pc \notin Commits
    BY <1>0, <1>4 DEF Pass, Commits, Snapshot
  <2> HIDE DEF q
  <2>2. Update(p, q)
    BY <1>4 DEF Snapshot, q
  <2> QED
    BY <1>4, <2>1, <2>2, Updated DEF Snapshot
<1>5. CASE CommitBegins(p)
  <2> DEFINE q == [proc[p] EXCEPT !.pc = "sidecar"]
  <2>1. q \in Pass /\ q.pc \in Commits /\ proc[p].pc \notin Commits
    BY <1>0, <1>5 DEF Pass, Commits, CommitBegins
  <2> HIDE DEF q
  <2>2. Update(p, q)
    BY <1>5 DEF CommitBegins, q
  <2> QED
    BY <1>5, <2>1, <2>2, Updated, SpoolAssumption DEF CommitBegins
<1>6. CASE CommitFailed(p)
  <2>1. hist.faults + 1 \in 0 .. MaxFaults
    BY <1>6, SpoolAssumption DEF CommitFailed, Fault
  <2> QED
    BY <1>0, <1>1, <1>6, <2>1, Updated, SpoolAssumption DEF CommitFailed, Faulted
<1>7. CASE Crash(p)
  <2>1. hist.faults + 1 \in 0 .. MaxFaults
    BY <1>7, SpoolAssumption DEF Crash, Fault
  <2>2. /\ proc' \in [Procs -> Pass] /\ proc'[p].pc \notin Commits
        /\ \A r \in Procs \ {p} : proc'[r] = proc[r]
    BY <1>1, <1>7, Updated DEF Crash
  <2>3. lock' \in Procs \cup {NoOne, DeadOwner}
    BY <1>7 DEF Crash
  <2>4. \A r \in Procs : lock' = r <=> proc'[r].pc \in Commits
    <3>1. lock' # p
      BY <1>7, SpoolAssumption DEF Crash
    <3>2. \A r \in Procs \ {p} : lock' = r <=> lock = r
      BY <1>7, SpoolAssumption DEF Crash
    <3> QED
      BY <2>2, <3>1, <3>2
  <2>5. hist' \in [spooled: SUBSET Unit, fails: [Ids -> 0 .. Threshold],
                   units: 0 .. MaxUnits, faults: 0 .. MaxFaults]
    BY <1>7, <2>1 DEF Crash, Faulted
  <2> QED
    BY <1>7, <2>2, <2>3, <2>4, <2>5 DEF Crash
<1>8. CASE RecoverLock(p)
  BY <1>8, SpoolAssumption DEF RecoverLock
<1> QED
  BY <1>2, <1>3, <1>4, <1>5, <1>6, <1>7, <1>8

\* A real failure raises the count of its unit, up to the threshold.
LEMMA FailsCounted ==
    ASSUME hist \in [spooled: SUBSET Unit, fails: [Ids -> 0 .. Threshold],
                     units: 0 .. MaxUnits, faults: 0 .. MaxFaults],
           NEW id \in Ids
    PROVE  /\ Failed(id) \in [spooled: SUBSET Unit, fails: [Ids -> 0 .. Threshold],
                              units: 0 .. MaxUnits, faults: 0 .. MaxFaults]
           /\ Failed(id).spooled = hist.spooled /\ Failed(id).units = hist.units
           /\ \A u \in Ids : Failed(id).fails[u] >= hist.fails[u]
           /\ \/ Failed(id).fails[id] = hist.fails[id] + 1
              \/ Failed(id).fails[id] = Threshold
<1> DEFINE n == Raised(hist.fails[id])
           f == [hist.fails EXCEPT ![id] = n]
<1>1. /\ n \in 0 .. Threshold /\ n >= hist.fails[id]
      /\ n = hist.fails[id] + 1 \/ n = Threshold
  BY SpoolAssumption DEF Raised
<1> HIDE DEF n
<1>2. /\ f \in [Ids -> 0 .. Threshold] /\ f[id] = n
      /\ \A u \in Ids \ {id} : f[u] = hist.fails[u]
  BY <1>1
<1>3. Failed(id) = [hist EXCEPT !.fails = f]
  BY DEF Failed, n
<1> HIDE DEF f
<1> QED
  BY <1>1, <1>2, <1>3, SpoolAssumption

LEMMA DispatchTypes ==
    ASSUME TypeOK, NEW p \in Procs, Dispatch(p) \/ PassEnds(p)
    PROVE  TypeOK'
<1> USE DEF TypeOK
<1>0. proc[p] \in Pass /\ proc[p].pc \notin Commits
  BY DEF Pass, Dispatch, DispatchRetained, DispatchOk, DispatchFailed, Dispatching,
         PassEnds, Commits
<1>1. CASE PassEnds(p)
  <2> DEFINE q == [proc[p] EXCEPT !.pc = "commit"]
  <2>1. q \in Pass /\ q.pc \notin Commits /\ Idle(proc[p].lane) \in Pass
        /\ Idle(proc[p].lane).pc \notin Commits
    BY <1>0, IdleType DEF Pass, Commits, Idle
  <2> HIDE DEF q
  <2>2. Update(p, q) \/ Update(p, Idle(proc[p].lane))
    BY <1>1 DEF PassEnds, q
  <2> QED
    BY <1>0, <1>1, <2>1, <2>2, Updated DEF PassEnds
<1>2. ASSUME NEW x \in proc[p].todo,
             DispatchRetained(p, x) \/ DispatchOk(p, x) \/ DispatchFailed(p, x)
      PROVE  TypeOK'
  <2>1. x \in Unit /\ x.id \in Ids /\ proc[p].record \in {1, 2}
    BY <1>0, <1>2 DEF Pass, Unit
  <2> DEFINE next == NextUnit(proc[p], x)
             taken == [proc[p] EXCEPT !.record = 2]
             done == [next EXCEPT !.replayed = @ \cup {x.id}]
             bad == [next EXCEPT !.failed = @ \cup {x.id}]
  <2>2. /\ next \in Pass /\ taken \in Pass /\ done \in Pass /\ bad \in Pass
        /\ next.pc \notin Commits /\ taken.pc \notin Commits
        /\ done.pc \notin Commits /\ bad.pc \notin Commits
    BY <1>0, <2>1 DEF NextUnit, Pass
  <2> HIDE DEF next, taken, done, bad
  <2>3. Update(p, next) \/ Update(p, taken) \/ Update(p, done) \/ Update(p, bad)
    BY <1>2 DEF DispatchRetained, DispatchOk, DispatchFailed, next, taken, done, bad
  <2>4. /\ proc' \in [Procs -> Pass] /\ proc'[p].pc \notin Commits
        /\ \A r \in Procs \ {p} : proc'[r] = proc[r]
    BY <2>2, <2>3, Updated
  <2>5. delivered' \subseteq Ids \X {1, 2}
    BY <1>2, <2>1 DEF DispatchRetained, DispatchOk, DispatchFailed, MayTake
  <2>6. hist' \in [spooled: SUBSET Unit, fails: [Ids -> 0 .. Threshold],
                   units: 0 .. MaxUnits, faults: 0 .. MaxFaults]
    <3>1. Failed(x.id) \in [spooled: SUBSET Unit, fails: [Ids -> 0 .. Threshold],
                            units: 0 .. MaxUnits, faults: 0 .. MaxFaults]
      BY <2>1, FailsCounted
    <3>2. hist' = hist \/ hist' = Failed(x.id)
      BY <1>2 DEF DispatchRetained, DispatchOk, DispatchFailed
    <3> QED
      BY <3>1, <3>2
  <2> QED
    BY <1>0, <1>2, <2>4, <2>5, <2>6 DEF DispatchRetained, DispatchOk, DispatchFailed
<1> QED
  BY <1>1, <1>2 DEF Dispatch

LEMMA CommitTypes ==
    ASSUME TypeOK, Purged, NEW p \in Procs,
           CommitSidecar(p) \/ CommitReconcile(p) \/ CommitSpool(p) \/ CommitRetry(p)
    PROVE  TypeOK'
<1> USE DEF TypeOK
<1>0. proc[p] \in Pass /\ proc[p].lane \in BOOLEAN
  BY DEF Pass
<1>1. CASE CommitSidecar(p) \/ CommitReconcile(p) \/ CommitSpool(p)
  <2> DEFINE q(c) == [proc[p] EXCEPT !.pc = c]
  <2>1. \A c \in Commits : q(c) \in Pass /\ q(c).pc \in Commits
    BY <1>0 DEF Pass, Commits
  <2>2. \E c \in Commits : Update(p, q(c))
    BY <1>1 DEF CommitSidecar, CommitReconcile, CommitSpool, Committing, Commits
  <2> HIDE DEF q
  <2>3. /\ proc' \in [Procs -> Pass] /\ proc'[p].pc \in Commits
        /\ \A r \in Procs \ {p} : proc'[r] = proc[r]
    BY <2>1, <2>2, Updated
  <2>4. lock = p /\ lock' = lock
    BY <1>1 DEF CommitSidecar, CommitReconcile, CommitSpool, Committing
  <2>5. spool' \subseteq spool /\ sidecar' \subseteq spool \cup sidecar
    BY <1>1 DEF CommitSidecar, CommitReconcile, CommitSpool, Remaining
  <2> QED
    BY <1>1, <2>3, <2>4, <2>5 DEF CommitSidecar, CommitReconcile, CommitSpool
<1>2. CASE CommitRetry(p)
  <2>1. \A u \in Ids : Merged(proc[p], u) \in 0 .. Threshold
    <3> SUFFICES ASSUME NEW u \in Ids PROVE Merged(proc[p], u) \in 0 .. Threshold
      OBVIOUS
    <3>1. proc[p].prior[u] \in 0 .. Threshold /\ retry[u] \in 0 .. Threshold
      BY <1>0 DEF Pass
    <3>2. CASE u \in IdsOf(spool) /\ u \in proc[p].failed
      <4>1. Count(proc[p], u) < Threshold
        BY <1>2, <3>1, <3>2, SpoolAssumption
        DEF Purged, CommitRetry, Quarantines, IdsOf, Count
      <4> QED
        BY <3>1, <4>1, SpoolAssumption DEF Merged, Count
    <3>3. CASE u \notin IdsOf(spool)
      BY <3>3, SpoolAssumption DEF Merged
    <3>4. CASE u \in IdsOf(spool) /\ u \notin proc[p].failed
      BY <3>1, <3>4, SpoolAssumption DEF Merged
    <3> QED
      BY <3>2, <3>3, <3>4
  <2>2. retry' \in [Ids -> 0 .. Threshold]
    BY <1>2, <2>1 DEF CommitRetry
  <2>3. Idle(proc[p].lane) \in Pass /\ Idle(proc[p].lane).pc \notin Commits
    BY <1>0, IdleType DEF Idle, Commits
  <2> QED
    BY <1>2, <2>2, <2>3, Updated, SpoolAssumption DEF CommitRetry
<1> QED
  BY <1>1, <1>2

LEMMA TypeStep == TypeOK /\ Purged /\ [Next]_svars => TypeOK'
<1> SUFFICES ASSUME TypeOK, Purged, [Next]_svars PROVE TypeOK'
  OBVIOUS
<1>1. CASE UNCHANGED svars
  BY <1>1 DEF svars, TypeOK
<1> QED
  BY <1>1, WriteTypes, LockTypes, DispatchTypes, CommitTypes DEF Next

-----------------------------------------------------------------------------
(* What a step leaves *)

Others(p) == \A r \in Procs \ {p} : proc'[r] = proc[r]

\* The process gave up or finished what it was doing.
Ended(p) ==
    /\ Blank(proc'[p]) /\ proc'[p].writing = {} /\ proc'[p].pc \in {"idle", "drain"}
    /\ Others(p)
    /\ UNCHANGED <<spool, ahead, sidecar, delivered>>
    /\ hist'.spooled = hist.spooled /\ hist'.units = hist.units /\ hist'.fails = hist.fails
    /\ retry' = retry \/ CommitRetry(p)

\* A write failed and is to be parked.
WroteUnit(p, unit) ==
    /\ unit \in Unit /\ unit.id = hist.units + 1
    /\ Blank(proc'[p]) /\ proc'[p].writing = {unit} /\ proc'[p].pc = "append"
    /\ Others(p)
    /\ UNCHANGED <<spool, ahead, sidecar, retry>>
    /\ delivered' \in {delivered, delivered \cup {<<unit.id, 1>>}}
    /\ hist'.spooled = hist.spooled /\ hist'.fails = hist.fails
    /\ hist'.units = hist.units + 1

\* It is parked.
Parked(p, unit) ==
    /\ unit \in proc[p].writing
    /\ lock = NoOne
    /\ Blank(proc'[p]) /\ proc'[p].writing = {} /\ proc'[p].pc = "idle"
    /\ Others(p)
    /\ spool' = spool \cup {unit}
    /\ ahead' = [ahead EXCEPT ![unit.id] = IdsOf(spool)]
    /\ UNCHANGED <<sidecar, retry, delivered>>
    /\ hist'.spooled = hist.spooled \cup {unit}
    /\ hist'.units = hist.units /\ hist'.fails = hist.fails

\* The pass goes on with other fields kept, and writes no more than pc says.
Kept(q, r) ==
    /\ q.snapshot = r.snapshot /\ q.todo = r.todo /\ q.record = r.record
    /\ q.prior = r.prior /\ q.replayed = r.replayed /\ q.failed = r.failed
    /\ q.writing = r.writing

WentOn(p) ==
    /\ Kept(proc'[p], proc[p]) /\ Others(p)
    /\ UNCHANGED <<ahead, retry, delivered, hist>>
    /\ \/ /\ proc'[p].pc \in {"commit", "sidecar"}
          /\ UNCHANGED <<spool, sidecar>>
       \/ /\ proc'[p].pc = "reconcile"
          /\ CommitSidecar(p)
       \/ /\ proc[p].pc = "reconcile" /\ proc'[p].pc = "rewrite"
          /\ CommitReconcile(p)
       \/ /\ proc[p].pc = "rewrite" /\ proc'[p].pc = "counters"
          /\ CommitSpool(p)

\* A unit was dispatched: its first record, or it is over with it.
Dispatched(p, x) ==
    /\ Dispatching(p, x) /\ Others(p)
    /\ UNCHANGED <<spool, ahead, sidecar, retry>>
    /\ hist'.spooled = hist.spooled /\ hist'.units = hist.units
    /\ proc'[p].pc = "dispatch"
    /\ proc'[p].snapshot = proc[p].snapshot /\ proc'[p].prior = proc[p].prior
    /\ proc'[p].writing = proc[p].writing
    /\ \/ /\ proc'[p].todo = proc[p].todo /\ proc'[p].record = 2
          /\ proc[p].record = 1
          /\ proc'[p].replayed = proc[p].replayed /\ proc'[p].failed = proc[p].failed
          /\ delivered' = delivered \cup {<<x.id, 1>>} /\ hist' = hist
       \/ /\ proc'[p].todo = proc[p].todo \ {x} /\ proc'[p].record = 1
          /\ \/ /\ proc'[p].replayed = proc[p].replayed /\ proc'[p].failed = proc[p].failed
                /\ delivered' = delivered /\ hist' = hist
             \/ /\ proc'[p].replayed = proc[p].replayed \cup {x.id}
                /\ proc'[p].failed = proc[p].failed
                /\ delivered' = delivered \cup {<<x.id, proc[p].record>>} /\ hist' = hist
                /\ x.size <= proc[p].record
             \/ /\ proc'[p].replayed = proc[p].replayed
                /\ proc'[p].failed = proc[p].failed \cup {x.id}
                /\ delivered' \in {delivered, delivered \cup {<<x.id, proc[p].record>>}}
                /\ hist' = Failed(x.id)

LEMMA IdleIsBlank ==
    \A lane \in BOOLEAN : /\ Idle(lane) \in Pass /\ Blank(Idle(lane))
                          /\ Idle(lane).writing = {} /\ Idle(lane).pc = "idle"
BY IdleType DEF Idle, Blank

LEMMA WriteShape ==
    ASSUME TypeOK, NEW p \in Procs, WriteSaved(p) \/ WriteFailed(p) \/ WriteRefused(p)
    PROVE  Ended(p) \/ \E unit \in Unit : WroteUnit(p, unit)
<1>0. proc \in [Procs -> Pass] /\ proc[p].lane \in BOOLEAN
  BY DEF TypeOK, Pass
<1>1. CASE WriteSaved(p)
  <2> DEFINE q == [Idle(TRUE) EXCEPT !.pc = IF spool = {} THEN "idle" ELSE "drain"]
  <2>1. q \in Pass /\ Blank(q) /\ q.writing = {} /\ q.pc \in {"idle", "drain"}
    BY IdleIsBlank DEF Pass, Blank, Commits
  <2> HIDE DEF q
  <2>2. Update(p, q)
    BY <1>1 DEF WriteSaved, q
  <2> QED
    BY <1>0, <1>1, <2>1, <2>2, Updated DEF WriteSaved, Ended, Others
<1>2. CASE WriteRefused(p)
  BY <1>0, <1>2, IdleIsBlank, Updated DEF WriteRefused, Ended, Others
<1>3. CASE WriteFailed(p)
  <2> PICK lane \in {proc[p].lane, TRUE}, took \in BOOLEAN :
        LET id == hist.units + 1
            unit == [id |-> id, size |-> IF lane THEN 1 ELSE 2,
                     namespace |-> NamespaceOf[p]]
        IN  /\ Update(p, [Idle(lane) EXCEPT !.pc = "append", !.writing = {unit}])
            /\ delivered' = IF took THEN delivered \cup {<<id, 1>>} ELSE delivered
    BY <1>3 DEF WriteFailed
  <2> DEFINE id == hist.units + 1
             unit == [id |-> id, size |-> IF lane THEN 1 ELSE 2,
                      namespace |-> NamespaceOf[p]]
             q == [Idle(lane) EXCEPT !.pc = "append", !.writing = {unit}]
  <2>1. id \in Ids /\ id = hist.units + 1
    BY <1>3, SpoolAssumption DEF WriteFailed, Ids, TypeOK
  <2>2. unit \in Unit /\ unit.id = id
    BY <2>1, SpoolAssumption DEF Unit
  <2> HIDE DEF unit
  <2>3. q \in Pass /\ Blank(q) /\ q.writing = {unit} /\ q.pc = "append"
    BY <1>0, <2>2, IdleIsBlank DEF Pass, Blank
  <2>4. Update(p, q) /\ delivered' \in {delivered, delivered \cup {<<id, 1>>}}
    BY DEF unit
  <2> HIDE DEF q, id
  <2>5. proc'[p] = q /\ Others(p)
    BY <1>0, <2>3, <2>4, Updated DEF Others
  <2>6. /\ UNCHANGED <<spool, ahead, sidecar, retry>>
        /\ hist'.spooled = hist.spooled /\ hist'.fails = hist.fails
        /\ hist'.units = hist.units + 1
    BY <1>3 DEF WriteFailed, TypeOK
  <2>7. WroteUnit(p, unit)
    BY <2>1, <2>2, <2>3, <2>4, <2>5, <2>6 DEF WroteUnit
  <2> QED
    BY <2>2, <2>7
<1> QED
  BY <1>1, <1>2, <1>3

LEMMA EndShape ==
    ASSUME TypeOK, NEW p \in Procs,
           \/ AppendBatch(p) \/ AppendFailed(p) \/ LockTimeout(p)
           \/ CommitRetry(p) \/ CommitFailed(p) \/ Crash(p)
    PROVE  Ended(p) \/ \E unit \in Unit : Parked(p, unit)
<1>0. /\ proc \in [Procs -> Pass] /\ proc[p].lane \in BOOLEAN
      /\ proc[p].writing \subseteq Unit
  BY DEF TypeOK, Pass
<1>1. CASE AppendBatch(p)
  <2>1. /\ Blank(proc'[p]) /\ proc'[p].writing = {} /\ proc'[p].pc = "idle" /\ Others(p)
    BY <1>0, <1>1, IdleIsBlank, Updated DEF AppendBatch, Others
  <2>2. PICK unit \in proc[p].writing :
          IF Lines + unit.size <= MaxLines
          THEN /\ spool' = spool \cup {unit}
               /\ ahead' = [ahead EXCEPT ![unit.id] = IdsOf(spool)]
               /\ hist' = [hist EXCEPT !.spooled = @ \cup {unit}]
          ELSE UNCHANGED <<spool, ahead, hist>>
    BY <1>1 DEF AppendBatch
  <2>3. CASE Lines + unit.size <= MaxLines
    <3>1. /\ hist'.spooled = hist.spooled \cup {unit}
          /\ hist'.units = hist.units /\ hist'.fails = hist.fails
      BY <2>2, <2>3 DEF TypeOK
    <3>2. Parked(p, unit)
      BY <1>1, <2>1, <2>2, <2>3, <3>1 DEF Parked, AppendBatch
    <3> QED
      BY <1>0, <3>2
  <2>4. CASE ~(Lines + unit.size <= MaxLines)
    BY <1>1, <2>1, <2>2, <2>4 DEF Ended, AppendBatch
  <2> QED
    BY <2>3, <2>4
<1>2. CASE AppendFailed(p) \/ LockTimeout(p) \/ CommitRetry(p) \/ CommitFailed(p) \/ Crash(p)
  <2>1. \E lane \in BOOLEAN : Update(p, Idle(lane))
    BY <1>0, <1>2 DEF AppendFailed, LockTimeout, CommitRetry, CommitFailed, Crash
  <2>2. Blank(proc'[p]) /\ proc'[p].writing = {} /\ proc'[p].pc = "idle" /\ Others(p)
    BY <1>0, <2>1, IdleIsBlank, Updated DEF Others
  <2>3. hist' = hist \/ hist' = Faulted
    BY <1>2 DEF AppendFailed, LockTimeout, CommitRetry, CommitFailed, Crash
  <2>4. hist'.spooled = hist.spooled /\ hist'.units = hist.units /\ hist'.fails = hist.fails
    BY <2>3 DEF TypeOK, Faulted
  <2>5. UNCHANGED <<spool, ahead, sidecar, delivered>> /\ (retry' = retry \/ CommitRetry(p))
    BY <1>2 DEF AppendFailed, LockTimeout, CommitRetry, CommitFailed, Crash
  <2> QED
    BY <2>2, <2>4, <2>5 DEF Ended
<1> QED
  BY <1>1, <1>2

LEMMA PassShape ==
    ASSUME TypeOK, NEW p \in Procs,
           \/ PassEnds(p) \/ CommitBegins(p)
           \/ CommitSidecar(p) \/ CommitReconcile(p) \/ CommitSpool(p)
    PROVE  Ended(p) \/ WentOn(p)
<1>0. proc \in [Procs -> Pass] /\ proc[p].lane \in BOOLEAN /\ proc[p] \in Pass
  BY DEF TypeOK, Pass
<1> DEFINE q(c) == [proc[p] EXCEPT !.pc = c]
<1>1. \A c \in {"commit"} \cup Commits : q(c) \in Pass /\ Kept(q(c), proc[p]) /\ q(c).pc = c
  BY <1>0 DEF Pass, Kept, Commits
<1> HIDE DEF q
<1>2. ASSUME NEW c \in {"commit"} \cup Commits, Update(p, q(c))
      PROVE  Kept(proc'[p], proc[p]) /\ proc'[p].pc = c /\ Others(p)
  BY <1>0, <1>1, <1>2, Updated DEF Others
<1>3. CASE PassEnds(p)
  <2>1. CASE Update(p, Idle(proc[p].lane))
    <3>1. Blank(proc'[p]) /\ proc'[p].writing = {} /\ proc'[p].pc = "idle" /\ Others(p)
      BY <1>0, <2>1, IdleIsBlank, Updated DEF Others
    <3> QED
      BY <1>3, <3>1 DEF Ended, PassEnds
  <2>2. CASE Update(p, q("commit"))
    BY <1>2, <1>3, <2>2 DEF PassEnds, WentOn
  <2> QED
    BY <1>3, <2>1, <2>2 DEF PassEnds, q
<1>4. CASE CommitBegins(p)
  <2>1. Update(p, q("sidecar"))
    BY <1>4 DEF CommitBegins, q
  <2> QED
    BY <1>2, <1>4, <2>1 DEF CommitBegins, WentOn, Commits
<1>5. CASE CommitSidecar(p)
  <2>1. Update(p, q("reconcile"))
    BY <1>5 DEF CommitSidecar, Committing, q
  <2> QED
    BY <1>2, <1>5, <2>1 DEF CommitSidecar, WentOn, Commits
<1>6. CASE CommitReconcile(p)
  <2>1. Update(p, q("rewrite")) /\ proc[p].pc = "reconcile"
    BY <1>6 DEF CommitReconcile, Committing, q
  <2> QED
    BY <1>2, <1>6, <2>1 DEF CommitReconcile, WentOn, Commits
<1>7. CASE CommitSpool(p)
  <2>1. Update(p, q("counters")) /\ proc[p].pc = "rewrite"
    BY <1>7 DEF CommitSpool, Committing, q
  <2> QED
    BY <1>2, <1>7, <2>1 DEF CommitSpool, WentOn, Commits
<1> QED
  BY <1>3, <1>4, <1>5, <1>6, <1>7

LEMMA DispatchShape ==
    ASSUME TypeOK, NEW p \in Procs, Dispatch(p)
    PROVE  \E x \in proc[p].todo : Dispatched(p, x)
<1>0. proc \in [Procs -> Pass] /\ proc[p] \in Pass
  BY DEF TypeOK
<1>1. PICK x \in proc[p].todo :
        DispatchRetained(p, x) \/ DispatchOk(p, x) \/ DispatchFailed(p, x)
  BY DEF Dispatch
<1>2. x \in Unit /\ x.id \in Ids /\ x.size \in {1, 2} /\ proc[p].record \in {1, 2}
  BY <1>0 DEF Pass, Unit
<1>3. Dispatching(p, x) /\ UNCHANGED <<spool, ahead, sidecar, retry>> /\ proc[p].pc = "dispatch"
  BY <1>1 DEF DispatchRetained, DispatchOk, DispatchFailed, Dispatching
<1> DEFINE next == NextUnit(proc[p], x)
           taken == [proc[p] EXCEPT !.record = 2]
           done == [next EXCEPT !.replayed = @ \cup {x.id}]
           bad == [next EXCEPT !.failed = @ \cup {x.id}]
           same(q) == /\ q.pc = "dispatch" /\ q.snapshot = proc[p].snapshot
                      /\ q.prior = proc[p].prior /\ q.writing = proc[p].writing
           over(q) == same(q) /\ q.todo = proc[p].todo \ {x} /\ q.record = 1
<1>4. next \in Pass /\ over(next)
      /\ next.replayed = proc[p].replayed /\ next.failed = proc[p].failed
  BY <1>0, <1>2, <1>3 DEF NextUnit, Pass
<1>5. taken \in Pass /\ same(taken) /\ taken.todo = proc[p].todo /\ taken.record = 2
      /\ taken.replayed = proc[p].replayed /\ taken.failed = proc[p].failed
  BY <1>0, <1>3 DEF Pass
<1>6. done \in Pass /\ over(done)
      /\ done.replayed = proc[p].replayed \cup {x.id} /\ done.failed = proc[p].failed
  BY <1>0, <1>2, <1>3 DEF NextUnit, Pass
<1>7. bad \in Pass /\ over(bad)
      /\ bad.replayed = proc[p].replayed /\ bad.failed = proc[p].failed \cup {x.id}
  BY <1>0, <1>2, <1>3 DEF NextUnit, Pass
<1>8. CASE DispatchRetained(p, x)
  <2>1. Update(p, next)
    BY <1>8 DEF DispatchRetained
  <2> HIDE DEF next
  <2>2. proc'[p] = next /\ Others(p)
    BY <1>0, <1>4, <2>1, Updated DEF Others
  <2>3. Dispatched(p, x)
    BY <1>3, <1>4, <1>8, <2>2 DEF DispatchRetained, Dispatched
  <2> QED
    BY <2>3
<1>9. CASE DispatchOk(p, x)
  <2>1. IF proc[p].record < x.size THEN Update(p, taken) ELSE Update(p, done)
    BY <1>9 DEF DispatchOk
  <2> HIDE DEF taken, done
  <2>2. (proc'[p] = IF proc[p].record < x.size THEN taken ELSE done) /\ Others(p)
    BY <1>0, <1>5, <1>6, <2>1, Updated DEF Others
  <2>3. CASE proc[p].record < x.size
    <3>1. proc[p].record = 1
      BY <1>2, <2>3
    <3>2. Dispatched(p, x)
      BY <1>3, <1>5, <1>9, <2>2, <2>3, <3>1 DEF DispatchOk, Dispatched
    <3> QED
      BY <3>2
  <2>4. CASE ~(proc[p].record < x.size)
    <3>1. x.size <= proc[p].record
      BY <1>2, <2>4
    <3>2. Dispatched(p, x)
      BY <1>3, <1>6, <1>9, <2>2, <2>4, <3>1 DEF DispatchOk, Dispatched
    <3> QED
      BY <3>2
  <2> QED
    BY <2>3, <2>4
<1>10. CASE DispatchFailed(p, x)
  <2>1. Update(p, bad)
    BY <1>10 DEF DispatchFailed
  <2> HIDE DEF bad
  <2>2. proc'[p] = bad /\ Others(p)
    BY <1>0, <1>7, <2>1, Updated DEF Others
  <2>3. hist'.spooled = hist.spooled /\ hist'.units = hist.units
    BY <1>2, <1>10, FailsCounted DEF DispatchFailed, TypeOK
  <2>4. Dispatched(p, x)
    BY <1>3, <1>7, <1>10, <2>2, <2>3 DEF DispatchFailed, Dispatched, MayTake
  <2> QED
    BY <2>4
<1> QED
  BY <1>1, <1>8, <1>9, <1>10

\* Every step is one of these.
Shaped ==
    \E p \in Procs :
        \/ Ended(p) \/ WentOn(p) \/ Snapshot(p)
        \/ \E unit \in Unit : WroteUnit(p, unit) \/ Parked(p, unit)
        \/ \E x \in proc[p].todo : Dispatched(p, x)

LEMMA StepShape ==
    ASSUME TypeOK, [Next]_svars
    PROVE  Shaped \/ UNCHANGED <<spool, ahead, sidecar, retry, proc, delivered, hist>>
<1>1. CASE UNCHANGED svars
  BY <1>1 DEF svars
<1>2. ASSUME NEW p \in Procs, RecoverLock(p)
      PROVE  UNCHANGED <<spool, ahead, sidecar, retry, proc, delivered, hist>>
  BY <1>2 DEF RecoverLock
<1> QED
  BY <1>1, <1>2, WriteShape, EndShape, PassShape, DispatchShape DEF Next, Shaped

LEMMA SnapshotShape ==
    ASSUME TypeOK, NEW p \in Procs, Snapshot(p)
    PROVE  /\ Others(p) /\ UNCHANGED <<spool, ahead, sidecar, retry, delivered, hist>>
           /\ proc[p].pc = "drain" /\ proc'[p].pc = "dispatch"
           /\ proc'[p].snapshot = spool /\ proc'[p].todo = spool /\ proc'[p].prior = retry
           /\ proc'[p].record = proc[p].record /\ proc'[p].writing = proc[p].writing
           /\ proc'[p].replayed = proc[p].replayed /\ proc'[p].failed = proc[p].failed
<1> DEFINE q == [proc[p] EXCEPT !.pc = "dispatch",
                                !.snapshot = spool, !.todo = spool, !.prior = retry]
<1>1. /\ q \in Pass /\ q.pc = "dispatch" /\ q.snapshot = spool /\ q.todo = spool
      /\ q.prior = retry /\ q.record = proc[p].record /\ q.writing = proc[p].writing
      /\ q.replayed = proc[p].replayed /\ q.failed = proc[p].failed
  BY DEF TypeOK, Pass
<1>2. Update(p, q)
  BY DEF Snapshot
<1> HIDE DEF q
<1>3. proc'[p] = q /\ Others(p)
  BY <1>1, <1>2, Updated DEF Others, TypeOK
<1> QED
  BY <1>1, <1>3 DEF Snapshot

-----------------------------------------------------------------------------
(* Identity, order and the records of a unit *)

LEMMA IdentityInit == Init => Identity /\ DrainBegins
<1> SUFFICES ASSUME Init PROVE Identity /\ DrainBegins
  OBVIOUS
<1>1. \A x, y \in Leftover : x = y /\ x.id = 0
  BY SpoolAssumption
<1>2. \A p \in Procs : Blank(proc[p]) /\ proc[p].writing = {}
  BY IdleIsBlank DEF Init
<1>3. hist.spooled = Leftover /\ hist.units = 0 /\ spool = Leftover /\ sidecar = {}
  BY DEF Init
<1>4. \A x \in Leftover : x.id <= 0
  BY <1>1
<1> QED
  BY <1>1, <1>2, <1>3, <1>4 DEF Identity, Blank, DrainBegins

LEMMA IdentityStep ==
    ASSUME TypeOK, Identity, DrainBegins, Shaped
    PROVE  Identity' /\ DrainBegins'
<1> PICK p \in Procs :
        \/ Ended(p) \/ WentOn(p) \/ Snapshot(p)
        \/ \E unit \in Unit : WroteUnit(p, unit) \/ Parked(p, unit)
        \/ \E x \in proc[p].todo : Dispatched(p, x)
  BY DEF Shaped
<1>0. hist.units \in Nat /\ \A x \in Unit : x.id \in Nat
  BY SpoolAssumption DEF TypeOK, Unit, Ids
<1>1. CASE Ended(p)
  BY <1>1 DEF Ended, Others, Identity, DrainBegins, Blank
<1>2. CASE WentOn(p)
  <2>1. spool' \subseteq hist.spooled /\ sidecar' \subseteq hist.spooled
    BY <1>2 DEF WentOn, Identity, CommitSidecar, CommitReconcile, CommitSpool, Remaining
  <2>2. proc'[p].pc # "drain"
    BY <1>2 DEF WentOn
  <2> QED
    BY <1>2, <2>1, <2>2 DEF WentOn, Kept, Others, Identity, DrainBegins
<1>3. CASE Snapshot(p)
  <2>1. proc[p].replayed = {} /\ proc[p].failed = {}
    BY <1>3, SnapshotShape DEF DrainBegins, Blank
  <2> QED
    BY <1>3, <2>1, SnapshotShape DEF Others, Identity, DrainBegins
<1>4. ASSUME NEW unit \in Unit, WroteUnit(p, unit)
      PROVE  Identity' /\ DrainBegins'
  <2>1. \A x \in hist.spooled : x.id < unit.id
    BY <1>0, <1>4 DEF WroteUnit, Identity, TypeOK
  <2>2. \A r \in Procs : \A x \in proc[r].writing : x.id < unit.id
    BY <1>0, <1>4 DEF WroteUnit, Identity, TypeOK, Pass
  <2>3. \A x \in hist'.spooled : x.id <= hist'.units
    BY <1>0, <1>4, <2>1 DEF WroteUnit, TypeOK
  <2>4. ASSUME NEW r \in Procs
        PROVE  /\ proc'[r].snapshot \subseteq hist.spooled
               /\ proc'[r].todo \subseteq proc'[r].snapshot
               /\ \A u \in proc'[r].replayed \cup proc'[r].failed :
                      \E x \in proc'[r].snapshot : x.id = u
    BY <1>4 DEF WroteUnit, Blank, Others, Identity
  <2>5. ASSUME NEW r \in Procs, NEW x \in proc'[r].writing
        PROVE  /\ x.id <= hist'.units
               /\ \A y \in hist.spooled : y.id # x.id
               /\ \A q \in Procs \ {r} : \A y \in proc'[q].writing : y.id # x.id
    <3>1. CASE r = p
      <4>1. x = unit
        BY <1>4, <3>1 DEF WroteUnit
      <4>2. \A q \in Procs \ {r} : proc'[q] = proc[q]
        BY <1>4, <3>1 DEF WroteUnit, Others
      <4> QED
        BY <1>0, <1>4, <2>1, <2>2, <4>1, <4>2 DEF WroteUnit, TypeOK, Pass
    <3>2. CASE r # p
      <4>1. x \in proc[r].writing /\ x.id < unit.id
        BY <1>4, <2>2, <3>2 DEF WroteUnit, Others
      <4>2. \A q \in Procs \ {r} : \A y \in proc'[q].writing :
               y = unit \/ y \in proc[q].writing
        BY <1>4 DEF WroteUnit, Others
      <4> QED
        BY <1>0, <1>4, <4>1, <4>2 DEF WroteUnit, Identity, TypeOK, Pass
    <3> QED
      BY <3>1, <3>2
  <2> QED
    BY <1>4, <2>3, <2>4, <2>5 DEF WroteUnit, Others, Identity, DrainBegins
<1>5. ASSUME NEW unit \in Unit, Parked(p, unit)
      PROVE  Identity' /\ DrainBegins'
  <2>1. /\ unit \in proc[p].writing /\ unit.id <= hist.units
        /\ \A y \in hist.spooled : y.id # unit.id
    BY <1>5 DEF Parked, Identity
  <2>2. \A r \in Procs \ {p} : \A y \in proc[r].writing : y.id # unit.id
    BY <2>1 DEF Identity
  <2> QED
    BY <1>5, <2>1, <2>2 DEF Parked, Blank, Others, Identity, DrainBegins
<1>6. ASSUME NEW x \in proc[p].todo, Dispatched(p, x)
      PROVE  Identity' /\ DrainBegins'
  <2>1. x \in proc[p].snapshot
    BY <1>6 DEF Identity
  <2> QED
    BY <1>6, <2>1 DEF Dispatched, Others, Identity, DrainBegins
<1> QED
  BY <1>1, <1>2, <1>3, <1>4, <1>5, <1>6

LEMMA OrderStep ==
    ASSUME TypeOK, Identity, FileOrder, Shaped
    PROVE  FileOrder'
<1> PICK p \in Procs :
        \/ Ended(p) \/ WentOn(p) \/ Snapshot(p)
        \/ \E unit \in Unit : WroteUnit(p, unit) \/ Parked(p, unit)
        \/ \E x \in proc[p].todo : Dispatched(p, x)
  BY DEF Shaped
<1>1. CASE Ended(p)
  BY <1>1 DEF Ended, Others, Blank, FileOrder, Ordered
<1>2. CASE WentOn(p)
  <2>1. spool' \subseteq spool
    BY <1>2 DEF WentOn, CommitSidecar, CommitReconcile, CommitSpool, Remaining
  <2> QED
    BY <1>2, <2>1 DEF WentOn, Kept, Others, FileOrder, Ordered
<1>3. CASE Snapshot(p)
  BY <1>3, SnapshotShape DEF Others, FileOrder, Ordered
<1>4. ASSUME NEW unit \in Unit, WroteUnit(p, unit) PROVE FileOrder'
  BY <1>4 DEF WroteUnit, Others, Blank, FileOrder, Ordered
<1>5. ASSUME NEW unit \in Unit, Parked(p, unit) PROVE FileOrder'
  <2>1. unit.id \in Ids /\ \A x \in Unit : x.id \in Ids
    BY DEF Unit
  <2>2. \A y \in hist.spooled : y.id # unit.id
    BY <1>5 DEF Parked, Identity
  <2>3. /\ ahead'[unit.id] = IdsOf(spool)
        /\ \A y \in hist.spooled : ahead'[y.id] = ahead[y.id]
    BY <1>5, <2>1, <2>2 DEF Parked, TypeOK
  <2>4. \A x \in spool : x.id \in ahead'[unit.id]
    BY <2>3 DEF IdsOf
  <2>5. Ordered(spool', ahead')
    BY <1>5, <2>3, <2>4 DEF Parked, Identity, FileOrder, Ordered
  <2>6. \A r \in Procs : Ordered(proc'[r].snapshot, ahead')
    BY <1>5, <2>3 DEF Parked, Others, Blank, Identity, FileOrder, Ordered
  <2> QED
    BY <2>5, <2>6 DEF FileOrder
<1>6. ASSUME NEW x \in proc[p].todo, Dispatched(p, x) PROVE FileOrder'
  BY <1>6 DEF Dispatched, Others, FileOrder, Ordered
<1> QED
  BY <1>1, <1>2, <1>3, <1>4, <1>5, <1>6

LEMMA PairStep ==
    ASSUME TypeOK, Identity, DrainBegins, FileOrder, PairDue, PairInOrder, Shaped
    PROVE  PairDue' /\ PairInOrder'
<1> PICK p \in Procs :
        \/ Ended(p) \/ WentOn(p) \/ Snapshot(p)
        \/ \E unit \in Unit : WroteUnit(p, unit) \/ Parked(p, unit)
        \/ \E x \in proc[p].todo : Dispatched(p, x)
  BY DEF Shaped
<1>1. CASE Ended(p)
  BY <1>1 DEF Ended, Others, Blank, PairDue, PairInOrder
<1>2. CASE WentOn(p)
  BY <1>2 DEF WentOn, Kept, Others, PairDue, PairInOrder
<1>3. CASE Snapshot(p)
  <2>1. proc[p].record = 1
    BY <1>3, SnapshotShape DEF DrainBegins, Blank
  <2> QED
    BY <1>3, <2>1, SnapshotShape DEF Others, PairDue, PairInOrder
<1>4. ASSUME NEW unit \in Unit, WroteUnit(p, unit) PROVE PairDue' /\ PairInOrder'
  BY <1>4 DEF WroteUnit, Others, Blank, PairDue, PairInOrder
<1>5. ASSUME NEW unit \in Unit, Parked(p, unit) PROVE PairDue' /\ PairInOrder'
  <2>1. unit.id \in Ids /\ \A x \in Unit : x.id \in Ids
    BY DEF Unit
  <2>2. \A y \in hist.spooled : y.id # unit.id
    BY <1>5 DEF Parked, Identity
  <2>3. \A y \in hist.spooled : ahead'[y.id] = ahead[y.id]
    BY <1>5, <2>1, <2>2 DEF Parked, TypeOK
  <2>4. \A r \in Procs : proc[r].todo \subseteq hist.spooled
    BY DEF Identity
  <2> QED
    BY <1>5, <2>3, <2>4 DEF Parked, Others, Blank, PairDue, PairInOrder
<1>6. ASSUME NEW x \in proc[p].todo, Dispatched(p, x) PROVE PairDue' /\ PairInOrder'
  <2>1. proc[p].record \in {1, 2} /\ ahead' = ahead /\ delivered \subseteq delivered'
    BY <1>6 DEF Dispatched, TypeOK, Pass
  <2>2. proc[p].record = 2 => <<x.id, 1>> \in delivered
    BY <1>6 DEF Dispatched, Dispatching, PairDue
  <2>3. PairInOrder'
    BY <1>6, <2>1, <2>2 DEF Dispatched, PairInOrder
  <2>4. ASSUME NEW r \in Procs, r # p, proc'[r].record = 2
        PROVE  \A y \in proc'[r].todo :
                 (\A z \in proc'[r].todo : z.id \notin ahead'[y.id]) => <<y.id, 1>> \in delivered'
    BY <1>6, <2>1, <2>4 DEF Dispatched, Others, PairDue
  <2>5. ASSUME proc'[p].record = 2
        PROVE  \A y \in proc'[p].todo :
                 (\A z \in proc'[p].todo : z.id \notin ahead'[y.id]) => <<y.id, 1>> \in delivered'
    <3>1. proc'[p].todo = proc[p].todo /\ <<x.id, 1>> \in delivered'
      BY <1>6, <2>5 DEF Dispatched
    <3>2. ASSUME NEW y \in proc[p].todo, \A z \in proc[p].todo : z.id \notin ahead[y.id]
          PROVE  y = x
      BY <1>6, <3>2 DEF Dispatched, Dispatching, FileOrder, Ordered, Identity
    <3> QED
      BY <2>1, <3>1, <3>2
  <2> QED
    BY <2>3, <2>4, <2>5 DEF PairDue
<1> QED
  BY <1>1, <1>2, <1>3, <1>4, <1>5, <1>6

-----------------------------------------------------------------------------
(* What is let go was delivered *)

\* What is delivered stays delivered.
LEMMA WrittenStays ==
    ASSUME TypeOK, Shaped
    PROVE  /\ delivered \subseteq delivered'
           /\ \A x : Written(x) => Written(x)'
<1>1. delivered \subseteq delivered'
  BY SnapshotShape DEF Shaped, Ended, WentOn, WroteUnit, Parked, Dispatched
<1> QED
  BY <1>1 DEF Written

LEMMA ReplayedStep ==
    ASSUME TypeOK, Identity, DrainBegins, PairDue, ReplayedWritten, Shaped
    PROVE  ReplayedWritten'
<1> PICK p \in Procs :
        \/ Ended(p) \/ WentOn(p) \/ Snapshot(p)
        \/ \E unit \in Unit : WroteUnit(p, unit) \/ Parked(p, unit)
        \/ \E x \in proc[p].todo : Dispatched(p, x)
  BY DEF Shaped
<1>0. \A x \in hist.spooled : Written(x) => Written(x)'
  BY WrittenStays
<1>1. CASE Ended(p)
  BY <1>0, <1>1 DEF Ended, Others, Blank, ReplayedWritten
<1>2. CASE WentOn(p)
  BY <1>0, <1>2 DEF WentOn, Kept, Others, ReplayedWritten
<1>3. CASE Snapshot(p)
  BY <1>0, <1>3, SnapshotShape DEF Others, ReplayedWritten
<1>4. ASSUME NEW unit \in Unit, WroteUnit(p, unit) PROVE ReplayedWritten'
  BY <1>0, <1>4 DEF WroteUnit, Others, Blank, ReplayedWritten
<1>5. ASSUME NEW unit \in Unit, Parked(p, unit) PROVE ReplayedWritten'
  <2>1. \A y \in hist.spooled : y.id # unit.id
    BY <1>5 DEF Parked, Identity
  <2>2. \A r \in Procs : unit.id \notin proc[r].replayed
    BY <2>1 DEF Identity
  <2> QED
    BY <1>0, <1>5, <2>2 DEF Parked, Others, Blank, ReplayedWritten
<1>6. ASSUME NEW x \in proc[p].todo, Dispatched(p, x) PROVE ReplayedWritten'
  <2>1. x \in hist.spooled /\ x \in Unit /\ proc[p].record \in {1, 2}
    BY <1>6 DEF Identity, TypeOK, Pass
  <2>2. ASSUME proc'[p].replayed # proc[p].replayed PROVE Written(x)'
    <3>1. proc'[p].replayed = proc[p].replayed \cup {x.id} /\ x.size <= proc[p].record
          /\ delivered' = delivered \cup {<<x.id, proc[p].record>>}
      BY <1>6, <2>2 DEF Dispatched
    <3>2. proc[p].record = 2 => <<x.id, 1>> \in delivered
      BY <1>6 DEF Dispatched, Dispatching, PairDue
    <3>3. \A i \in 1 .. x.size : i \in {1, 2} /\ i <= proc[p].record
      BY <2>1, <3>1 DEF Unit
    <3> QED
      BY <2>1, <3>1, <3>2, <3>3 DEF Written
  <2>3. \A u \in proc'[p].replayed \ proc[p].replayed :
           u = x.id /\ proc'[p].replayed # proc[p].replayed
    BY <1>6 DEF Dispatched
  <2>4. \A y \in hist.spooled : y.id = x.id => y = x
    BY <2>1 DEF Identity
  <2> QED
    BY <1>0, <1>6, <2>2, <2>3, <2>4 DEF Dispatched, Others, ReplayedWritten
<1> QED
  BY <1>1, <1>2, <1>3, <1>4, <1>5, <1>6

\* Only the process that holds the lock changes the files of a commit.
LEMMA FilesOfCommit ==
    ASSUME TypeOK, NEW r \in Procs, proc[r].pc \in Commits, NEW p \in Procs, p # r,
           \/ Ended(p) \/ WentOn(p) \/ Snapshot(p)
           \/ \E unit \in Unit : WroteUnit(p, unit) \/ Parked(p, unit)
           \/ \E x \in proc[p].todo : Dispatched(p, x)
    PROVE  spool' = spool /\ sidecar' = sidecar
<1>1. lock = r /\ lock # p /\ lock # NoOne
  BY SpoolAssumption DEF TypeOK
<1>2. ~CommitSidecar(p) /\ ~CommitReconcile(p) /\ ~CommitSpool(p)
  BY <1>1 DEF CommitSidecar, CommitReconcile, CommitSpool, Committing
<1> QED
  BY <1>1, <1>2, SnapshotShape DEF Ended, WentOn, WroteUnit, Parked, Dispatched

LEMMA CommitStep ==
    ASSUME TypeOK, Identity, ReplayedWritten, Marked, Purged, Shaped
    PROVE  Marked' /\ Purged'
<1> PICK p \in Procs :
        \/ Ended(p) \/ WentOn(p) \/ Snapshot(p)
        \/ \E unit \in Unit : WroteUnit(p, unit) \/ Parked(p, unit)
        \/ \E x \in proc[p].todo : Dispatched(p, x)
  BY DEF Shaped
<1>1. \A x \in hist.spooled : Written(x) => Written(x)'
  BY WrittenStays
<1>2. ASSUME NEW r \in Procs, r # p, proc'[r].pc \in Commits
      PROVE  proc'[r] = proc[r] /\ spool' = spool /\ sidecar' = sidecar
  <2>1. proc'[r] = proc[r]
    BY <1>2, SnapshotShape DEF Ended, WentOn, WroteUnit, Parked, Dispatched, Others
  <2> QED
    BY <1>2, <2>1, FilesOfCommit
<1>3. CASE WentOn(p)
  <2>1. Quarantines(proc'[p]) = Quarantines(proc[p])
    BY <1>3 DEF WentOn, Kept, Quarantines, Count
  <2>2. ASSUME proc'[p].pc \in {"reconcile", "rewrite"}, NEW x \in spool',
               x.id \in Quarantines(proc'[p])
        PROVE  x \in sidecar' \/ Written(x)'
    <3>1. CASE proc'[p].pc = "reconcile"
      BY <1>3, <2>1, <2>2, <3>1 DEF WentOn, CommitSidecar
    <3>2. CASE proc'[p].pc = "rewrite"
      <4>1. CommitReconcile(p) /\ proc[p].pc = "reconcile" /\ spool' = spool
        BY <1>3, <3>2 DEF WentOn, CommitReconcile
      <4>2. x \in hist.spooled /\ (x \in sidecar \/ Written(x))
        BY <2>1, <2>2, <4>1 DEF Marked, Identity
      <4>3. CASE x.id \in proc[p].replayed
        BY <1>1, <4>2, <4>3 DEF ReplayedWritten
      <4>4. CASE x.id \notin proc[p].replayed
        BY <1>1, <4>1, <4>2, <4>4 DEF CommitReconcile
      <4> QED
        BY <4>3, <4>4
    <3> QED
      BY <2>2, <3>1, <3>2
  <2>3. ASSUME proc'[p].pc = "counters", NEW x \in spool'
        PROVE  x.id \notin Quarantines(proc'[p])
    BY <1>3, <2>1, <2>3 DEF WentOn, CommitSpool, Remaining
  <2>4. ASSUME NEW r \in Procs, r # p, proc'[r].pc \in {"reconcile", "rewrite"},
               NEW x \in spool', x.id \in Quarantines(proc'[r])
        PROVE  x \in sidecar' \/ Written(x)'
    <3>1. proc'[r] = proc[r] /\ spool' = spool /\ sidecar' = sidecar
      BY <1>2, <2>4 DEF Commits
    <3> QED
      BY <1>1, <2>4, <3>1 DEF Marked, Identity
  <2>5. ASSUME NEW r \in Procs, r # p, proc'[r].pc = "counters", NEW x \in spool'
        PROVE  x.id \notin Quarantines(proc'[r])
    <3>1. proc'[r] = proc[r] /\ spool' = spool
      BY <1>2, <2>5 DEF Commits
    <3> QED
      BY <2>5, <3>1 DEF Purged
  <2> QED
    BY <2>2, <2>3, <2>4, <2>5 DEF Marked, Purged
<1>4. CASE ~WentOn(p)
  <2>1. proc'[p].pc \notin {"reconcile", "rewrite", "counters"}
    BY <1>4, SnapshotShape DEF Ended, WroteUnit, Parked, Dispatched
  <2>2. ASSUME NEW r \in Procs, proc'[r].pc \in {"reconcile", "rewrite"},
               NEW x \in spool', x.id \in Quarantines(proc'[r])
        PROVE  x \in sidecar' \/ Written(x)'
    <3>1. proc'[r] = proc[r] /\ spool' = spool /\ sidecar' = sidecar
      BY <1>2, <2>1, <2>2 DEF Commits
    <3> QED
      BY <1>1, <2>2, <3>1 DEF Marked, Identity
  <2>3. ASSUME NEW r \in Procs, proc'[r].pc = "counters", NEW x \in spool'
        PROVE  x.id \notin Quarantines(proc'[r])
    <3>1. proc'[r] = proc[r] /\ spool' = spool
      BY <1>2, <2>1, <2>3 DEF Commits
    <3> QED
      BY <2>3, <3>1 DEF Purged
  <2> QED
    BY <2>2, <2>3 DEF Marked, Purged
<1> QED
  BY <1>3, <1>4

\* A commit lets go what was delivered and keeps the rest in one of its files.
LEMMA LetGo ==
    ASSUME TypeOK, Identity, ReplayedWritten, Marked, NEW p \in Procs,
           CommitSidecar(p) \/ CommitReconcile(p) \/ CommitSpool(p)
    PROVE  /\ Held' \subseteq Held
           /\ \A x \in Held : x \in Held' \/ Written(x)
<1>1. CASE CommitSidecar(p)
  BY <1>1 DEF CommitSidecar, Held
<1>2. CASE CommitReconcile(p)
  BY <1>2 DEF CommitReconcile, Held, Identity, ReplayedWritten
<1>3. CASE CommitSpool(p)
  <2>1. proc[p].pc = "rewrite"
    BY <1>3 DEF CommitSpool, Committing
  <2>2. ASSUME NEW x \in spool, x \notin spool' PROVE x \in sidecar \/ Written(x)
    <3>1. x.id \in proc[p].replayed \/ x.id \in Quarantines(proc[p])
      BY <1>3, <2>2 DEF CommitSpool, Remaining
    <3> QED
      BY <2>1, <3>1 DEF Identity, ReplayedWritten, Marked
  <2>3. spool' \subseteq spool /\ sidecar' = sidecar
    BY <1>3 DEF CommitSpool, Remaining
  <2> QED
    BY <2>2, <2>3 DEF Held
<1> QED
  BY <1>1, <1>2, <1>3

LEMMA SafeStep ==
    ASSUME TypeOK, Identity, ReplayedWritten, Marked, SpooledIsSafe, Shaped
    PROVE  SpooledIsSafe'
<1> PICK p \in Procs :
        \/ Ended(p) \/ WentOn(p) \/ Snapshot(p)
        \/ \E unit \in Unit : WroteUnit(p, unit) \/ Parked(p, unit)
        \/ \E x \in proc[p].todo : Dispatched(p, x)
  BY DEF Shaped
<1>1. \A x \in hist.spooled : Written(x) => Written(x)'
  BY WrittenStays
<1>2. CASE WentOn(p)
  <2>1. CASE UNCHANGED <<spool, sidecar>>
    BY <1>1, <1>2, <2>1 DEF WentOn, SpooledIsSafe, Held
  <2>2. CASE CommitSidecar(p) \/ CommitReconcile(p) \/ CommitSpool(p)
    BY <1>1, <1>2, <2>2, LetGo DEF WentOn, SpooledIsSafe
  <2> QED
    BY <1>2, <2>1, <2>2 DEF WentOn
<1>3. CASE ~WentOn(p)
  <2>1. /\ spool \subseteq spool' /\ sidecar' = sidecar
        /\ \A x \in hist'.spooled : x \in hist.spooled \/ x \in spool'
    BY <1>3, SnapshotShape DEF Ended, WroteUnit, Parked, Dispatched
  <2> QED
    BY <1>1, <2>1 DEF SpooledIsSafe, Held
<1> QED
  BY <1>2, <1>3

-----------------------------------------------------------------------------
(* Retry counts and quarantine *)

CountTypes ==
    /\ hist.fails \in [Ids -> 0 .. Threshold] /\ retry \in [Ids -> 0 .. Threshold]
    /\ \A p \in Procs : proc[p].prior \in [Ids -> 0 .. Threshold]

LEMMA CountTyped == TypeOK => CountTypes
BY DEF TypeOK, CountTypes, Pass

\* What a commit writes to the retry state really failed.
LEMMA MergedReal ==
    ASSUME TypeOK, Purged, CountsReal, QuarantineForCause,
           NEW p \in Procs, CommitRetry(p), NEW u \in Ids
    PROVE  Merged(proc[p], u) <= hist.fails[u]
<1>1. /\ hist.fails[u] \in 0 .. Threshold /\ retry[u] \in 0 .. Threshold
      /\ proc[p].prior[u] \in 0 .. Threshold
  BY CountTyped DEF CountTypes
<1>2. retry[u] <= hist.fails[u] /\ proc[p].prior[u] <= hist.fails[u]
  BY DEF CountsReal, QuarantineForCause
<1>3. CASE u \in IdsOf(spool) /\ u \in proc[p].failed
  <2>1. Count(proc[p], u) < Threshold
    BY <1>1, <1>3, SpoolAssumption DEF Purged, CommitRetry, Quarantines, IdsOf, Count
  <2>2. Count(proc[p], u) <= hist.fails[u]
    BY <1>1, <1>3, <2>1, SpoolAssumption DEF CountsReal, Count
  <2> QED
    BY <1>1, <1>2, <2>2 DEF Merged
<1>4. CASE u \in IdsOf(spool) /\ u \notin proc[p].failed
  BY <1>1, <1>2, <1>4 DEF Merged
<1>5. CASE u \notin IdsOf(spool)
  BY <1>1, <1>5 DEF Merged
<1> QED
  BY <1>3, <1>4, <1>5

LEMMA CountStep ==
    ASSUME TypeOK, Identity, DrainBegins, Purged, CountsReal, QuarantineForCause, Shaped
    PROVE  CountsReal' /\ QuarantineForCause'
<1>0. CountTypes
  BY CountTyped
<1> PICK p \in Procs :
        \/ Ended(p) \/ WentOn(p) \/ Snapshot(p)
        \/ \E unit \in Unit : WroteUnit(p, unit) \/ Parked(p, unit)
        \/ \E x \in proc[p].todo : Dispatched(p, x)
  BY DEF Shaped
<1>1. CASE Ended(p)
  <2>1. \A u \in Ids : retry'[u] <= hist.fails[u]
    <3>1. CASE CommitRetry(p)
      BY <3>1, MergedReal DEF CommitRetry
    <3>2. CASE retry' = retry
      BY <3>2 DEF QuarantineForCause
    <3> QED
      BY <1>1, <3>1, <3>2 DEF Ended
  <2>2. proc'[p].failed = {} /\ \A u \in Ids : proc'[p].prior[u] <= hist.fails[u]
    BY <1>0, <1>1 DEF Ended, Blank, NoCounts, CountTypes
  <2> QED
    BY <1>1, <2>1, <2>2 DEF Ended, Others, CountsReal, QuarantineForCause
<1>2. CASE WentOn(p)
  <2>1. ASSUME NEW x \in sidecar' PROVE hist.fails[x.id] >= Threshold
    <3>1. CASE x \in sidecar
      BY <3>1 DEF QuarantineForCause
    <3>2. CASE x \notin sidecar
      <4>1. x \in spool /\ x.id \in Quarantines(proc[p])
        BY <1>2, <2>1, <3>2 DEF WentOn, CommitSidecar, CommitReconcile, CommitSpool
      <4>2. x.id \in Ids
        BY <4>1 DEF TypeOK, Unit
      <4>3. proc[p].prior[x.id] \in 0 .. Threshold /\ hist.fails[x.id] \in 0 .. Threshold
        BY <1>0, <4>2 DEF CountTypes
      <4> QED
        BY <4>1, <4>2, <4>3, SpoolAssumption DEF Quarantines, Count, CountsReal
    <3> QED
      BY <3>1, <3>2
  <2> QED
    BY <1>2, <2>1 DEF WentOn, Kept, Others, CountsReal, QuarantineForCause
<1>3. CASE Snapshot(p)
  <2>1. proc[p].failed = {}
    BY <1>3, SnapshotShape DEF DrainBegins, Blank
  <2> QED
    BY <1>3, <2>1, SnapshotShape DEF Others, CountsReal, QuarantineForCause
<1>4. ASSUME NEW unit \in Unit, WroteUnit(p, unit) \/ Parked(p, unit)
      PROVE  CountsReal' /\ QuarantineForCause'
  <2>1. proc'[p].failed = {} /\ \A u \in Ids : proc'[p].prior[u] <= hist.fails[u]
    BY <1>0, <1>4 DEF WroteUnit, Parked, Blank, NoCounts, CountTypes
  <2> QED
    BY <1>4, <2>1 DEF WroteUnit, Parked, Others, CountsReal, QuarantineForCause
<1>5. ASSUME NEW x \in proc[p].todo, Dispatched(p, x)
      PROVE  CountsReal' /\ QuarantineForCause'
  <2>1. CASE hist' = hist /\ proc'[p].failed = proc[p].failed
    BY <1>5, <2>1 DEF Dispatched, Others, CountsReal, QuarantineForCause
  <2>2. CASE hist' = Failed(x.id) /\ proc'[p].failed = proc[p].failed \cup {x.id}
    <3>1. x.id \in Ids
      BY <1>5 DEF TypeOK, Pass, Unit
    <3>2. /\ \A u \in Ids : hist'.fails[u] >= hist.fails[u]
          /\ hist'.fails[x.id] = hist.fails[x.id] + 1 \/ hist'.fails[x.id] = Threshold
          /\ hist'.fails \in [Ids -> 0 .. Threshold]
      BY <2>2, <3>1, FailsCounted DEF TypeOK
    <3>3. \A u \in Ids : /\ hist.fails[u] \in 0 .. Threshold /\ hist'.fails[u] \in 0 .. Threshold
                         /\ retry[u] \in 0 .. Threshold
                         /\ \A r \in Procs : proc[r].prior[u] \in 0 .. Threshold
      BY <1>0, <3>2 DEF CountTypes
    <3>4. \A y \in sidecar : y.id \in Ids
      BY DEF TypeOK, Unit
    <3>5. QuarantineForCause'
      BY <1>5, <3>2, <3>3, <3>4, SpoolAssumption DEF Dispatched, QuarantineForCause
    <3>6. ASSUME NEW r \in Procs, NEW u \in Ids
          PROVE  /\ proc'[r].prior[u] <= hist'.fails[u]
                 /\ u \in proc'[r].failed => \/ proc'[r].prior[u] + 1 <= hist'.fails[u]
                                             \/ hist'.fails[u] >= Threshold
      <4>1. /\ proc'[r].prior = proc[r].prior
            /\ u \in proc'[r].failed => u \in proc[r].failed \/ u = x.id
        BY <1>5, <2>2 DEF Dispatched, Others
      <4>2. /\ proc[r].prior[u] <= hist.fails[u]
            /\ u \in proc[r].failed => \/ proc[r].prior[u] + 1 <= hist.fails[u]
                                       \/ hist.fails[u] >= Threshold
        BY DEF CountsReal
      <4> QED
        BY <3>2, <3>3, <4>1, <4>2, SpoolAssumption
    <3> QED
      BY <3>5, <3>6 DEF CountsReal
  <2> QED
    BY <1>5, <2>1, <2>2 DEF Dispatched
<1> QED
  BY <1>1, <1>2, <1>3, <1>4, <1>5

-----------------------------------------------------------------------------
(* The invariant *)

LEMMA InvInit == Init => SpoolInv
<1> SUFFICES ASSUME Init PROVE SpoolInv
  OBVIOUS
<1>1. TypeOK /\ Identity /\ DrainBegins
  BY TypeInit, IdentityInit
<1>2. \A p \in Procs : Blank(proc[p]) /\ proc[p].pc = "idle"
  BY IdleIsBlank DEF Init
<1>3. \A x, y \in spool : x = y
  BY SpoolAssumption DEF Init
<1>4. hist.spooled = spool /\ sidecar = {} /\ retry = NoCounts /\ hist.fails = NoCounts
  BY DEF Init
<1>5. delivered = {}
  BY DEF Init
<1> QED
  BY <1>1, <1>2, <1>3, <1>4, <1>5, SpoolAssumption
  DEF SpoolInv, FileOrder, Ordered, PairDue, PairInOrder, Blank, ReplayedWritten, Marked,
      Purged, SpooledIsSafe, Held, CountsReal, QuarantineForCause, NoCounts

LEMMA InvStep == SpoolInv /\ [Next]_svars => SpoolInv'
<1> SUFFICES ASSUME SpoolInv, [Next]_svars PROVE SpoolInv'
  OBVIOUS
<1>1. TypeOK'
  BY TypeStep DEF SpoolInv
<1>2. CASE Shaped
  BY <1>1, <1>2, IdentityStep, OrderStep, PairStep, ReplayedStep, CommitStep, SafeStep,
     CountStep DEF SpoolInv
<1>3. CASE UNCHANGED <<spool, ahead, sidecar, retry, proc, delivered, hist>>
  BY <1>1, <1>3
  DEF SpoolInv, Identity, DrainBegins, FileOrder, Ordered, PairDue, PairInOrder,
      ReplayedWritten, Written, Marked, Purged, SpooledIsSafe, Held, CountsReal,
      QuarantineForCause
<1> QED
  BY <1>2, <1>3, StepShape DEF SpoolInv

LEMMA Invariant == Spec => []SpoolInv
<1> QED
  BY InvInit, InvStep, PTL DEF Spec

\* Types, for any number of processes and writes.
THEOREM TypeCorrect == Spec => []TypeOK
<1>1. SpoolInv => TypeOK
  BY DEF SpoolInv
<1> QED
  BY <1>1, Invariant, PTL

\* At-least-once: no interleaving of drains, appends, crashes and failed file
\* writes loses a write that was answered SPOOLED.
THEOREM NothingSpooledIsLost == Spec => []SpooledIsSafe
<1>1. SpoolInv => SpooledIsSafe
  BY DEF SpoolInv
<1> QED
  BY <1>1, Invariant, PTL

\* The server never takes a write ahead of the session_start of its unit.
THEOREM RecordsInOrder == Spec => []PairInOrder
<1>1. SpoolInv => PairInOrder
  BY DEF SpoolInv
<1> QED
  BY <1>1, Invariant, PTL

\* A unit is set aside only for failures that happened.
THEOREM QuarantinedForCause == Spec => []QuarantineForCause
<1>1. SpoolInv => QuarantineForCause
  BY DEF SpoolInv
<1> QED
  BY <1>1, Invariant, PTL

\* A pass that worked on an old snapshot takes no unit's count back.
THEOREM CountsGrow == Spec => RetryNeverRegresses
<1>1. ASSUME SpoolInv, [Next]_svars
      PROVE  \A u \in IdsOf(spool) \cap IdsOf(spool') : retry'[u] >= retry[u]
  <2>1. TypeOK /\ CountTypes
    BY <1>1, CountTyped DEF SpoolInv
  <2>2. CASE retry' = retry
    BY <2>1, <2>2 DEF CountTypes, TypeOK, IdsOf, Unit
  <2>3. ASSUME NEW p \in Procs, CommitRetry(p)
        PROVE  \A u \in IdsOf(spool) : retry'[u] >= retry[u]
    <3> SUFFICES ASSUME NEW u \in IdsOf(spool) PROVE retry'[u] >= retry[u]
      OBVIOUS
    <3>1. u \in Ids
      BY <2>1 DEF TypeOK, IdsOf, Unit
    <3>2. /\ retry[u] \in 0 .. Threshold /\ proc[p].prior[u] \in 0 .. Threshold
          /\ retry'[u] = Merged(proc[p], u)
      BY <2>1, <2>3, <3>1 DEF CountTypes, CommitRetry
    <3>3. CASE u \in proc[p].failed
      BY <3>2, <3>3 DEF Merged, Count
    <3>4. CASE u \notin proc[p].failed
      BY <3>2, <3>4 DEF Merged
    <3> QED
      BY <3>3, <3>4
  <2>4. Shaped => retry' = retry \/ \E p \in Procs : CommitRetry(p)
    BY <2>1, SnapshotShape DEF Shaped, Ended, WentOn, WroteUnit, Parked, Dispatched
  <2> QED
    BY <1>1, <2>1, <2>2, <2>3, <2>4, StepShape
<1>2. SpoolInv /\ [Next]_svars
        => [\A u \in IdsOf(spool) \cap IdsOf(spool') : retry'[u] >= retry[u]]_svars
  BY <1>1
<1> QED
  BY <1>2, Invariant, PTL DEF Spec, RetryNeverRegresses

-----------------------------------------------------------------------------
(* The spool implements DurableDelivery *)

Taken == {r \in Unit \X {1, 2} : <<r[1].id, r[2]>> \in delivered}

\* A commit is one settlement, or nothing to see.
LEMMA CommitSettles ==
    ASSUME SpoolInv, TypeOK', NEW p \in Procs, hist' = hist, delivered' = delivered,
           CommitSidecar(p) \/ CommitReconcile(p) \/ CommitSpool(p)
    PROVE  [Delivery!Next]_Delivery!dvars
<1> DEFINE parked == sidecar \ spool
           done == hist.spooled \ Held
<1>0. /\ spool \subseteq hist.spooled /\ sidecar \subseteq hist.spooled
      /\ hist.spooled \subseteq Unit
  BY DEF SpoolInv, Identity, TypeOK
<1>1. Taken' = Taken
  BY DEF Taken
<1>2. ASSUME NEW gone, gone \subseteq spool \cup parked, NEW aside, aside \subseteq spool \ gone,
             \A x \in gone : Written(x),
             spool' = spool \ (gone \cup aside),
             parked' = (parked \ gone) \cup aside,
             done' = done \cup gone
      PROVE  Delivery!Next
  <2>1. \A x \in gone : \A i \in 1 .. [y \in Unit |-> y.size][x] : <<x, i>> \in Taken
    <3> SUFFICES ASSUME NEW x \in gone, NEW i \in 1 .. [y \in Unit |-> y.size][x]
                 PROVE  <<x, i>> \in Taken
      OBVIOUS
    <3>1. x \in Unit /\ [y \in Unit |-> y.size][x] = x.size /\ x.size \in {1, 2}
      BY <1>0, <1>2 DEF Unit
    <3>2. <<x.id, i>> \in delivered /\ i \in {1, 2}
      BY <1>2, <3>1 DEF Written
    <3> QED
      BY <3>1, <3>2 DEF Taken
  <2>2. Delivery!Settle(gone, aside)
    BY <1>1, <1>2, <2>1 DEF Delivery!Settle, Taken
  <2> QED
    BY <1>2, <2>2 DEF Delivery!Next
<1>3. CASE CommitSidecar(p)
  <2>1. spool' = spool /\ parked' = parked /\ done' = done
    BY <1>3 DEF CommitSidecar, Held
  <2> QED
    BY <1>1, <2>1 DEF Delivery!dvars, Taken
<1>4. CASE CommitReconcile(p)
  <2> DEFINE gone == {x \in parked : x.id \in proc[p].replayed}
  <2>1. \A x \in gone : Written(x)
    BY <1>0 DEF SpoolInv, ReplayedWritten
  <2>2. spool' = spool /\ parked' = parked \ gone
    BY <1>4 DEF CommitReconcile
  <2>3. done' = done \cup gone
    BY <1>0, <1>4 DEF CommitReconcile, Held
  <2> HIDE DEF gone
  <2>4. gone \subseteq spool \cup parked /\ gone \cap spool = {}
    BY DEF gone
  <2>5. /\ {} \subseteq spool \ gone /\ spool' = spool \ (gone \cup {})
        /\ parked' = (parked \ gone) \cup {}
    BY <2>2, <2>4
  <2> HIDE DEF parked, done
  <2> QED
    BY <1>2, <2>1, <2>3, <2>4, <2>5
<1>5. CASE CommitSpool(p)
  <2> DEFINE gone == (spool \ spool') \ sidecar
             aside == (spool \ spool') \cap sidecar
  <2>1. spool' \subseteq spool /\ sidecar' = sidecar
    BY <1>5 DEF CommitSpool, Remaining
  <2>2. \A x \in gone : Written(x)
    BY <1>5, <2>1, LetGo DEF SpoolInv, Held
  <2>3. /\ gone \subseteq spool \cup parked /\ aside \subseteq spool \ gone
        /\ spool' = spool \ (gone \cup aside)
        /\ parked' = (parked \ gone) \cup aside
        /\ done' = done \cup gone
    BY <1>0, <2>1 DEF Held
  <2> QED
    BY <1>2, <2>2, <2>3
<1> QED
  BY <1>3, <1>4, <1>5

LEMMA StepDelivers ==
    ASSUME SpoolInv, [Next]_svars
    PROVE  [Delivery!Next]_Delivery!dvars
<1>0. TypeOK /\ TypeOK'
  BY TypeStep DEF SpoolInv
<1>1. UNCHANGED <<spool, sidecar, delivered, hist>> => [Delivery!Next]_Delivery!dvars
  BY DEF Delivery!dvars, Held
<1>2. ASSUME UNCHANGED <<spool, sidecar>>, hist'.spooled = hist.spooled,
             delivered \subseteq delivered'
      PROVE  [Delivery!Next]_Delivery!dvars
  <2>1. Delivery!Deliver
    BY <1>2 DEF Delivery!Deliver, Held
  <2> QED
    BY <2>1 DEF Delivery!Next
<1>3. ASSUME NEW p \in Procs, NEW unit \in Unit, Parked(p, unit)
      PROVE  Delivery!Next
  <2>1. unit \notin hist.spooled /\ spool \subseteq hist.spooled /\ sidecar \subseteq hist.spooled
    BY <1>3 DEF Parked, SpoolInv, Identity
  <2>2. Delivery!TakeIn(unit)
    BY <1>3, <2>1 DEF Parked, Delivery!TakeIn, Held
  <2> QED
    BY <2>2 DEF Delivery!Next
<1>4. ASSUME NEW p \in Procs, WentOn(p)
      PROVE  [Delivery!Next]_Delivery!dvars
  <2>1. CASE UNCHANGED <<spool, sidecar>>
    BY <1>1, <1>4, <2>1 DEF WentOn
  <2>2. CASE CommitSidecar(p) \/ CommitReconcile(p) \/ CommitSpool(p)
    BY <1>0, <1>4, <2>2, CommitSettles DEF WentOn
  <2> QED
    BY <1>4, <2>1, <2>2 DEF WentOn
<1>5. ASSUME Shaped PROVE [Delivery!Next]_Delivery!dvars
  <2> PICK p \in Procs :
        \/ Ended(p) \/ WentOn(p) \/ Snapshot(p)
        \/ \E unit \in Unit : WroteUnit(p, unit) \/ Parked(p, unit)
        \/ \E x \in proc[p].todo : Dispatched(p, x)
    BY <1>5 DEF Shaped
  <2>1. delivered \subseteq delivered'
    BY <1>0, <1>5, WrittenStays
  <2>2. CASE ~WentOn(p) /\ ~\E unit \in Unit : Parked(p, unit)
    BY <1>0, <1>2, <2>1, <2>2, SnapshotShape DEF Ended, WroteUnit, Dispatched
  <2> QED
    BY <1>3, <1>4, <2>2
<1> QED
  BY <1>0, <1>1, <1>5, StepShape

\* The spool implements at-least-once delivery: whatever the interleaving, a
\* unit that is let go was delivered and is never held again.
THEOREM SpoolDelivers == Spec => DeliversAtLeastOnce
<1>1. Init => Delivery!Init
  <2> SUFFICES ASSUME Init PROVE Delivery!Init
    OBVIOUS
  <2>1. spool \subseteq Unit
    BY TypeInit DEF TypeOK
  <2> QED
    BY <2>1 DEF Init, Held, Delivery!Init
<1>2. SpoolInv /\ [Next]_svars => [Delivery!Next]_Delivery!dvars
  BY StepDelivers
<1> QED
  BY <1>1, <1>2, Invariant, PTL DEF Spec, DeliversAtLeastOnce, Delivery!Spec

(***************************************************************************)
(* The lock file.                                                          *)
(***************************************************************************)
\* No record of an owner, on disk or read earlier, is of a life still to come.
LivesInOrder ==
    /\ \A p \in Contenders : life[p] <= past.exits
    /\ lockFile # NoFile => lockFile.life <= life[lockFile.owner]
    /\ \A p \in Contenders : saw[p].file # NoFile
                          => saw[p].file.life <= life[saw[p].file.owner]

\* Until a live lock is renamed away, whoever is in a transaction owns the
\* file at the lock path.
HolderOwnsFile == ~past.stolen => \A p \in Contenders : Holding(p) => Mine(p)

Undisturbed == past.exits = 0 /\ past.ages = 0

\* With no process ended and no lock got old, nobody has evidence to recover.
NothingToRecover ==
    Undisturbed =>
        /\ ~past.stolen
        /\ lockFile # NoFile => ~lockFile.old
        /\ \A p \in Contenders : ~saw[p].old /\ pc[p] # "rename"

LockInv == LockTypeOK /\ LivesInOrder /\ HolderOwnsFile /\ NothingToRecover

\* A lock file is never taken for its absence.
LEMMA NoFileIsNoFile == NoFile \notin File
<1> SUFFICES ASSUME NoFile \in File PROVE FALSE OBVIOUS
<1>1. DOMAIN NoFile = {"owner"} BY DEF NoFile
<1>2. "life" \in DOMAIN NoFile BY DEF File
<1> QED BY <1>1, <1>2

LEMMA FileType ==
  ASSUME LockTypeOK
  PROVE  /\ lockFile # NoFile => lockFile \in File
         /\ \A p \in Contenders : saw[p].file # NoFile => saw[p].file \in File
         /\ \A p \in Contenders : saw[p] \in [old: BOOLEAN, file: File \cup {NoFile}]
         /\ \A p \in Contenders : life[p] \in Nat
         /\ past.exits \in Nat
BY LockAssumption DEF LockTypeOK

LEMMA LockBegins == LockInit => LockInv
BY LockAssumption, NoFileIsNoFile
DEF LockInit, LockInv, LockTypeOK, LivesInOrder, HolderOwnsFile, NothingToRecover, Holding,
    Nothing, Points, Undisturbed, Recoverable, Dead, File

(***************************************************************************)
(* The types, and the lives behind the records.                            *)
(***************************************************************************)
LEMMA LockTypeStep == LockInv /\ [LockNext]_lvars => LockTypeOK' /\ LivesInOrder'
<1> SUFFICES ASSUME LockInv, [LockNext]_lvars PROVE LockTypeOK' /\ LivesInOrder'
  OBVIOUS
<1> USE LockAssumption, NoFileIsNoFile
<1>0. LockTypeOK /\ LivesInOrder BY DEF LockInv
<1>1. CASE UNCHANGED lvars
  BY <1>0, <1>1 DEF lvars, LockTypeOK, LivesInOrder, Recoverable, Dead
<1>2. ASSUME NEW p \in Contenders,
             Acquire(p) \/ Retry(p) \/ Timeout(p) \/ LinkCollides(p) \/ StatMissing(p)
               \/ RenameFails(p) \/ JudgeOwner(p) \/ ReleaseReads(p)
      PROVE  LockTypeOK' /\ LivesInOrder'
  <2>1. UNCHANGED <<lockFile, saw, life, past>>
    BY <1>2 DEF Acquire, Retry, Timeout, LinkCollides, StatMissing, RenameFails,
                JudgeOwner, ReleaseReads
  <2>2. /\ pc' \in [Contenders -> Points]
        /\ \A q \in Contenders : pc'[q] = "rename" => pc[q] = "rename" \/ Recoverable(saw[q])
    BY <1>0, <1>2
    DEF Acquire, Retry, Timeout, LinkCollides, StatMissing, RenameFails,
        JudgeOwner, ReleaseReads, Go, LockTypeOK, Points
  <2> QED BY <1>0, <2>1, <2>2 DEF LockTypeOK, LivesInOrder, Recoverable, Dead
<1>3. ASSUME NEW p \in Contenders, LinkWins(p) PROVE LockTypeOK' /\ LivesInOrder'
  <2>1. lockFile' \in File /\ lockFile'.owner = p /\ lockFile'.life = life[p]
    BY <1>0, <1>3 DEF LinkWins, File, LockTypeOK
  <2> QED BY <1>0, <1>3, <2>1, FileType
          DEF LinkWins, Go, LockTypeOK, LivesInOrder, Points, Recoverable, Dead
<1>4. ASSUME NEW p \in Contenders, StatFound(p) \/ ReadOwner(p) PROVE LockTypeOK' /\ LivesInOrder'
  <2>1. UNCHANGED <<lockFile, life, past>>
    BY <1>4 DEF StatFound, ReadOwner
  <2>2. /\ pc' \in [Contenders -> Points]
        /\ \A q \in Contenders : pc'[q] = "rename" => q # p /\ pc[q] = "rename"
    BY <1>0, <1>4 DEF StatFound, ReadOwner, Go, LockTypeOK, Points
  <2>3. PICK s : /\ saw' = [saw EXCEPT ![p] = s]
                 /\ s \in [old: BOOLEAN, file: File \cup {NoFile}]
                 /\ s.file = NoFile \/ s.file = lockFile
    BY <1>0, <1>4, FileType DEF StatFound, ReadOwner, LockTypeOK, File
  <2>4. /\ saw' \in [Contenders -> [old: BOOLEAN, file: File \cup {NoFile}]]
        /\ saw'[p] = s
        /\ \A q \in Contenders \ {p} : saw'[q] = saw[q]
    BY <1>0, <2>3 DEF LockTypeOK
  <2>5. LockTypeOK'
    BY <1>0, <2>1, <2>2, <2>4 DEF LockTypeOK, Recoverable, Dead
  <2> QED BY <1>0, <2>1, <2>3, <2>4, <2>5 DEF LivesInOrder
<1>5. ASSUME NEW p \in Contenders, RenameFile(p) \/ ReleaseUnlinks(p)
      PROVE  LockTypeOK' /\ LivesInOrder'
  <2>1. /\ lockFile' = NoFile /\ UNCHANGED <<saw, life>>
        /\ past' \in [exits: 0 .. MaxExits, ages: 0 .. MaxAges, stolen: BOOLEAN]
        /\ past'.exits = past.exits
    BY <1>0, <1>5 DEF RenameFile, ReleaseUnlinks, LockTypeOK, Dead
  <2>2. /\ pc' \in [Contenders -> Points]
        /\ \A q \in Contenders : pc'[q] = "rename" => pc[q] = "rename"
    BY <1>0, <1>5 DEF RenameFile, ReleaseUnlinks, Go, LockTypeOK, Points
  <2> QED BY <1>0, <2>1, <2>2 DEF LockTypeOK, LivesInOrder, Recoverable, Dead
<1>6. ASSUME NEW p \in Contenders, Exit(p) PROVE LockTypeOK' /\ LivesInOrder'
  <2>1. /\ life[p] \in Nat /\ life[p] <= past.exits
        /\ past.exits \in Nat /\ past.exits < MaxExits
    BY <1>0, <1>6, FileType DEF LivesInOrder, Exit
  <2>2. /\ life' \in [Contenders -> 0 .. MaxExits]
        /\ life'[p] = life[p] + 1
        /\ \A q \in Contenders \ {p} : life'[q] = life[q]
    BY <1>0, <1>6, <2>1 DEF Exit, LockTypeOK
  <2>3. /\ past' \in [exits: 0 .. MaxExits, ages: 0 .. MaxAges, stolen: BOOLEAN]
        /\ past'.exits = past.exits + 1
    BY <1>0, <1>6, <2>1 DEF Exit, LockTypeOK
  <2>4. /\ saw' \in [Contenders -> [old: BOOLEAN, file: File \cup {NoFile}]]
        /\ saw'[p] = Nothing
        /\ \A q \in Contenders \ {p} : saw'[q] = saw[q]
    BY <1>0, <1>6 DEF Exit, LockTypeOK, Nothing
  <2>5. /\ pc' \in [Contenders -> Points]
        /\ \A q \in Contenders : pc'[q] = "rename" => q # p /\ pc[q] = "rename"
    BY <1>0, <1>6 DEF Exit, LockTypeOK, Points
  <2>6. lockFile' = lockFile BY <1>6 DEF Exit
  <2>7. ASSUME NEW file \in File, file.life <= life[file.owner]
        PROVE  /\ file.life <= life'[file.owner]
               /\ Dead(file) => Dead(file)'
    <3>1. file.owner \in Contenders /\ file.life \in Nat BY LockAssumption DEF File
    <3>2. life[file.owner] \in Nat /\ life'[file.owner] \in Nat
      BY <1>0, <2>2, <3>1 DEF LockTypeOK
    <3>3. life'[file.owner] = life[file.owner] \/ life'[file.owner] = life[file.owner] + 1
      BY <2>2, <3>1
    <3> QED BY <2>7, <3>1, <3>2, <3>3 DEF Dead
  <2>8. LivesInOrder'
    <3>1. \A q \in Contenders : life'[q] <= past'.exits
      BY <1>0, <2>1, <2>2, <2>3, FileType DEF LivesInOrder
    <3>2. lockFile # NoFile => lockFile.life <= life'[lockFile.owner]
      BY <1>0, <2>7, FileType DEF LivesInOrder
    <3>3. ASSUME NEW q \in Contenders, saw'[q].file # NoFile
          PROVE  saw'[q].file.life <= life'[saw'[q].file.owner]
      <4>1. q # p BY <2>4, <3>3 DEF Nothing
      <4> QED BY <1>0, <2>4, <2>7, <3>3, <4>1, FileType DEF LivesInOrder
    <3> QED BY <2>6, <3>1, <3>2, <3>3 DEF LivesInOrder
  <2>9. ASSUME NEW q \in Contenders, pc'[q] = "rename" PROVE Recoverable(saw[q])'
    <3>1. q # p /\ pc[q] = "rename" BY <2>5, <2>9
    <3>2. Recoverable(saw[q]) BY <1>0, <3>1 DEF LockTypeOK
    <3>3. saw'[q] = saw[q] BY <2>4, <3>1
    <3>4. Dead(saw[q].file) => Dead(saw[q].file)'
      <4>1. CASE saw[q].file = NoFile BY <4>1 DEF Dead
      <4>2. CASE saw[q].file # NoFile
        <5>1. saw[q].file \in File /\ saw[q].file.life <= life[saw[q].file.owner]
          BY <1>0, <4>2, FileType DEF LivesInOrder
        <5> QED BY <2>7, <3>3, <5>1 DEF Dead
      <4> QED BY <4>1, <4>2
    <3> QED BY <3>2, <3>3, <3>4 DEF Recoverable
  <2> QED BY <1>0, <2>2, <2>3, <2>4, <2>5, <2>6, <2>8, <2>9 DEF LockTypeOK
<1>7. CASE Age
  <2>1. /\ lockFile' \in File
        /\ lockFile'.owner = lockFile.owner /\ lockFile'.life = lockFile.life
    BY <1>0, <1>7, FileType DEF Age, File
  <2>2. /\ past' \in [exits: 0 .. MaxExits, ages: 0 .. MaxAges, stolen: BOOLEAN]
        /\ past'.exits = past.exits
    BY <1>0, <1>7 DEF Age, LockTypeOK
  <2> QED BY <1>0, <1>7, <2>1, <2>2 DEF Age, LockTypeOK, LivesInOrder, Recoverable, Dead
<1> QED BY <1>1, <1>2, <1>3, <1>4, <1>5, <1>6, <1>7 DEF LockNext

(***************************************************************************)
(* Who is in a transaction.                                                *)
(***************************************************************************)
LEMMA HolderStep == LockInv /\ [LockNext]_lvars => HolderOwnsFile'
<1> SUFFICES ASSUME LockInv, [LockNext]_lvars, ~past'.stolen, NEW q \in Contenders, Holding(q)'
             PROVE  Mine(q)'
  BY DEF HolderOwnsFile
<1> USE NoFileIsNoFile
<1>0. LockTypeOK /\ LivesInOrder /\ HolderOwnsFile BY DEF LockInv
<1>1. CASE UNCHANGED lvars
  BY <1>0, <1>1 DEF lvars, HolderOwnsFile, Holding, Mine
<1>2. ASSUME NEW p \in Contenders,
             Acquire(p) \/ Retry(p) \/ Timeout(p) \/ LinkCollides(p) \/ StatMissing(p)
               \/ RenameFails(p) \/ JudgeOwner(p) \/ StatFound(p) \/ ReadOwner(p)
      PROVE  Mine(q)'
  <2>1. UNCHANGED <<lockFile, life, past>> /\ (Holding(q)' => Holding(q))
    BY <1>0, <1>2 DEF Acquire, Retry, Timeout, LinkCollides, StatMissing, RenameFails,
      JudgeOwner, StatFound, ReadOwner, Go, LockTypeOK, Holding
  <2> QED BY <1>0, <2>1 DEF HolderOwnsFile, Mine
<1>3. ASSUME NEW p \in Contenders, LinkWins(p) PROVE Mine(q)'
  <2>1. q = p
    BY <1>0, <1>3 DEF LinkWins, Go, LockTypeOK, Holding, HolderOwnsFile, Mine
  <2>2. lockFile' \in File BY <1>0, <1>3 DEF LinkWins, File, LockTypeOK
  <2> QED BY <1>3, <2>1, <2>2 DEF LinkWins, Mine
<1>4. ASSUME NEW p \in Contenders, ReleaseReads(p) PROVE Mine(q)'
  BY <1>0, <1>4 DEF ReleaseReads, LockTypeOK, Holding, HolderOwnsFile, Mine
<1>5. ASSUME NEW p \in Contenders, ReleaseUnlinks(p) PROVE Mine(q)'
  <2>1. q # p /\ Holding(q) /\ Holding(p) /\ ~past.stolen
    BY <1>0, <1>5 DEF ReleaseUnlinks, Go, LockTypeOK, Holding
  <2> QED BY <1>0, <2>1 DEF HolderOwnsFile, Mine
<1>6. ASSUME NEW p \in Contenders, RenameFile(p) PROVE Mine(q)'
  <2>1. Holding(q) /\ ~past.stolen /\ Dead(lockFile)
    BY <1>0, <1>6 DEF RenameFile, Go, LockTypeOK, Holding
  <2>2. Mine(q) BY <1>0, <2>1 DEF HolderOwnsFile
  <2> QED BY <2>1, <2>2 DEF Mine, Dead
<1>7. ASSUME NEW p \in Contenders, Exit(p) PROVE Mine(q)'
  <2>1. q # p /\ Holding(q) /\ ~past.stolen
    BY <1>0, <1>7 DEF Exit, LockTypeOK, Holding
  <2> QED BY <1>0, <1>7, <2>1 DEF HolderOwnsFile, Mine, Exit, LockTypeOK
<1>8. CASE Age
  <2>1. Holding(q) /\ ~past.stolen BY <1>0, <1>8 DEF Age, Holding, LockTypeOK
  <2>2. Mine(q) BY <1>0, <2>1 DEF HolderOwnsFile
  <2>3. lockFile' \in File /\ lockFile'.owner = lockFile.owner
        /\ lockFile'.life = lockFile.life
    BY <1>0, <1>8, FileType DEF Age, File
  <2> QED BY <1>8, <2>2, <2>3 DEF Mine, Age
<1> QED BY <1>1, <1>2, <1>3, <1>4, <1>5, <1>6, <1>7, <1>8 DEF LockNext

(***************************************************************************)
(* The link and the unlink alone.                                          *)
(***************************************************************************)
\* With no process ended, every owner on record is alive.
LEMMA AllAlive ==
  ASSUME LockTypeOK, LivesInOrder, past.exits = 0
  PROVE  ~Dead(lockFile) /\ \A p \in Contenders : ~Dead(saw[p].file)
<1>1. ASSUME NEW p \in Contenders PROVE life[p] = 0
  <2>1. life[p] \in Nat BY FileType
  <2>2. life[p] <= 0 BY DEF LivesInOrder
  <2> QED BY <2>1, <2>2
<1>2. \A file \in File : file.owner \in Contenders /\ file.life \in Nat
  BY LockAssumption DEF File
<1> QED BY <1>1, <1>2, FileType DEF LivesInOrder, Dead

LEMMA RecoverStep == LockInv /\ [LockNext]_lvars => NothingToRecover'
<1> SUFFICES ASSUME LockInv, [LockNext]_lvars, Undisturbed' PROVE
      /\ ~past'.stolen
      /\ lockFile' # NoFile => ~lockFile'.old
      /\ \A p \in Contenders : ~saw'[p].old /\ pc'[p] # "rename"
  BY DEF NothingToRecover
<1> USE NoFileIsNoFile
<1>0. LockTypeOK /\ LivesInOrder BY DEF LockInv
<1>1. Undisturbed /\ ~Age /\ \A p \in Contenders : ~Exit(p)
  BY <1>0, LockAssumption DEF Undisturbed, LockTypeOK, lvars, LockNext, Acquire, Retry, Timeout,
     LinkWins, LinkCollides, StatMissing, StatFound, ReadOwner, JudgeOwner, RenameFile,
     RenameFails, ReleaseReads, ReleaseUnlinks, Age, Exit
<1>2. /\ ~past.stolen
      /\ lockFile # NoFile => ~lockFile.old
      /\ \A p \in Contenders : ~saw[p].old /\ pc[p] # "rename"
  BY <1>1 DEF LockInv, NothingToRecover
<1>3. \A p \in Contenders : ~Recoverable(saw[p])
  BY <1>0, <1>1, <1>2, AllAlive DEF Recoverable, Undisturbed
<1>4. CASE UNCHANGED lvars BY <1>2, <1>4 DEF lvars
<1>5. ASSUME NEW p \in Contenders,
             Acquire(p) \/ Retry(p) \/ Timeout(p) \/ LinkCollides(p) \/ StatMissing(p)
               \/ ReleaseReads(p) \/ ReleaseUnlinks(p) \/ JudgeOwner(p) \/ LinkWins(p)
      PROVE  /\ saw' = saw /\ past' = past
             /\ lockFile' # NoFile => lockFile' = lockFile \/ lockFile'.old = FALSE
             /\ \A q \in Contenders : pc'[q] # "rename"
  BY <1>0, <1>2, <1>3, <1>5 DEF Acquire, Retry, Timeout, LinkCollides, StatMissing,
     ReleaseReads, ReleaseUnlinks, JudgeOwner, LinkWins, Go, LockTypeOK
<1>6. ASSUME NEW p \in Contenders, StatFound(p) \/ ReadOwner(p)
      PROVE  /\ lockFile' = lockFile /\ past' = past
             /\ \A q \in Contenders : ~saw'[q].old /\ pc'[q] # "rename"
  BY <1>0, <1>2, <1>6 DEF StatFound, ReadOwner, Go, LockTypeOK
<1>7. \A p \in Contenders : ~RenameFile(p) /\ ~RenameFails(p)
  BY <1>2 DEF RenameFile, RenameFails, Go
<1> QED BY <1>1, <1>2, <1>4, <1>5, <1>6, <1>7 DEF LockNext

LEMMA LockInductive == LockSpec => []LockInv
<1>1. LockInv /\ [LockNext]_lvars => LockInv'
  BY LockTypeStep, HolderStep, RecoverStep DEF LockInv
<1> QED BY <1>1, LockBegins, PTL DEF LockSpec

(***************************************************************************)
(* The theorems.                                                           *)
(***************************************************************************)
LEMMA HoldersMeet == ASSUME LockInv, ~past.stolen PROVE AtMostOne
BY DEF LockInv, HolderOwnsFile, AtMostOne, Mine

\* Every variable keeps its type, and a lock is renamed away only on evidence.
THEOREM LockTypeCorrect == LockSpec => []LockTypeOK
<1>1. LockInv => LockTypeOK BY DEF LockInv
<1> QED BY <1>1, LockInductive, PTL

\* acquireLock and releaseLock keep any number of processes apart while none
\* of them ends and no transaction exceeds lockStaleMs, and beyond that until
\* recoverDeadOrStaleLock renames a live owner's lock away.
THEOREM LockIsExclusive == LockSpec => []Exclusive
<1>1. LockInv => Exclusive
  BY HoldersMeet DEF LockInv, NothingToRecover, Undisturbed, Exclusive
<1> QED BY <1>1, LockInductive, PTL
=============================================================================
