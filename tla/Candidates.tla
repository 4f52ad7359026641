----------------------------- MODULE Candidates -----------------------------
(***************************************************************************)
(* Candidate memories: REM passes that merge near-duplicates and then      *)
(* grade by machine, the operator's batch grading with ungrade and undo,   *)
(* promotion of what the operator approved, and the DREAM route that pays  *)
(* a classifier and commits its answers.                                   *)
(*                                                                         *)
(* One namespace. Candidates are numbered in the order (said_at, id) that  *)
(* dedupe sorts by. Every SQL statement that stands alone is one step, and *)
(* so is every transaction from its first row lock on: what was read       *)
(* before the lock may be stale in it. The operator submits, ungrades and  *)
(* undoes one at a time; passes and route jobs overlap, because the queue  *)
(* delivers a job whose lease expired to a second execution.               *)
(***************************************************************************)
EXTENDS Integers, FiniteSets

CONSTANTS
    Candidates,   \* candidate ids
    Text,         \* content hash of each
    Parent,       \* the head of the split exchange a part belongs to, or None
    Position,     \* where its embedding lies; near-duplicates are close
    MaxDistance,  \* CANDIDATE_DUP_DISTANCE
    Exact,        \* TRUE: the vector index always finds the nearest neighbour
    BatchSize,    \* dedupe looks at the newest BatchSize candidates
    MaxSteps,     \* bound of its walk along a chain of duplicates
    SliceSize,    \* candidates a route job reads
    Passes,       \* executions of dream.rem
    Routers,      \* executions of dream.route
    Verdicts,     \* what the operator answers; "promoted" is one
    Actions,      \* what a routing decision may write: "thought", "rule_event", "none"
    MaxWork       \* bound: grades given, passes and route jobs started

None == 0        \* no candidate, no run
Open == "open"   \* reviewed_at IS NULL

ASSUME CandidatesAssumption ==
    /\ Candidates \subseteq Nat \ {None} /\ IsFiniteSet(Candidates)
    /\ DOMAIN Text = Candidates
    /\ Parent \in [Candidates -> Candidates \cup {None}]
    /\ \A c \in Candidates : Parent[c] < c
    /\ Position \in [Candidates -> Nat]
    /\ Exact \in BOOLEAN
    /\ {MaxDistance, BatchSize, MaxSteps, SliceSize, MaxWork} \subseteq Nat
    /\ Open \notin Verdicts
    /\ Actions \subseteq {"thought", "rule_event", "none"}

VARIABLES
    written,    \* candidates that were ever inserted
    present,    \* the rows of candidate_memory
    review,     \* review_action, Open while reviewed_at IS NULL
    machine,    \* rows whose machine_grade is set
    reinf,      \* candidate_reinforcement
    grades,     \* candidate_grade
    work,       \* grades given, passes and route jobs so far; numbers the batches
    pass,       \* what each REM pass is doing
    route,      \* what each route job is doing
    decisions,  \* routing_decisions
    entries     \* thoughts and rule events written, with the tier move

tables == <<written, present, review, machine, reinf, grades>>
vars == <<tables, work, pass, route, decisions, entries>>

IdlePass == [pc |-> "idle", pairs |-> {}, rows |-> {}]
IdleRoute == [pc |-> "idle", slice |-> {}]

Init ==
    /\ written = {} /\ present = {}
    /\ review = [c \in Candidates |-> Open]
    /\ machine = {} /\ reinf = {} /\ grades = {}
    /\ work = 0
    /\ pass = [p \in Passes |-> IdlePass]
    /\ route = [j \in Routers |-> IdleRoute]
    /\ decisions = {} /\ entries = {}

Work(n) == work + n <= MaxWork /\ work' = work + n

Heads == {c \in Candidates : Parent[c] = None}
Unreviewed == {c \in present : review[c] = Open}

\* Distillation inserts a candidate; equal content is left to the row there is,
\* and a part needs the row of its head.
Insert(c) ==
    /\ c \notin written /\ \A d \in Candidates : d < c => d \in written
    /\ \A d \in present : Text[d] # Text[c]
    /\ Parent[c] \in present \cup {None}
    /\ written' = written \cup {c}
    /\ present' = present \cup {c}
    /\ UNCHANGED <<review, machine, reinf, grades, work, pass, route, decisions, entries>>

(***************************************************************************)
(* A REM pass: runCandidateDedupe, then runRemGrading.                     *)
(***************************************************************************)
Distance(c, d) ==
    IF Position[c] < Position[d] THEN Position[d] - Position[c] ELSE Position[c] - Position[d]

Older(d) == {c \in Unreviewed : c < d}

\* The rows the index may answer as the older neighbour of d.
Neighbours(d) ==
    {s \in Older(d) :
        /\ Distance(s, d) <= MaxDistance
        /\ Exact => \A o \in Older(d) : Distance(s, d) <= Distance(o, d)}

\* dups: the newest unreviewed ones
Newest == {c \in Unreviewed : Cardinality({d \in Unreviewed : d > c}) < BatchSize}

\* nearest: an edge from a duplicate to its neighbour; an approximate index
\* may miss one.
EdgesOf(D) == {f \in [D -> Unreviewed] : \A d \in D : f[d] \in Neighbours(d)}
Edges ==
    LET paired == {d \in Newest : Neighbours(d) # {}}
    IN  UNION {EdgesOf(D) : D \in IF Exact THEN {paired} ELSE SUBSET paired}

\* walk: the edge of d, and at most MaxSteps edges from there.
Walk(edge, d) ==
    LET at[n \in 0 .. MaxSteps] ==
            IF n = 0 THEN edge[d]
            ELSE IF at[n - 1] \in DOMAIN edge THEN edge[at[n - 1]]
            ELSE at[n - 1]
    IN  at

\* terminal: where the walk ends, for a short chain a row that is nobody's duplicate
Terminal_Nearest(edge) == edge
Terminal(edge) == [d \in DOMAIN edge |-> Walk(edge, d)[MaxSteps]]

Pair(dup, survivor) == [dup |-> dup, survivor |-> survivor]

\* CANDIDATE_MERGE_PAIRS_SQL reads without locks.
SelectMergePairs(p) ==
    /\ pass[p].pc = "idle"
    /\ Work(1)
    /\ \E edge \in Edges :
          pass' = [pass EXCEPT ![p] =
                     [IdlePass EXCEPT !.pc = "merge",
                                      !.pairs = {Pair(d, Terminal(edge)[d]) : d \in DOMAIN edge}]]
    /\ UNCHANGED <<tables, route, decisions, entries>>

\* DELETE ... AND reviewed_at IS NULL, and the parts of a deleted head go with it.
Removed_Regardless(pairs) ==
    LET dups == {x.dup : x \in pairs} \cap present
    IN  dups \cup {c \in present : Parent[c] \in dups}
Removed(pairs) ==
    LET dups == {x.dup : x \in pairs} \cap Unreviewed
    IN  dups \cup {c \in present : Parent[c] \in dups}

\* lockPairRows and applyMerge for every pair, in no particular order.
\* Reinforcement, grades and parts reference a candidate ON DELETE CASCADE: a
\* survivor that is deleted with the head it is a part of, or at the end of a
\* walk cut short, takes what was recorded of it along.
Merge(p) ==
    LET gone == Removed(pass[p].pairs)
        rows == {[survivor |-> x.survivor, text |-> Text[x.dup]] : x \in pass[p].pairs}
    IN  /\ pass[p].pc = "merge"
        /\ \A x \in pass[p].pairs : x.survivor \in present
        /\ present' = present \ gone
        /\ review' = [c \in Candidates |-> IF c \in gone THEN Open ELSE review[c]]
        /\ machine' = machine \ gone
        /\ reinf' = {r \in reinf \cup rows : r.survivor \notin gone}
        /\ grades' = {g \in grades : g.candidate \notin gone}
        /\ pass' = [pass EXCEPT ![p] = [IdlePass EXCEPT !.pc = "select"]]
        /\ UNCHANGED <<written, work, route, decisions, entries>>

\* Recording a duplicate of a row that another pass deleted, or an earlier pair of
\* this one, violates the foreign key and undoes the pass.
MergeViolatesKey(p) ==
    /\ pass[p].pc = "merge"
    /\ \E x \in pass[p].pairs :
          x.survivor \notin present \/ x.survivor \in Removed(pass[p].pairs)
    /\ pass' = [pass EXCEPT ![p] = IdlePass]
    /\ UNCHANGED <<tables, work, route, decisions, entries>>

\* selectUngradedCandidates
SelectUngraded(p) ==
    /\ pass[p].pc = "select"
    /\ pass' = [pass EXCEPT ![p] = [IdlePass EXCEPT !.pc = "grade", !.rows = Unreviewed \ machine]]
    /\ UNCHANGED <<tables, work, route, decisions, entries>>

\* storeMachineGrade: the guards are restated in the UPDATE of each row.
Gradable_AsSelected == present
Gradable == Unreviewed \ machine

StoreMachineGrade(p) ==
    /\ pass[p].pc = "grade"
    /\ \E c \in pass[p].rows :
          /\ \A d \in pass[p].rows : c <= d
          /\ machine' = machine \cup ({c} \cap Gradable)
          /\ pass' = [pass EXCEPT ![p].rows = @ \ {c}]
    /\ UNCHANGED <<written, present, review, reinf, grades, work, route, decisions, entries>>

PassEnds(p) ==
    /\ pass[p].pc = "grade" /\ pass[p].rows = {}
    /\ pass' = [pass EXCEPT ![p] = IdlePass]
    /\ UNCHANGED <<tables, work, route, decisions, entries>>

\* A statement throws or the process dies; the queue runs the pass again.
PassFails(p) ==
    /\ pass[p].pc # "idle"
    /\ pass' = [pass EXCEPT ![p] = IdlePass]
    /\ UNCHANGED <<tables, work, route, decisions, entries>>

(***************************************************************************)
(* The operator: submitGradeBatch, ungradeCandidate and undoBatch.         *)
(***************************************************************************)
\* applyGrade for every item: the columns, the live grade superseded, the new one.
SubmitBatch ==
    /\ \E S \in (SUBSET present) \ {{}} : \E verdict \in [S -> Verdicts] :
          /\ Work(Cardinality(S))
          /\ review' = [c \in Candidates |-> IF c \in S THEN verdict[c] ELSE review[c]]
          /\ grades' =
                {[g EXCEPT !.live = @ /\ g.candidate \notin S] : g \in grades} \cup
                {[candidate |-> c, batch |-> work', verdict |-> verdict[c], live |-> TRUE] :
                    c \in S}
    /\ UNCHANGED <<written, present, machine, reinf, pass, route, decisions, entries>>

\* Only the columns of the candidate are cleared: its grade stays live.
Ungrade(c) ==
    /\ review[c] # Open
    /\ review' = [review EXCEPT ![c] = Open]
    /\ UNCHANGED <<written, present, machine, reinf, grades, work, pass, route, decisions, entries>>

\* restoreSuperseded: the latest superseded grade of each candidate
Restored(kept, S) ==
    {g \in kept :
        /\ g.candidate \in S /\ ~g.live
        /\ \A h \in kept : h.candidate = g.candidate /\ ~h.live => h.batch <= g.batch}

\* idx_candidate_grade_current
OneLive(rows) ==
    \A g, h \in rows : g.live /\ h.live /\ g.candidate = h.candidate => g = h

\* reconcileCandidates: the verdict of the live grade, or none
LiveVerdict(rows, c) ==
    LET live == {g \in rows : g.candidate = c /\ g.live}
    IN  IF live = {} THEN Open ELSE (CHOOSE g \in live : TRUE).verdict

Reconciled_RestoredOnly(rows, S) ==
    [c \in Candidates |->
        IF c \in S /\ LiveVerdict(rows, c) # Open THEN LiveVerdict(rows, c) ELSE review[c]]
Reconciled(rows, S) ==
    [c \in Candidates |-> IF c \in S THEN LiveVerdict(rows, c) ELSE review[c]]

\* Undoing a batch whose grade was superseded by one that is live, and that had
\* superseded one itself, would make two live: the transaction is undone.
UndoBatch(b) ==
    LET mine == {g \in grades : g.batch = b}
        S == {g.candidate : g \in mine}
        kept == grades \ mine
        back == Restored(kept, S)
        rows == (kept \ back) \cup {[g EXCEPT !.live = TRUE] : g \in back}
    IN  /\ mine # {}
        /\ OneLive(rows)
        /\ grades' = rows
        /\ review' = Reconciled(rows, S)
        /\ UNCHANGED <<written, present, machine, reinf, work, pass, route, decisions, entries>>

(***************************************************************************)
(* What leaves the table: promotion by the operator, and the route.        *)
(***************************************************************************)
Entry(kind, c, run) == [kind |-> kind, text |-> Text[c], candidate |-> c, run |-> run]

\* thoughts are unique per content hash, rule events per lane and content hash
Taken(kind, c) == \E e \in entries : e.kind = kind /\ e.text = Text[c]

\* promoteReviewedCandidate
Promote(c) ==
    /\ review[c] = "promoted"
    /\ ~Taken("thought", c)
    /\ entries' = entries \cup {Entry("thought", c, None)}
    /\ UNCHANGED <<tables, work, pass, route, decisions>>

Decided == {d.candidate : d \in decisions}

\* UNROUTED_SQL: reviewed or not; a part is routed with its head.
Unrouted == (present \cap Heads) \ Decided

ReadUnroutedSlice(j) ==
    LET slice == {c \in Unrouted : Cardinality({d \in Unrouted : d < c}) < SliceSize}
    IN  /\ route[j].pc = "idle"
        /\ slice # {}
        /\ Work(1)
        /\ route' = [route EXCEPT ![j] = [pc |-> "paid", slice |-> slice]]
        /\ UNCHANGED <<tables, pass, decisions, entries>>

NextRun == Cardinality({d.run : d \in decisions}) + 1

\* claimUnrouted: what no other job decided since the slice was read
Claimed_WholeSlice(j) == route[j].slice
Claimed(j) == route[j].slice \ Decided

\* writeRoutingRun and applyAll in one transaction under an advisory lock; a
\* candidate merged away or rejected since the slice was read is routed too.
WriteRoutingRun(j) ==
    /\ route[j].pc = "paid"
    /\ \E answer \in [Claimed(j) -> Actions] :
          entries' = entries \cup
             {Entry(answer[c], c, NextRun) :
                c \in {x \in Claimed(j) :
                        /\ answer[x] # "none" /\ ~Taken(answer[x], x)
                        /\ \A y \in Claimed(j) :
                              answer[y] = answer[x] /\ Text[y] = Text[x] => x <= y}}
    /\ decisions' = decisions \cup {[run |-> NextRun, candidate |-> c] : c \in Claimed(j)}
    /\ route' = [route EXCEPT ![j] = IdleRoute]
    /\ UNCHANGED <<tables, work, pass>>

\* The projected cost is over the maximum, the call or the transaction throws,
\* or the process dies: nothing is written.
RouteFails(j) ==
    /\ route[j].pc = "paid"
    /\ route' = [route EXCEPT ![j] = IdleRoute]
    /\ UNCHANGED <<tables, work, pass, decisions, entries>>

PassStep(p) ==
    \/ SelectMergePairs(p) \/ Merge(p) \/ MergeViolatesKey(p)
    \/ SelectUngraded(p) \/ StoreMachineGrade(p) \/ PassEnds(p) \/ PassFails(p)

RouteStep(j) == ReadUnroutedSlice(j) \/ WriteRoutingRun(j) \/ RouteFails(j)

Next ==
    \/ \E c \in Candidates : Insert(c) \/ Ungrade(c) \/ Promote(c)
    \/ SubmitBatch
    \/ \E b \in 1 .. work : UndoBatch(b)
    \/ \E p \in Passes : PassStep(p)
    \/ \E j \in Routers : RouteStep(j)

Spec == Init /\ [][Next]_vars

(***************************************************************************)
(* Properties                                                              *)
(***************************************************************************)
Row(c, t) == [survivor |-> c, text |-> t]

\* Only candidates that exist are reviewed, graded by machine or referenced.
TypeOK ==
    /\ present \subseteq written /\ written \subseteq Candidates
    /\ review \in [Candidates -> Verdicts \cup {Open}]
    /\ \A c \in Candidates \ present : review[c] = Open
    /\ machine \subseteq present
    /\ reinf \subseteq {Row(c, Text[d]) : c \in present, d \in Candidates}
    /\ grades \subseteq [candidate: present, batch: 1 .. work, verdict: Verdicts, live: BOOLEAN]
    /\ work \in 0 .. MaxWork
    /\ pass \in [Passes -> [pc: {"idle", "merge", "select", "grade"},
                            pairs: SUBSET [dup: Candidates, survivor: Candidates],
                            rows: SUBSET Candidates]]
    /\ route \in [Routers -> [pc: {"idle", "paid"}, slice: SUBSET Candidates]]
    /\ decisions \subseteq [run: Nat \ {None}, candidate: Candidates]
    /\ \A e \in entries :
          /\ e.kind \in {"thought", "rule_event"} /\ e.candidate \in Candidates /\ e.run \in Nat
          /\ e = Entry(e.kind, e.candidate, e.run)

\* What the operator graded is ground truth: no step of a pass deletes a graded
\* head or writes its machine grade, although the pass chose its rows before
\* the operator graded them.
GroundTruthKept ==
    [][\A c \in Heads : review[c] # Open =>
          /\ c \in present => c \in present'
          /\ c \in machine' => c \in machine]_vars

\* What a pass deletes it has recorded on a row that outlives the pass, also
\* where the survivor of one duplicate is the duplicate of another; all it may
\* lose is what it merged into a part whose head it deletes as well.
PassLosesNothing ==
    [][\A c \in (present \ present') \cap Heads :
          \/ \E s \in present' : Row(s, Text[c]) \in reinf'
          \/ \E s \in present \ present', p \in Passes :
                Parent[s] \in present \ present' /\ Pair(c, s) \in pass[p].pairs]_vars

\* The review columns of a candidate say what its one live grade says, across
\* regrades, ungrades, undone batches in any order and merges.
ReviewMirrorsGrade ==
    /\ OneLive(grades)
    /\ \A c \in present : review[c] # Open => review[c] = LiveVerdict(grades, c)

\* However often the route is delivered, a candidate is decided by one run, and
\* that run wrote whatever the route committed for it.
RoutedOnce ==
    /\ \A d, e \in decisions : d.candidate = e.candidate => d = e
    /\ \A e \in entries : e.run # None => [run |-> e.run, candidate |-> e.candidate] \in decisions
=============================================================================
