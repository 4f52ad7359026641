-------------------------- MODULE CandidatesProofs --------------------------
(***************************************************************************)
(* Proofs about Candidates for any candidates, texts and positions, and    *)
(* any number of overlapping REM passes and route jobs.                    *)
(***************************************************************************)
EXTENDS Candidates, FiniteSetTheorems, NaturalsInduction, TLAPS

PassType == [pc: {"idle", "merge", "select", "grade"},
             pairs: SUBSET [dup: Candidates, survivor: Candidates],
             rows: SUBSET Candidates]
RouteType == [pc: {"idle", "paid"}, slice: SUBSET Candidates]
GradeType == [candidate: present, batch: 1 .. work, verdict: Verdicts, live: BOOLEAN]

Runs == {d.run : d \in decisions}

\* The runs can be counted, so the next one is numbered.
FiniteRuns == IsFiniteSet(Runs)

IInv == TypeOK /\ FiniteRuns /\ ReviewMirrorsGrade /\ RoutedOnce

\* No row a pass is about to reinforce is a duplicate it is about to delete.
SurvivorsSurvive ==
    \A p \in Passes : \A x, y \in pass[p].pairs : x.survivor # y.dup

LEMMA ConstantFacts ==
  /\ Candidates \subseteq Nat \ {0} /\ IsFiniteSet(Candidates)
  /\ Parent \in [Candidates -> Candidates \cup {0}]
  /\ MaxWork \in Nat /\ MaxSteps \in Nat /\ BatchSize \in Nat /\ Open \notin Verdicts
BY CandidatesAssumption DEF None

LEMMA IdlePassType == IdlePass \in PassType
BY DEF IdlePass, PassType

LEMMA IdleRouteType == IdleRoute \in RouteType
BY DEF IdleRoute, RouteType

LEMMA InitIInv == Init => IInv
<1> SUFFICES ASSUME Init PROVE IInv OBVIOUS
<1>1. pass \in [Passes -> PassType] /\ route \in [Routers -> RouteType]
  BY IdlePassType, IdleRouteType DEF Init
<1>2. TypeOK BY <1>1, ConstantFacts DEF Init, TypeOK, PassType, RouteType
<1>3. FiniteRuns
  <2>1. Runs = {} BY DEF Init, Runs
  <2> QED BY <2>1, FS_EmptySet DEF FiniteRuns
<1>4. ReviewMirrorsGrade /\ RoutedOnce
  BY DEF Init, ReviewMirrorsGrade, OneLive, RoutedOnce
<1> QED BY <1>2, <1>3, <1>4 DEF IInv

(***************************************************************************)
(* Numbers.                                                                *)
(***************************************************************************)
\* Induction over a set of numbers.
LEMMA SetInduction ==
  ASSUME NEW T, 0 \in T, \A n \in Nat : n \in T => n + 1 \in T
  PROVE  Nat \subseteq T
<1> DEFINE R == OpToRel(<, Nat)
<1>1. IsWellFoundedOn(R, Nat) BY NatLessThanWellFounded
<1>2. \A x, y \in Nat : x < y => <<x, y>> \in R BY DEF OpToRel
<1> HIDE DEF R
<1> SUFFICES ASSUME Nat \ T # {} PROVE FALSE OBVIOUS
<1>3. PICK m \in Nat \ T : \A k \in Nat \ T : <<k, m>> \notin R
  BY <1>1, WFMin
<1>4. m - 1 \in Nat /\ m - 1 < m BY <1>3
<1>5. m - 1 \in T BY <1>2, <1>3, <1>4
<1> QED BY <1>3, <1>4, <1>5

\* f is x0 and then F, again and again, up to n.
Iterates(f, F, x0, n) == f[0] = x0 /\ \A i \in 1 .. n : f[i] = F[f[i - 1]]

LEMMA Iterated ==
  ASSUME NEW X, NEW x0 \in X, NEW F \in [X -> X], NEW N \in Nat
  PROVE  \E f \in [0 .. N -> X] : Iterates(f, F, x0, N)
<1> USE DEF Iterates
<1> DEFINE Is(n, f) == Iterates(f, F, x0, n)
           T == {n \in Nat : \E f \in [0 .. n -> X] : Is(n, f)}
<1>1. 0 \in T
  <2>1. [i \in 0 .. 0 |-> x0] \in [0 .. 0 -> X] /\ Is(0, [i \in 0 .. 0 |-> x0]) OBVIOUS
  <2> QED BY <2>1
<1>2. ASSUME NEW n \in Nat, n \in T PROVE n + 1 \in T
  <2>1. PICK f \in [0 .. n -> X] : Is(n, f) BY <1>2
  <2> DEFINE g == [i \in 0 .. n + 1 |-> IF i = n + 1 THEN F[f[n]] ELSE f[i]]
  <2>2. g \in [0 .. n + 1 -> X] OBVIOUS
  <2>3. g[0] = x0 BY <2>1
  <2>4. \A i \in 1 .. n + 1 : g[i] = F[g[i - 1]] BY <2>1
  <2>5. Is(n + 1, g) BY <2>3, <2>4
  <2> QED BY <2>2, <2>5
<1>3. N \in T
  <2> HIDE DEF T
  <2> QED BY <1>1, <1>2, SetInduction
<1> QED BY <1>3

(***************************************************************************)
(* What the actions choose.                                                *)
(***************************************************************************)
\* The rows of the walk: edges lead from the newest rows to older ones.
LEMMA EdgeFacts ==
  ASSUME TypeOK, NEW edge \in Edges
  PROVE  /\ Unreviewed \subseteq Candidates
         /\ DOMAIN edge \subseteq Newest /\ Newest \subseteq Unreviewed
         /\ edge \in [DOMAIN edge -> Unreviewed]
         /\ \A d \in DOMAIN edge : edge[d] < d
<1>1. Unreviewed \subseteq Candidates BY DEF TypeOK, Unreviewed
<1>2. PICK D : D \subseteq Newest /\ edge \in EdgesOf(D) BY DEF Edges
<1> QED BY <1>1, <1>2 DEF EdgesOf, Neighbours, Older, Newest

\* w follows the edges from d on, and stays on a row that is nobody's duplicate.
Follows(w, edge, d) ==
    /\ w[0] = edge[d]
    /\ \A n \in 1 .. MaxSteps :
          w[n] = IF w[n - 1] \in DOMAIN edge THEN edge[w[n - 1]] ELSE w[n - 1]

\* What the walk computes, for a chain of any length.
LEMMA WalkIs ==
  ASSUME NEW U, NEW edge, DOMAIN edge \subseteq U, edge \in [DOMAIN edge -> U],
         NEW d \in DOMAIN edge
  PROVE  /\ Walk(edge, d) \in [0 .. MaxSteps -> U]
         /\ Follows(Walk(edge, d), edge, d)
<1> DEFINE Is(f) == f = [n \in 0 .. MaxSteps |->
              IF n = 0 THEN edge[d]
              ELSE IF f[n - 1] \in DOMAIN edge THEN edge[f[n - 1]]
              ELSE f[n - 1]]
           F == [u \in U |-> IF u \in DOMAIN edge THEN edge[u] ELSE u]
           w == Walk(edge, d)
<1>1. \E f : Is(f)
  <2>1. F \in [U -> U] /\ edge[d] \in U OBVIOUS
  <2>2. PICK f \in [0 .. MaxSteps -> U] :
           f[0] = edge[d] /\ \A i \in 1 .. MaxSteps : f[i] = F[f[i - 1]]
    <3> HIDE DEF F
    <3> DEFINE x == edge[d]
    <3>1. MaxSteps \in Nat /\ x \in U BY ConstantFacts, <2>1
    <3> HIDE DEF x
    <3>2. \E f \in [0 .. MaxSteps -> U] : Iterates(f, F, x, MaxSteps)
      BY <2>1, <3>1, Iterated, Zenon
    <3> QED BY <3>2 DEF x, Iterates
  <2>3. f = [n \in 0 .. MaxSteps |-> f[n]] OBVIOUS
  <2>4. \A n \in 0 .. MaxSteps : n = 0 \/ (n \in 1 .. MaxSteps /\ n - 1 \in 0 .. MaxSteps) BY ConstantFacts
  <2>5. Is(f) BY <2>2, <2>3, <2>4
  <2> QED BY <2>5
<1>2. Is(w)
  <2>1. w = CHOOSE f : Is(f) BY DEF Walk
  <2> HIDE DEF w, Is
  <2> QED BY <1>1, <2>1
<1> HIDE DEF w
<1>3. /\ w[0] = edge[d]
      /\ \A n \in 1 .. MaxSteps :
            w[n] = IF w[n - 1] \in DOMAIN edge THEN edge[w[n - 1]] ELSE w[n - 1]
  <2>1. MaxSteps \in Nat BY ConstantFacts
  <2> QED BY <1>2, <2>1
<1>4. \A n \in 0 .. MaxSteps : w[n] \in U
  <2> DEFINE T == {n \in Nat : n <= MaxSteps => w[n] \in U}
  <2>1. 0 \in T BY <1>3
  <2>2. ASSUME NEW n \in Nat, n \in T PROVE n + 1 \in T BY <1>3, <2>2, ConstantFacts
  <2>3. Nat \subseteq T
    <3> HIDE DEF T
    <3> QED BY <2>1, <2>2, SetInduction
  <2> QED BY <2>3, ConstantFacts
<1>5. w \in [0 .. MaxSteps -> U] BY <1>2, <1>4
<1> QED BY <1>3, <1>5 DEF w, Follows

\* CANDIDATE_MERGE_PAIRS_SQL pairs rows that are unreviewed as it reads.
LEMMA PairsAreRows ==
  ASSUME TypeOK, NEW edge \in Edges
  PROVE  /\ Terminal(edge) \in [DOMAIN edge -> Unreviewed]
         /\ {Pair(d, Terminal(edge)[d]) : d \in DOMAIN edge}
               \subseteq [dup: Candidates, survivor: Candidates]
<1>1. \A d \in DOMAIN edge : Walk(edge, d)[MaxSteps] \in Unreviewed
  <2> SUFFICES ASSUME NEW d \in DOMAIN edge PROVE Walk(edge, d)[MaxSteps] \in Unreviewed
    OBVIOUS
  <2>1. Walk(edge, d) \in [0 .. MaxSteps -> Unreviewed] BY EdgeFacts, WalkIs
  <2> QED BY <2>1, ConstantFacts
<1>2. Terminal(edge) \in [DOMAIN edge -> Unreviewed] BY <1>1 DEF Terminal
<1> QED BY <1>2, EdgeFacts DEF Pair

LEMMA RowsCount ==
  ASSUME TypeOK, NEW S, S \subseteq Unreviewed
  PROVE  IsFiniteSet(S) /\ Cardinality(S) \in Nat
<1>1. S \subseteq Candidates /\ IsFiniteSet(Candidates)
  BY ConstantFacts DEF TypeOK, Unreviewed
<1>2. IsFiniteSet(S) BY <1>1, FS_Subset
<1> QED BY <1>2, FS_CardinalityType

\* A walk that is still on a duplicate after MaxSteps edges has passed more newer
\* rows than that.
LEMMA WalkPasses ==
  ASSUME TypeOK, NEW edge \in Edges, NEW d \in DOMAIN edge,
         Walk(edge, d)[MaxSteps] \in DOMAIN edge
  PROVE  Cardinality({e \in Unreviewed : e > Walk(edge, d)[MaxSteps]}) >= MaxSteps + 1
<1> DEFINE w == Walk(edge, d)
           Newer(c) == {e \in Unreviewed : e > c}
<1>1. /\ w \in [0 .. MaxSteps -> Unreviewed] /\ w[0] = edge[d]
      /\ \A n \in 1 .. MaxSteps :
            w[n] = IF w[n - 1] \in DOMAIN edge THEN edge[w[n - 1]] ELSE w[n - 1]
  <2>1. DOMAIN edge \subseteq Unreviewed /\ edge \in [DOMAIN edge -> Unreviewed]
    BY EdgeFacts
  <2>2. w \in [0 .. MaxSteps -> Unreviewed] /\ Follows(w, edge, d) BY <2>1, WalkIs
  <2> QED BY <2>2 DEF Follows
<1>2. w[MaxSteps] \in DOMAIN edge OBVIOUS
<1> HIDE DEF w
<1>3. /\ d \in Unreviewed /\ Unreviewed \subseteq Nat
      /\ \A c \in DOMAIN edge : c \in Unreviewed /\ edge[c] \in Unreviewed /\ edge[c] < c
  BY EdgeFacts, ConstantFacts
<1>4. \A c : IsFiniteSet(Newer(c)) /\ Cardinality(Newer(c)) \in Nat
  <2> SUFFICES ASSUME NEW c PROVE IsFiniteSet(Newer(c)) /\ Cardinality(Newer(c)) \in Nat
    OBVIOUS
  <2>1. Newer(c) \subseteq Unreviewed OBVIOUS
  <2> HIDE DEF Newer
  <2> QED BY <2>1, RowsCount
<1>5. ASSUME NEW c \in Unreviewed, NEW older \in Unreviewed, older < c
      PROVE  Cardinality(Newer(older)) >= Cardinality(Newer(c)) + 1
  <2>1. c \notin Newer(c) BY <1>3
  <2>2. Newer(c) \cup {c} \subseteq Newer(older) BY <1>3, <1>5
  <2>3. Cardinality(Newer(c) \cup {c}) = Cardinality(Newer(c)) + 1
    BY <1>4, <2>1, FS_AddElement
  <2>4. Cardinality(Newer(c) \cup {c}) <= Cardinality(Newer(older))
    BY <1>4, <2>2, FS_Subset
  <2> QED BY <2>3, <2>4
<1> HIDE DEF Newer
<1> DEFINE T == {n \in Nat : n <= MaxSteps /\ w[n] \in DOMAIN edge
                               => Cardinality(Newer(w[n])) >= n + 1}
<1>6. 0 \in T
  <2>1. Cardinality(Newer(w[0])) >= Cardinality(Newer(d)) + 1 BY <1>1, <1>3, <1>5
  <2> QED BY <1>4, <2>1
<1>7. ASSUME NEW n \in Nat, n \in T PROVE n + 1 \in T
  <2> SUFFICES ASSUME n + 1 <= MaxSteps, w[n + 1] \in DOMAIN edge
               PROVE  Cardinality(Newer(w[n + 1])) >= n + 2
    OBVIOUS
  <2>1. n + 1 \in 1 .. MaxSteps /\ (n + 1) - 1 = n BY ConstantFacts
  <2>2. w[n + 1] = IF w[n] \in DOMAIN edge THEN edge[w[n]] ELSE w[n]
    BY <1>1, <2>1
  <2>3. w[n] \in DOMAIN edge BY <2>2
  <2>4. Cardinality(Newer(w[n])) >= n + 1 BY <1>7, <2>1, <2>3, ConstantFacts
  <2>5. Cardinality(Newer(w[n + 1])) >= Cardinality(Newer(w[n])) + 1
    BY <1>3, <1>5, <2>2, <2>3
  <2> QED BY <1>4, <2>4, <2>5
<1>8. MaxSteps \in T
  <2> HIDE DEF T
  <2> QED BY <1>6, <1>7, SetInduction, ConstantFacts
<1>9. Cardinality(Newer(w[MaxSteps])) >= MaxSteps + 1 BY <1>2, <1>8, ConstantFacts
<1> QED BY <1>9 DEF w, Newer

\* With no more rows in a batch than a walk passes, it ends on nobody's duplicate.
LEMMA WalkReachesEnd ==
  ASSUME BatchSize <= MaxSteps + 1, TypeOK, NEW edge \in Edges, NEW d \in DOMAIN edge
  PROVE  Terminal(edge)[d] \notin DOMAIN edge
<1> DEFINE end == Walk(edge, d)[MaxSteps]
           newer == Cardinality({e \in Unreviewed : e > end})
<1> SUFFICES ASSUME end \in DOMAIN edge PROVE FALSE BY DEF Terminal
<1>1. newer >= MaxSteps + 1 BY WalkPasses
<1>2. newer < BatchSize BY EdgeFacts DEF Newest
<1>3. newer \in Nat
  <2>1. {e \in Unreviewed : e > end} \subseteq Unreviewed OBVIOUS
  <2> QED BY <2>1, RowsCount
<1> HIDE DEF newer
<1> QED BY <1>1, <1>2, <1>3, ConstantFacts

\* A merge deletes rows of the table, no head that is graded among them.
LEMMA RemovedAreRows ==
  ASSUME TypeOK, NEW pairs
  PROVE  /\ Removed(pairs) \subseteq present
         /\ \A c \in Heads \cap Removed(pairs) : review[c] = Open
<1>1. {x.dup : x \in pairs} \cap Unreviewed \subseteq present BY DEF Unreviewed
<1>2. 0 \notin present BY ConstantFacts DEF TypeOK
<1> QED BY <1>1, <1>2 DEF Removed, Heads, Unreviewed, None

LEMMA RunNumbered == ASSUME FiniteRuns PROVE NextRun \in Nat \ {0}
<1>1. Cardinality(Runs) \in Nat BY FS_CardinalityType DEF FiniteRuns
<1> QED BY <1>1 DEF NextRun, Runs

(***************************************************************************)
(* Type correctness.                                                       *)
(***************************************************************************)
\* The tables as TypeOK states them, for the actions that leave the rest alone.
TablesOK ==
    /\ present \subseteq written /\ written \subseteq Candidates
    /\ review \in [Candidates -> Verdicts \cup {Open}]
    /\ \A c \in Candidates \ present : review[c] = Open
    /\ machine \subseteq present
    /\ reinf \subseteq {Row(c, Text[d]) : c \in present, d \in Candidates}
    /\ grades \subseteq GradeType
    /\ work \in 0 .. MaxWork

JobsOK ==
    /\ pass \in [Passes -> PassType]
    /\ route \in [Routers -> RouteType]
    /\ decisions \subseteq [run: Nat \ {None}, candidate: Candidates]
    /\ \A e \in entries :
          /\ e.kind \in {"thought", "rule_event"} /\ e.candidate \in Candidates /\ e.run \in Nat
          /\ e = Entry(e.kind, e.candidate, e.run)

LEMMA TypeParts == TypeOK <=> TablesOK /\ JobsOK
BY DEF TypeOK, TablesOK, JobsOK, PassType, RouteType, GradeType

LEMMA WorkCounts ==
  ASSUME work \in 0 .. MaxWork, NEW n \in Nat, Work(n)
  PROVE  work' \in 0 .. MaxWork /\ work <= work' /\ work' = work + n
BY ConstantFacts DEF Work

\* Grades stay what they are when the rows they name stay and batches grow.
LEMMA GradesKept ==
  ASSUME TablesOK, present \subseteq present', work \in Nat, work' \in Nat, work <= work',
         grades' = grades
  PROVE  grades' \subseteq GradeType'
<1>1. 1 .. work \subseteq 1 .. work' OBVIOUS
<1> QED BY <1>1 DEF TablesOK, GradeType

LEMMA InsertTyped ==
  ASSUME TypeOK, NEW c \in Candidates, Insert(c)
  PROVE  TablesOK'
<1>0. TablesOK BY TypeParts
<1>1. grades' \subseteq GradeType' BY <1>0 DEF Insert, GradeType, TablesOK
<1>2. reinf' \subseteq {Row(d, Text[e]) : d \in present', e \in Candidates}
  BY <1>0 DEF Insert, TablesOK
<1> QED BY <1>0, <1>1, <1>2 DEF Insert, TablesOK

LEMMA MergeTyped ==
  ASSUME TypeOK, NEW p \in Passes, Merge(p)
  PROVE  TablesOK'
<1> DEFINE gone == Removed(pass[p].pairs)
           rows == {[survivor |-> x.survivor, text |-> Text[x.dup]] : x \in pass[p].pairs}
<1>0. TablesOK BY TypeParts
<1>1. pass[p].pairs \subseteq [dup: Candidates, survivor: Candidates]
  BY TypeParts DEF JobsOK, PassType
<1>2. \A x \in pass[p].pairs : x.survivor \in present BY DEF Merge
<1>3. rows \subseteq {Row(c, Text[d]) : c \in present, d \in Candidates}
  BY <1>1, <1>2 DEF Row
<1>4. \A r \in reinf \cup rows : \E c \in present, d \in Candidates : r = Row(c, Text[d])
  BY <1>0, <1>3 DEF TablesOK
<1>5. reinf' = {r \in reinf \cup rows : r.survivor \notin gone} /\ present' = present \ gone
  BY DEF Merge
<1>6. reinf' \subseteq {Row(c, Text[d]) : c \in present', d \in Candidates}
  <2> SUFFICES ASSUME NEW r \in reinf'
               PROVE  r \in {Row(c, Text[d]) : c \in present', d \in Candidates}
    OBVIOUS
  <2>1. r \in reinf \cup rows /\ r.survivor \notin gone BY <1>5
  <2>2. PICK c \in present, d \in Candidates : r = Row(c, Text[d]) BY <2>1, <1>4
  <2>3. r.survivor = c BY <2>2 DEF Row
  <2> QED BY <2>1, <2>2, <2>3, <1>5
<1>7. grades' \subseteq GradeType'
  BY <1>0, <1>5 DEF Merge, TablesOK, GradeType
<1>8. review' = [c \in Candidates |-> IF c \in gone THEN Open ELSE review[c]] BY DEF Merge
<1>9. review' \in [Candidates -> Verdicts \cup {Open}] BY <1>0, <1>8 DEF TablesOK
<1>10. \A c \in Candidates \ present' : review'[c] = Open BY <1>0, <1>5, <1>8 DEF TablesOK
<1> QED BY <1>0, <1>5, <1>6, <1>7, <1>9, <1>10 DEF Merge, TablesOK

LEMMA Superseded ==
  ASSUME NEW C, NEW B, NEW b \in BOOLEAN,
         NEW g \in [candidate: C, batch: B, verdict: Verdicts, live: BOOLEAN]
  PROVE  /\ [g EXCEPT !.live = b] \in [candidate: C, batch: B, verdict: Verdicts, live: BOOLEAN]
         /\ [g EXCEPT !.live = b].candidate = g.candidate
         /\ [g EXCEPT !.live = b].batch = g.batch
         /\ [g EXCEPT !.live = b].verdict = g.verdict
         /\ [g EXCEPT !.live = b].live = b
OBVIOUS

LEMMA SubmitTyped ==
  ASSUME TypeOK, SubmitBatch
  PROVE  TablesOK'
<1>0. TablesOK BY TypeParts
<1>1. PICK S \in (SUBSET present) \ {{}} : \E verdict \in [S -> Verdicts] :
          /\ Work(Cardinality(S))
          /\ review' = [c \in Candidates |-> IF c \in S THEN verdict[c] ELSE review[c]]
          /\ grades' =
                {[g EXCEPT !.live = @ /\ g.candidate \notin S] : g \in grades} \cup
                {[candidate |-> c, batch |-> work', verdict |-> verdict[c], live |-> TRUE] :
                    c \in S}
  BY DEF SubmitBatch
<1>2. PICK verdict \in [S -> Verdicts] :
          /\ Work(Cardinality(S))
          /\ review' = [c \in Candidates |-> IF c \in S THEN verdict[c] ELSE review[c]]
          /\ grades' =
                {[g EXCEPT !.live = @ /\ g.candidate \notin S] : g \in grades} \cup
                {[candidate |-> c, batch |-> work', verdict |-> verdict[c], live |-> TRUE] :
                    c \in S}
  BY <1>1
<1>3. IsFiniteSet(S) /\ S # {} /\ S \subseteq Candidates
  <2>1. S \subseteq Candidates /\ S # {} BY <1>0 DEF TablesOK
  <2>2. S \in SUBSET Candidates BY <2>1
  <2> QED BY <2>1, <2>2, ConstantFacts, FS_Subset
<1>4. Cardinality(S) \in Nat \ {0} BY <1>3, FS_CardinalityType, FS_EmptySet
<1>5. work \in Nat /\ work' \in 0 .. MaxWork /\ work' > work
  BY <1>0, <1>2, <1>4, WorkCounts, ConstantFacts DEF TablesOK
<1>6. 1 .. work \subseteq 1 .. work' /\ work' \in 1 .. work' BY <1>5, ConstantFacts
<1>7. UNCHANGED <<written, present, machine, reinf>> BY DEF SubmitBatch
<1>8. \A g \in grades : [g EXCEPT !.live = @ /\ g.candidate \notin S] \in GradeType'
  <2> SUFFICES ASSUME NEW g \in grades
               PROVE  [g EXCEPT !.live = @ /\ g.candidate \notin S] \in GradeType'
    OBVIOUS
  <2>1. g \in GradeType BY <1>0 DEF TablesOK
  <2>2. g \in [candidate: present', batch: 1 .. work', verdict: Verdicts, live: BOOLEAN]
    BY <2>1, <1>6, <1>7 DEF GradeType
  <2>3. (g.live /\ g.candidate \notin S) \in BOOLEAN OBVIOUS
  <2> QED BY <2>2, <2>3, Superseded DEF GradeType
<1>9. \A c \in S :
        [candidate |-> c, batch |-> work', verdict |-> verdict[c], live |-> TRUE] \in GradeType'
  BY <1>6, <1>7 DEF GradeType
<1>10. grades' \subseteq GradeType' BY <1>2, <1>8, <1>9
<1>11. review' \in [Candidates -> Verdicts \cup {Open}] BY <1>0, <1>2 DEF TablesOK
<1>12. \A c \in Candidates \ present' : review'[c] = Open BY <1>0, <1>2, <1>7 DEF TablesOK
<1> QED BY <1>0, <1>5, <1>7, <1>10, <1>11, <1>12 DEF TablesOK

LEMMA LiveVerdictType ==
  ASSUME NEW rows, NEW c, \A g \in rows : g.verdict \in Verdicts
  PROVE  LiveVerdict(rows, c) \in Verdicts \cup {Open}
BY DEF LiveVerdict

\* The rows an undo leaves: those restored live again, the rest as they are.
UndoneRows(b) ==
    LET mine == {g \in grades : g.batch = b}
        kept == grades \ mine
        back == Restored(kept, {g.candidate : g \in mine})
    IN  (kept \ back) \cup {[g EXCEPT !.live = TRUE] : g \in back}

LEMMA UndoTyped ==
  ASSUME TypeOK, NEW b \in 1 .. work, UndoBatch(b)
  PROVE  TablesOK'
<1> DEFINE S == {g.candidate : g \in {h \in grades : h.batch = b}}
<1>0. TablesOK BY TypeParts
<1>1. grades' = UndoneRows(b) /\ review' = Reconciled(UndoneRows(b), S)
  BY DEF UndoBatch, UndoneRows
<1>2. UNCHANGED <<written, present, machine, reinf, work>> BY DEF UndoBatch
<1>3. grades' \subseteq GradeType
  <2>1. grades \subseteq GradeType BY <1>0 DEF TablesOK
  <2>2. \A g \in grades : [g EXCEPT !.live = TRUE] \in GradeType
    BY <2>1, Superseded DEF GradeType
  <2> QED BY <1>1, <2>1, <2>2 DEF UndoneRows, Restored
<1>4. grades' \subseteq GradeType' BY <1>2, <1>3 DEF GradeType
<1>5. \A g \in UndoneRows(b) : g.verdict \in Verdicts BY <1>1, <1>3 DEF GradeType
<1>6. \A c : LiveVerdict(UndoneRows(b), c) \in Verdicts \cup {Open} BY <1>5, LiveVerdictType
<1>7. S \subseteq present BY <1>0 DEF TablesOK, GradeType
<1>8. review' \in [Candidates -> Verdicts \cup {Open}]
  BY <1>0, <1>1, <1>6 DEF TablesOK, Reconciled
<1>9. \A c \in Candidates \ present' : review'[c] = Open
  BY <1>0, <1>1, <1>2, <1>7 DEF TablesOK, Reconciled
<1> QED BY <1>0, <1>2, <1>4, <1>8, <1>9 DEF TablesOK

LEMMA PassTyped ==
  ASSUME TypeOK, NEW p \in Passes, PassStep(p)
  PROVE  pass' \in [Passes -> PassType]
<1>0. pass \in [Passes -> PassType] /\ TablesOK BY TypeParts DEF JobsOK
<1>1. ASSUME SelectMergePairs(p) PROVE pass' \in [Passes -> PassType]
  <2>1. PICK edge \in Edges :
          pass' = [pass EXCEPT ![p] =
                     [IdlePass EXCEPT !.pc = "merge",
                                      !.pairs = {Pair(d, Terminal(edge)[d]) : d \in DOMAIN edge}]]
    BY <1>1 DEF SelectMergePairs
  <2> DEFINE pairs == {Pair(d, Terminal(edge)[d]) : d \in DOMAIN edge}
  <2>2. pairs \subseteq [dup: Candidates, survivor: Candidates] BY PairsAreRows
  <2> HIDE DEF pairs
  <2>3. [IdlePass EXCEPT !.pc = "merge", !.pairs = pairs] \in PassType
    BY <2>2 DEF IdlePass, PassType
  <2> QED BY <1>0, <2>1, <2>3 DEF pairs
<1>2. ASSUME Merge(p) PROVE pass' \in [Passes -> PassType]
  <2>1. [IdlePass EXCEPT !.pc = "select"] \in PassType BY DEF IdlePass, PassType
  <2> QED BY <1>0, <1>2, <2>1 DEF Merge
<1>3. ASSUME SelectUngraded(p) PROVE pass' \in [Passes -> PassType]
  <2>1. Unreviewed \ machine \subseteq Candidates BY <1>0 DEF TablesOK, Unreviewed
  <2>2. [IdlePass EXCEPT !.pc = "grade", !.rows = Unreviewed \ machine] \in PassType
    BY <2>1 DEF IdlePass, PassType
  <2> QED BY <1>0, <1>3, <2>2 DEF SelectUngraded
<1>4. ASSUME StoreMachineGrade(p) PROVE pass' \in [Passes -> PassType]
  <2>1. PICK c : pass' = [pass EXCEPT ![p].rows = @ \ {c}] BY <1>4 DEF StoreMachineGrade
  <2> QED BY <1>0, <2>1 DEF PassType
<1>5. ASSUME MergeViolatesKey(p) \/ PassEnds(p) \/ PassFails(p)
      PROVE  pass' \in [Passes -> PassType]
  BY <1>0, <1>5, IdlePassType DEF MergeViolatesKey, PassEnds, PassFails
<1> QED BY <1>1, <1>2, <1>3, <1>4, <1>5 DEF PassStep

\* Only the committing job writes: its decisions carry the run it numbered.
LEMMA RouteTyped ==
  ASSUME TypeOK, FiniteRuns, NEW j \in Routers, RouteStep(j)
  PROVE  JobsOK' /\ FiniteRuns'
<1>0. JobsOK /\ TablesOK BY TypeParts
<1>1. CASE ReadUnroutedSlice(j)
  <2> DEFINE slice == {c \in Unrouted : Cardinality({d \in Unrouted : d < c}) < SliceSize}
  <2>1. slice \subseteq Candidates BY <1>0 DEF TablesOK, Unrouted
  <2>2. [pc |-> "paid", slice |-> slice] \in RouteType BY <2>1 DEF RouteType
  <2>3. route' = [route EXCEPT ![j] = [pc |-> "paid", slice |-> slice]]
    BY <1>1 DEF ReadUnroutedSlice
  <2>4. route' \in [Routers -> RouteType] BY <1>0, <2>2, <2>3 DEF JobsOK
  <2> QED BY <1>0, <1>1, <2>4 DEF ReadUnroutedSlice, JobsOK, FiniteRuns, Runs
<1>2. CASE RouteFails(j)
  <2>1. route' \in [Routers -> RouteType] BY <1>0, <1>2, IdleRouteType DEF JobsOK, RouteFails
  <2> QED BY <1>0, <1>2, <2>1 DEF RouteFails, JobsOK, FiniteRuns, Runs
<1>3. CASE WriteRoutingRun(j)
  <2>1. route' \in [Routers -> RouteType]
    BY <1>0, <1>3, IdleRouteType DEF JobsOK, WriteRoutingRun
  <2>2. Claimed(j) \subseteq Candidates BY <1>0 DEF JobsOK, RouteType, Claimed
  <2>3. NextRun \in Nat \ {0} BY RunNumbered
  <2>4. decisions' = decisions \cup {[run |-> NextRun, candidate |-> c] : c \in Claimed(j)}
    BY <1>3 DEF WriteRoutingRun
  <2>5. decisions' \subseteq [run: Nat \ {None}, candidate: Candidates]
    BY <1>0, <2>2, <2>3, <2>4 DEF JobsOK, None
  <2>6. PICK answer \in [Claimed(j) -> Actions] :
          entries' = entries \cup
             {Entry(answer[c], c, NextRun) :
                c \in {x \in Claimed(j) :
                        /\ answer[x] # "none" /\ ~Taken(answer[x], x)
                        /\ \A y \in Claimed(j) :
                              answer[y] = answer[x] /\ Text[y] = Text[x] => x <= y}}
    BY <1>3 DEF WriteRoutingRun
  <2>7. \A e \in entries' :
          /\ e.kind \in {"thought", "rule_event"} /\ e.candidate \in Candidates /\ e.run \in Nat
          /\ e = Entry(e.kind, e.candidate, e.run)
    <3> SUFFICES ASSUME NEW e \in entries', e \notin entries
                 PROVE  /\ e.kind \in {"thought", "rule_event"}
                        /\ e.candidate \in Candidates /\ e.run \in Nat
                        /\ e = Entry(e.kind, e.candidate, e.run)
      BY <1>0 DEF JobsOK
    <3>1. PICK c \in Claimed(j) : answer[c] # "none" /\ e = Entry(answer[c], c, NextRun)
      BY <2>6
    <3>2. answer[c] \in {"thought", "rule_event"} BY <3>1, CandidatesAssumption
    <3> QED BY <2>2, <2>3, <3>1, <3>2 DEF Entry
  <2>8. FiniteRuns'
    <3>1. IsFiniteSet(Runs \cup {NextRun}) BY FS_AddElement DEF FiniteRuns
    <3>2. Runs' \in SUBSET (Runs \cup {NextRun}) BY <2>4 DEF Runs
    <3> QED BY <3>1, <3>2, FS_Subset DEF FiniteRuns
  <2>9. pass' = pass BY <1>3 DEF WriteRoutingRun
  <2> QED BY <1>0, <2>1, <2>5, <2>7, <2>8, <2>9 DEF JobsOK
<1> QED BY <1>1, <1>2, <1>3 DEF RouteStep

LEMMA PromoteTyped ==
  ASSUME TypeOK, NEW c \in Candidates, Promote(c)
  PROVE  JobsOK'
<1>0. JobsOK BY TypeParts
<1>1. entries' = entries \cup {Entry("thought", c, None)} BY DEF Promote
<1>2. LET e == Entry("thought", c, None)
      IN  /\ e.kind = "thought" /\ e.candidate = c /\ e.run = 0
          /\ e = Entry(e.kind, e.candidate, e.run)
  BY DEF Entry, None
<1> QED BY <1>0, <1>1, <1>2 DEF Promote, JobsOK

\* Every step keeps the types, and the runs countable.
LEMMA TypeStep == ASSUME IInv, [Next]_vars PROVE TypeOK' /\ FiniteRuns'
<1>0. TypeOK /\ FiniteRuns /\ TablesOK /\ JobsOK BY TypeParts DEF IInv
<1>1. ASSUME NEW c \in Candidates, Insert(c) PROVE TypeOK' /\ FiniteRuns'
  <2>1. JobsOK' /\ FiniteRuns' BY <1>0, <1>1 DEF Insert, JobsOK, FiniteRuns, Runs
  <2> QED BY <1>0, <1>1, <2>1, InsertTyped, TypeParts DEF TypeOK, TablesOK, JobsOK, PassType, RouteType, GradeType
<1>2. ASSUME NEW c \in Candidates, Ungrade(c) PROVE TypeOK' /\ FiniteRuns'
  BY <1>0, <1>2 DEF Ungrade, TypeOK, FiniteRuns, Runs
<1>3. ASSUME NEW c \in Candidates, Promote(c) PROVE TypeOK' /\ FiniteRuns'
  <2>1. TablesOK' /\ FiniteRuns' BY <1>0, <1>3 DEF Promote, tables, TablesOK, GradeType, FiniteRuns, Runs
  <2> QED BY <1>0, <1>3, <2>1, PromoteTyped DEF TypeOK, TablesOK, JobsOK, PassType, RouteType, GradeType
<1>4. ASSUME SubmitBatch PROVE TypeOK' /\ FiniteRuns'
  <2>1. JobsOK' /\ FiniteRuns' BY <1>0, <1>4 DEF SubmitBatch, JobsOK, FiniteRuns, Runs
  <2> QED BY <1>0, <1>4, <2>1, SubmitTyped DEF TypeOK, TablesOK, JobsOK, PassType, RouteType, GradeType
<1>5. ASSUME NEW b \in 1 .. work, UndoBatch(b) PROVE TypeOK' /\ FiniteRuns'
  <2>1. JobsOK' /\ FiniteRuns' BY <1>0, <1>5 DEF UndoBatch, JobsOK, FiniteRuns, Runs
  <2> QED BY <1>0, <1>5, <2>1, UndoTyped DEF TypeOK, TablesOK, JobsOK, PassType, RouteType, GradeType
<1>6. ASSUME NEW p \in Passes, PassStep(p) PROVE TypeOK' /\ FiniteRuns'
  <2>1. UNCHANGED <<route, decisions, entries>>
    BY <1>6 DEF PassStep, SelectMergePairs, Merge, MergeViolatesKey, SelectUngraded,
                StoreMachineGrade, PassEnds, PassFails
  <2>2. JobsOK' /\ FiniteRuns' BY <1>0, <1>6, <2>1, PassTyped DEF JobsOK, FiniteRuns, Runs
  <2>3. TablesOK'
    <3>1. CASE Merge(p) BY <1>0, <3>1, MergeTyped
    <3>2. CASE SelectMergePairs(p)
      <4>1. Work(1) /\ UNCHANGED tables BY <3>2 DEF SelectMergePairs
      <4>2. work' \in 0 .. MaxWork /\ work <= work' BY <1>0, <4>1, WorkCounts DEF TablesOK
      <4>3. grades' \subseteq GradeType'
        BY <1>0, <4>1, <4>2, GradesKept, ConstantFacts DEF tables, TablesOK
      <4> QED BY <1>0, <4>1, <4>2, <4>3 DEF tables, TablesOK
    <3>3. CASE StoreMachineGrade(p)
      BY <1>0, <3>3 DEF StoreMachineGrade, Gradable, Unreviewed, TablesOK, GradeType
    <3>4. CASE MergeViolatesKey(p) \/ SelectUngraded(p) \/ PassEnds(p) \/ PassFails(p)
      BY <1>0, <3>4 DEF MergeViolatesKey, SelectUngraded, PassEnds, PassFails, tables, TablesOK,
                        GradeType
    <3> QED BY <1>6, <3>1, <3>2, <3>3, <3>4 DEF PassStep
  <2> QED BY <2>2, <2>3 DEF TypeOK, TablesOK, JobsOK, PassType, RouteType, GradeType
<1>7. ASSUME NEW j \in Routers, RouteStep(j) PROVE TypeOK' /\ FiniteRuns'
  <2>1. JobsOK' /\ FiniteRuns' BY <1>0, <1>7, RouteTyped
  <2>2. TablesOK'
    <3>1. CASE ReadUnroutedSlice(j)
      <4>1. Work(1) /\ UNCHANGED tables BY <3>1 DEF ReadUnroutedSlice
      <4>2. work' \in 0 .. MaxWork /\ work <= work' BY <1>0, <4>1, WorkCounts DEF TablesOK
      <4>3. grades' \subseteq GradeType'
        BY <1>0, <4>1, <4>2, GradesKept, ConstantFacts DEF tables, TablesOK
      <4> QED BY <1>0, <4>1, <4>2, <4>3 DEF tables, TablesOK
    <3>2. CASE WriteRoutingRun(j) \/ RouteFails(j)
      BY <1>0, <3>2 DEF WriteRoutingRun, RouteFails, tables, TablesOK, GradeType
    <3> QED BY <1>7, <3>1, <3>2 DEF RouteStep
  <2> QED BY <2>1, <2>2 DEF TypeOK, TablesOK, JobsOK, PassType, RouteType, GradeType
<1>8. ASSUME UNCHANGED vars PROVE TypeOK' /\ FiniteRuns'
  BY <1>0, <1>8 DEF vars, tables, TypeOK, FiniteRuns, Runs
<1> QED BY <1>1, <1>2, <1>3, <1>4, <1>5, <1>6, <1>7, <1>8 DEF Next

(***************************************************************************)
(* The review columns follow the live grade.                               *)
(***************************************************************************)
\* A verdict of the rows is that of a live grade; with one live, it is the
\* only one.
LEMMA VerdictOfLive ==
  ASSUME NEW rows, NEW c, LiveVerdict(rows, c) # Open
  PROVE  \E g \in rows : g.candidate = c /\ g.live /\ g.verdict = LiveVerdict(rows, c)
<1> DEFINE live == {g \in rows : g.candidate = c /\ g.live}
<1>1. live # {} /\ LiveVerdict(rows, c) = (CHOOSE g \in live : TRUE).verdict
  BY DEF LiveVerdict
<1>2. (CHOOSE g \in live : TRUE) \in live BY <1>1
<1> QED BY <1>1, <1>2

LEMMA LiveVerdictOfOne ==
  ASSUME NEW rows, OneLive(rows), NEW g \in rows, g.live
  PROVE  LiveVerdict(rows, g.candidate) = g.verdict
<1>1. {h \in rows : h.candidate = g.candidate /\ h.live} = {g} BY DEF OneLive
<1> QED BY <1>1 DEF LiveVerdict

\* A grade that is live before a step, and after it, vouches for its column.
LEMMA StillMirrored ==
  ASSUME TypeOK, ReviewMirrorsGrade, NEW c \in present, review[c] # Open, OneLive(grades'),
         \A g \in grades : g.candidate = c /\ g.live
             => \E h \in grades' : h.candidate = c /\ h.live /\ h.verdict = g.verdict
  PROVE  review[c] = LiveVerdict(grades', c)
<1>1. review[c] = LiveVerdict(grades, c) BY DEF ReviewMirrorsGrade
<1>2. PICK g \in grades : g.candidate = c /\ g.live /\ g.verdict = review[c]
  BY <1>1, VerdictOfLive
<1>3. PICK h \in grades' : h.candidate = c /\ h.live /\ h.verdict = g.verdict BY <1>2
<1> QED BY <1>2, <1>3, LiveVerdictOfOne

LEMMA SubmitMirrored ==
  ASSUME TypeOK, ReviewMirrorsGrade, SubmitBatch
  PROVE  ReviewMirrorsGrade'
<1> DEFINE New(S, verdict) ==
      {[candidate |-> c, batch |-> work', verdict |-> verdict[c], live |-> TRUE] : c \in S}
<1> DEFINE Old(S) == {[g EXCEPT !.live = @ /\ g.candidate \notin S] : g \in grades}
<1>0. TablesOK /\ present' = present BY TypeParts DEF SubmitBatch
<1>1. PICK S \in (SUBSET present) \ {{}} : \E verdict \in [S -> Verdicts] :
          /\ review' = [c \in Candidates |-> IF c \in S THEN verdict[c] ELSE review[c]]
          /\ grades' = Old(S) \cup New(S, verdict)
  BY DEF SubmitBatch
<1>2. PICK verdict \in [S -> Verdicts] :
          /\ review' = [c \in Candidates |-> IF c \in S THEN verdict[c] ELSE review[c]]
          /\ grades' = Old(S) \cup New(S, verdict)
  BY <1>1
<1>3. ASSUME NEW h \in Old(S), h.live PROVE h \in grades /\ h.candidate \notin S
  <2>1. PICK g \in grades : h = [g EXCEPT !.live = @ /\ g.candidate \notin S] OBVIOUS
  <2>2. g \in GradeType /\ (g.live /\ g.candidate \notin S) \in BOOLEAN
    BY <1>0 DEF TablesOK
  <2>3. h.live = (g.live /\ g.candidate \notin S)
    BY <2>1, <2>2, Superseded DEF GradeType
  <2>4. g.live /\ g.candidate \notin S BY <1>3, <2>3
  <2>5. (g.live /\ g.candidate \notin S) = TRUE /\ g.live = TRUE
    BY <2>2, <2>4 DEF GradeType
  <2>6. h = [g EXCEPT !.live = TRUE] BY <2>1, <2>5
  <2>7. [g EXCEPT !.live = TRUE] = g BY <2>2, <2>5 DEF GradeType
  <2> QED BY <2>4, <2>6, <2>7
<1>4. ASSUME NEW h \in New(S, verdict)
      PROVE  /\ h.live /\ h.candidate \in S
             /\ h = [candidate |-> h.candidate, batch |-> work',
                     verdict |-> verdict[h.candidate], live |-> TRUE]
  OBVIOUS
<1>5. \A h, k \in New(S, verdict) : h.candidate = k.candidate => h = k BY <1>4
<1>6. OneLive(grades')
  BY <1>2, <1>3, <1>4, <1>5 DEF ReviewMirrorsGrade, OneLive
<1>7. ASSUME NEW c \in present', review'[c] # Open PROVE review'[c] = LiveVerdict(grades', c)
  <2>1. CASE c \in S
    <3> DEFINE g == [candidate |-> c, batch |-> work', verdict |-> verdict[c], live |-> TRUE]
    <3>1. g \in grades' /\ g.live /\ g.candidate = c /\ g.verdict = verdict[c]
      BY <1>2, <2>1
    <3>2. review'[c] = verdict[c] BY <1>0, <1>2, <2>1 DEF TablesOK
    <3> HIDE DEF g
    <3> QED BY <1>6, <3>1, <3>2, LiveVerdictOfOne
  <2>2. CASE c \notin S
    <3>1. review'[c] = review[c] BY <1>0, <1>2, <1>7, <2>2 DEF TablesOK
    <3>2. ASSUME NEW g \in grades, g.candidate = c, g.live
          PROVE  \E h \in grades' : h.candidate = c /\ h.live /\ h.verdict = g.verdict
      <4>1. g \in GradeType BY <1>0 DEF TablesOK
      <4>2. (g.live /\ g.candidate \notin S) \in BOOLEAN OBVIOUS
      <4> DEFINE h == [g EXCEPT !.live = @ /\ g.candidate \notin S]
      <4>3. h \in grades' BY <1>2
      <4>4. h.candidate = c /\ h.live = (g.live /\ g.candidate \notin S) /\ h.verdict = g.verdict
        BY <3>2, <4>1, <4>2, Superseded DEF GradeType
      <4>5. h.live BY <2>2, <3>2, <4>4
      <4> QED BY <4>3, <4>4, <4>5
    <3> QED BY <1>0, <1>6, <1>7, <3>1, <3>2, StillMirrored
  <2> QED BY <2>1, <2>2
<1> QED BY <1>6, <1>7 DEF ReviewMirrorsGrade

LEMMA UndoMirrored ==
  ASSUME TypeOK, ReviewMirrorsGrade, NEW b \in 1 .. work, UndoBatch(b)
  PROVE  ReviewMirrorsGrade'
<1> DEFINE mine == {h \in grades : h.batch = b}
           S == {g.candidate : g \in mine}
<1>0. TablesOK /\ present' = present BY TypeParts DEF UndoBatch
<1>1. grades' = UndoneRows(b) /\ OneLive(grades') /\ review' = Reconciled(grades', S)
  BY DEF UndoBatch, UndoneRows
<1>2. ASSUME NEW c \in present', review'[c] # Open PROVE review'[c] = LiveVerdict(grades', c)
  <2>0. c \in Candidates BY <1>0 DEF TablesOK
  <2>1. CASE c \in S BY <1>1, <2>0, <2>1 DEF Reconciled
  <2>2. CASE c \notin S
    <3>1. review'[c] = review[c] BY <1>1, <2>0, <2>2 DEF Reconciled
    <3>2. \A g \in grades : g.candidate = c => g \in grades'
      BY <1>1, <2>2 DEF UndoneRows, Restored
    <3> QED BY <1>0, <1>1, <1>2, <3>1, <3>2, StillMirrored
  <2> QED BY <2>1, <2>2
<1> QED BY <1>1, <1>2 DEF ReviewMirrorsGrade

LEMMA MergeMirrored ==
  ASSUME TypeOK, ReviewMirrorsGrade, NEW p \in Passes, Merge(p)
  PROVE  ReviewMirrorsGrade'
<1> DEFINE gone == Removed(pass[p].pairs)
<1>0. TablesOK BY TypeParts
<1>1. /\ present' = present \ gone
      /\ grades' = {g \in grades : g.candidate \notin gone}
      /\ review' = [c \in Candidates |-> IF c \in gone THEN Open ELSE review[c]]
  BY DEF Merge
<1>2. OneLive(grades') BY <1>1 DEF ReviewMirrorsGrade, OneLive
<1>3. ASSUME NEW c \in present', review'[c] # Open PROVE review'[c] = LiveVerdict(grades', c)
  <2>1. c \in present /\ c \notin gone /\ review'[c] = review[c] BY <1>0, <1>1 DEF TablesOK
  <2>2. \A g \in grades : g.candidate = c => g \in grades' BY <1>1, <2>1
  <2> QED BY <1>2, <1>3, <2>1, <2>2, StillMirrored
<1> QED BY <1>2, <1>3 DEF ReviewMirrorsGrade

LEMMA MirrorStep == ASSUME IInv, [Next]_vars PROVE ReviewMirrorsGrade'
<1>0. TypeOK /\ ReviewMirrorsGrade /\ TablesOK BY TypeParts DEF IInv
<1>1. ASSUME NEW c \in Candidates, Insert(c) PROVE ReviewMirrorsGrade'
  <2>1. c \notin present BY <1>0, <1>1 DEF TablesOK, Insert
  <2>2. review[c] = Open BY <1>0, <2>1 DEF TablesOK
  <2> QED BY <1>0, <1>1, <2>2 DEF Insert, ReviewMirrorsGrade
<1>2. ASSUME NEW c \in Candidates, Ungrade(c) PROVE ReviewMirrorsGrade'
  <2>1. \A d \in present : review'[d] # Open => review'[d] = review[d]
    BY <1>0, <1>2 DEF Ungrade, TablesOK
  <2> QED BY <1>0, <1>2, <2>1 DEF Ungrade, ReviewMirrorsGrade
<1>3. ASSUME NEW p \in Passes, PassStep(p) PROVE ReviewMirrorsGrade'
  <2>1. CASE Merge(p) BY <1>0, <2>1, MergeMirrored
  <2>2. CASE ~Merge(p)
    <3>1. UNCHANGED <<present, review, grades>>
      BY <1>3, <2>2 DEF PassStep, SelectMergePairs, MergeViolatesKey, SelectUngraded,
                        StoreMachineGrade, PassEnds, PassFails, tables
    <3> QED BY <1>0, <3>1 DEF ReviewMirrorsGrade
  <2> QED BY <2>1, <2>2
<1>4. ASSUME \/ \E c \in Candidates : Promote(c)
             \/ \E j \in Routers : RouteStep(j)
             \/ UNCHANGED vars
      PROVE  ReviewMirrorsGrade'
  <2>1. UNCHANGED <<present, review, grades>>
    BY <1>4 DEF Promote, RouteStep, ReadUnroutedSlice, WriteRoutingRun, RouteFails, tables, vars
  <2> QED BY <1>0, <2>1 DEF ReviewMirrorsGrade
<1> QED BY <1>0, <1>1, <1>2, <1>3, <1>4, SubmitMirrored, UndoMirrored DEF Next

(***************************************************************************)
(* One run decides a candidate.                                            *)
(***************************************************************************)
LEMMA RoutedStep == ASSUME IInv, [Next]_vars PROVE RoutedOnce'
<1>0. TypeOK /\ RoutedOnce BY DEF IInv
<1>1. ASSUME NEW j \in Routers, WriteRoutingRun(j) PROVE RoutedOnce'
  <2>1. decisions' = decisions \cup {[run |-> NextRun, candidate |-> c] : c \in Claimed(j)}
    BY <1>1 DEF WriteRoutingRun
  <2>2. \A c \in Claimed(j) : \A d \in decisions : d.candidate # c BY DEF Claimed, Decided
  <2>3. \A d, e \in decisions' : d.candidate = e.candidate => d = e
    BY <1>0, <2>1, <2>2 DEF RoutedOnce
  <2>4. PICK answer \in [Claimed(j) -> Actions] :
          \A e \in entries' \ entries : \E c \in Claimed(j) : e = Entry(answer[c], c, NextRun)
    BY <1>1 DEF WriteRoutingRun
  <2>5. ASSUME NEW e \in entries', e.run # None
        PROVE  [run |-> e.run, candidate |-> e.candidate] \in decisions'
    <3>1. CASE e \in entries BY <1>0, <2>1, <2>5, <3>1 DEF RoutedOnce
    <3>2. CASE e \notin entries
      <4>1. PICK c \in Claimed(j) : e = Entry(answer[c], c, NextRun) BY <2>4, <2>5, <3>2
      <4>2. e.run = NextRun /\ e.candidate = c BY <4>1 DEF Entry
      <4> QED BY <2>1, <4>2
    <3> QED BY <3>1, <3>2
  <2> QED BY <2>3, <2>5 DEF RoutedOnce
<1>2. ASSUME NEW c \in Candidates, Promote(c) PROVE RoutedOnce'
  <2>1. entries' = entries \cup {Entry("thought", c, None)} /\ decisions' = decisions
    BY <1>2 DEF Promote
  <2>2. Entry("thought", c, None).run = None BY DEF Entry
  <2> QED BY <1>0, <2>1, <2>2 DEF RoutedOnce
<1>3. ASSUME UNCHANGED <<decisions, entries>> PROVE RoutedOnce' BY <1>0, <1>3 DEF RoutedOnce
<1>4. \/ UNCHANGED <<decisions, entries>>
      \/ \E j \in Routers : WriteRoutingRun(j)
      \/ \E c \in Candidates : Promote(c)
  BY DEF Next, PassStep, RouteStep, Insert, Ungrade, SubmitBatch, UndoBatch, SelectMergePairs,
         Merge, MergeViolatesKey, SelectUngraded, StoreMachineGrade, PassEnds, PassFails,
         ReadUnroutedSlice, RouteFails, vars
<1> QED BY <1>1, <1>2, <1>3, <1>4

LEMMA Inductive == Spec => []IInv
<1>1. Init => IInv BY InitIInv
<1>2. IInv /\ [Next]_vars => IInv'
  BY TypeStep, MirrorStep, RoutedStep DEF IInv
<1> QED BY <1>1, <1>2, PTL DEF Spec

(***************************************************************************)
(* The theorems.                                                           *)
(***************************************************************************)
\* Every row that is reviewed, graded or referenced exists, whatever merges
\* delete between the statements of the others.
THEOREM TypeCorrect == Spec => []TypeOK
<1>1. IInv => TypeOK BY DEF IInv
<1> QED BY <1>1, Inductive, PTL

\* Regrades, ungrades, undos and merges in any order leave at most one live
\* grade of a candidate, and its review columns say what that grade says.
THEOREM ReviewFollowsGrade == Spec => []ReviewMirrorsGrade
<1>1. IInv => ReviewMirrorsGrade BY DEF IInv
<1> QED BY <1>1, Inductive, PTL

\* Any number of deliveries of the route commit at most one decision of a
\* candidate, and the run of that decision wrote what was committed for it.
THEOREM RouteDecidesOnce == Spec => []RoutedOnce
<1>1. IInv => RoutedOnce BY DEF IInv
<1> QED BY <1>1, Inductive, PTL

\* No step of any pass deletes a graded head or grades it by machine, however
\* long ago the pass chose its rows.
THEOREM GradedIsKept == Spec => GroundTruthKept
<1> DEFINE Kept ==
      \A c \in Heads : review[c] # Open =>
          /\ c \in present => c \in present'
          /\ c \in machine' => c \in machine
<1>1. ASSUME IInv, [Next]_vars PROVE Kept
  <2> SUFFICES ASSUME NEW c \in Heads, review[c] # Open
               PROVE  /\ c \in present => c \in present'
                      /\ c \in machine' => c \in machine
    OBVIOUS
  <2>0. TypeOK BY <1>1 DEF IInv
  <2>1. ASSUME NEW p \in Passes, Merge(p)
        PROVE  (c \in present => c \in present') /\ (c \in machine' => c \in machine)
    <3>1. c \notin Removed(pass[p].pairs) BY <2>0, RemovedAreRows
    <3> QED BY <2>1, <3>1 DEF Merge
  <2>2. ASSUME NEW p \in Passes, StoreMachineGrade(p)
        PROVE  (c \in present => c \in present') /\ (c \in machine' => c \in machine)
    <3>1. c \notin Gradable BY DEF Gradable, Unreviewed
    <3> QED BY <2>2, <3>1 DEF StoreMachineGrade
  <2>3. \/ present \subseteq present' /\ machine' = machine
        \/ \E p \in Passes : Merge(p) \/ StoreMachineGrade(p)
    BY <1>1 DEF Next, PassStep, RouteStep, Insert, Ungrade, SubmitBatch, UndoBatch, Promote,
           SelectMergePairs, MergeViolatesKey, SelectUngraded, PassEnds, PassFails,
           ReadUnroutedSlice, WriteRoutingRun, RouteFails, tables, vars
  <2> QED BY <2>1, <2>2, <2>3
<1>2. IInv /\ [Next]_vars => [Kept]_vars BY <1>1
<1> QED BY <1>2, Inductive, PTL DEF Spec, GroundTruthKept

(***************************************************************************)
(* What a pass deletes.                                                    *)
(***************************************************************************)
LEMMA SurvivorsStep ==
  ASSUME BatchSize <= MaxSteps + 1, IInv, SurvivorsSurvive, [Next]_vars
  PROVE  SurvivorsSurvive'
<1>0. TypeOK /\ pass \in [Passes -> PassType] BY TypeParts DEF IInv, JobsOK
<1> SUFFICES ASSUME NEW p \in Passes, NEW x \in pass'[p].pairs, NEW y \in pass'[p].pairs
             PROVE  x.survivor # y.dup
  BY DEF SurvivorsSurvive
<1>1. CASE pass'[p].pairs \subseteq pass[p].pairs BY <1>1 DEF SurvivorsSurvive
<1>2. CASE SelectMergePairs(p)
  <2>1. PICK edge \in Edges :
          pass' = [pass EXCEPT ![p] =
                     [IdlePass EXCEPT !.pc = "merge",
                                      !.pairs = {Pair(d, Terminal(edge)[d]) : d \in DOMAIN edge}]]
    BY <1>2 DEF SelectMergePairs
  <2> DEFINE pairs == {Pair(d, Terminal(edge)[d]) : d \in DOMAIN edge}
  <2>2. pass'[p].pairs = pairs
    <3> HIDE DEF pairs
    <3>1. pass'[p] = [IdlePass EXCEPT !.pc = "merge", !.pairs = pairs] BY <1>0, <2>1 DEF pairs
    <3> QED BY <3>1 DEF IdlePass
  <2>3. PICK d \in DOMAIN edge : x = Pair(d, Terminal(edge)[d]) BY <2>2
  <2>4. PICK e \in DOMAIN edge : y = Pair(e, Terminal(edge)[e]) BY <2>2
  <2>5. Terminal(edge)[d] \notin DOMAIN edge BY <1>0, WalkReachesEnd
  <2> QED BY <2>3, <2>4, <2>5 DEF Pair
<1>3. pass'[p].pairs \subseteq pass[p].pairs \/ SelectMergePairs(p)
  <2>1. ASSUME NEW q \in Passes, PassStep(q)
        PROVE  pass'[p].pairs \subseteq pass[p].pairs \/ SelectMergePairs(p)
    <3>1. CASE SelectMergePairs(q)
      BY <1>0, <3>1 DEF SelectMergePairs
    <3>2. CASE Merge(q)
      <4>1. pass' = [pass EXCEPT ![q] = [IdlePass EXCEPT !.pc = "select"]] BY <3>2 DEF Merge
      <4> QED BY <1>0, <4>1 DEF IdlePass
    <3>4. CASE SelectUngraded(q)
      <4>1. pass' = [pass EXCEPT ![q] = [IdlePass EXCEPT !.pc = "grade", !.rows = Unreviewed \ machine]]
        BY <3>4 DEF SelectUngraded
      <4> QED BY <1>0, <4>1 DEF IdlePass
    <3>5. CASE MergeViolatesKey(q) \/ PassEnds(q) \/ PassFails(q)
      <4>1. pass' = [pass EXCEPT ![q] = IdlePass]
        BY <3>5 DEF MergeViolatesKey, PassEnds, PassFails
      <4> QED BY <1>0, <4>1 DEF IdlePass
    <3>3. CASE StoreMachineGrade(q)
      <4>1. PICK c : pass' = [pass EXCEPT ![q].rows = @ \ {c}] BY <3>3 DEF StoreMachineGrade
      <4> QED BY <1>0, <4>1 DEF PassType
    <3> QED BY <2>1, <3>1, <3>2, <3>3, <3>4, <3>5 DEF PassStep
  <2>2. pass' = pass \/ \E q \in Passes : PassStep(q)
    BY DEF Next, Insert, Ungrade, Promote, SubmitBatch, UndoBatch, RouteStep,
           ReadUnroutedSlice, WriteRoutingRun, RouteFails, vars
  <2> QED BY <2>1, <2>2
<1> QED BY <1>1, <1>2, <1>3

\* A row leaves the table only as part of a merge.
LEMMA OnlyMergeDeletes ==
  ASSUME [Next]_vars, present \ present' # {}
  PROVE  \E p \in Passes : Merge(p)
BY DEF Next, PassStep, RouteStep, Insert, Ungrade, SubmitBatch, UndoBatch, Promote,
       SelectMergePairs, MergeViolatesKey, SelectUngraded, StoreMachineGrade, PassEnds,
       PassFails, ReadUnroutedSlice, WriteRoutingRun, RouteFails, tables, vars

\* In batches no longer than the walk along a chain, and whatever order the pairs
\* are merged in, every head a pass deletes is recorded on a row that stays, or
\* on a part that was deleted with its own head.
THEOREM MergeRecordsWhatItDeletes ==
  ASSUME BatchSize <= MaxSteps + 1
  PROVE  Spec => PassLosesNothing
<1> DEFINE Recorded ==
      \A c \in (present \ present') \cap Heads :
          \/ \E s \in present' : Row(s, Text[c]) \in reinf'
          \/ \E s \in present \ present', p \in Passes :
                Parent[s] \in present \ present' /\ Pair(c, s) \in pass[p].pairs
<1>1. Init => SurvivorsSurvive BY DEF Init, IdlePass, SurvivorsSurvive
<1>2. IInv /\ SurvivorsSurvive /\ [Next]_vars => SurvivorsSurvive' BY SurvivorsStep
<1>3. ASSUME IInv, SurvivorsSurvive, [Next]_vars PROVE Recorded
  <2> SUFFICES ASSUME NEW c \in (present \ present') \cap Heads
               PROVE  \/ \E s \in present' : Row(s, Text[c]) \in reinf'
                      \/ \E s \in present \ present', p \in Passes :
                            Parent[s] \in present \ present' /\ Pair(c, s) \in pass[p].pairs
    OBVIOUS
  <2>0. TypeOK /\ pass \in [Passes -> PassType] BY <1>3, TypeParts DEF IInv, JobsOK
  <2>1. PICK p \in Passes : Merge(p) BY <1>3, OnlyMergeDeletes
  <2> DEFINE pairs == pass[p].pairs
             gone == Removed(pairs)
             dups == {x.dup : x \in pairs} \cap Unreviewed
  <2>2. /\ present' = present \ gone
        /\ \A x \in pairs : x.survivor \in present
        /\ \A x \in pairs : Row(x.survivor, Text[x.dup]) \in reinf \cup
              {[survivor |-> y.survivor, text |-> Text[y.dup]] : y \in pairs}
        /\ reinf' = {r \in reinf \cup
              {[survivor |-> y.survivor, text |-> Text[y.dup]] : y \in pairs} :
                  r.survivor \notin gone}
    BY <2>1 DEF Merge, Row
  <2>3. c \in dups
    <3>1. 0 \notin dups BY <2>0, ConstantFacts DEF TypeOK, Unreviewed
    <3> QED BY <2>2, <3>1 DEF Removed, Heads, None
  <2>4. PICK x \in pairs : x.dup = c BY <2>3
  <2>5. x = Pair(c, x.survivor)
    <3>1. x \in [dup: Candidates, survivor: Candidates] BY <2>0 DEF PassType
    <3> QED BY <2>4, <3>1 DEF Pair
  <2>6. CASE x.survivor \notin gone
    <3>1. Row(x.survivor, Text[c]).survivor = x.survivor BY DEF Row
    <3>2. Row(x.survivor, Text[c]) \in reinf' BY <2>2, <2>4, <2>6, <3>1
    <3> QED BY <2>2, <2>6, <3>2
  <2>7. CASE x.survivor \in gone
    <3>1. x.survivor \notin dups BY <1>3 DEF SurvivorsSurvive
    <3>2. Parent[x.survivor] \in dups BY <2>7, <3>1 DEF Removed
    <3>3. dups \subseteq present /\ dups \subseteq gone BY DEF Unreviewed, Removed
    <3> QED BY <2>2, <2>5, <2>7, <3>2, <3>3
  <2> QED BY <2>6, <2>7
<1>4. Spec => []SurvivorsSurvive BY <1>1, <1>2, Inductive, PTL DEF Spec
<1>5. IInv /\ SurvivorsSurvive /\ [Next]_vars => [Recorded]_vars BY <1>3
<1> QED BY <1>4, <1>5, Inductive, PTL DEF Spec, PassLosesNothing
=============================================================================
