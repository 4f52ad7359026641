------------------------ MODULE DistillationProofs ------------------------
(***************************************************************************)
(* Proofs about Distillation for any turns, lanes, sessions and windows,   *)
(* and any number of slots that claim the same turns at once.              *)
(***************************************************************************)
EXTENDS Distillation, FiniteSetTheorems, WellFoundedInduction, TLAPS

(***************************************************************************)
(* Orders on finite sets of turns.                                         *)
(***************************************************************************)
\* A finite set has a first element in any strict order.
LEMMA FirstExists ==
  ASSUME NEW S, IsFiniteSet(S), S # {}, NEW R,
         \A x \in S : <<x, x>> \notin R,
         \A x, y, z \in S : <<x, y>> \in R /\ <<y, z>> \in R => <<x, z>> \in R
  PROVE  \E x \in S : \A y \in S : <<y, x>> \notin R
<1> DEFINE Before(x) == {y \in S : <<y, x>> \in R}
           T == {Before(x) : x \in S}
<1>1. IsWellFoundedOn(StrictSubsetOrdering(S), FiniteSubsetsOf(S))
  BY FS_StrictSubsetOrderingWellFounded
<1>2. T \subseteq FiniteSubsetsOf(S)
  <2> SUFFICES ASSUME NEW x \in S PROVE Before(x) \in FiniteSubsetsOf(S) OBVIOUS
  <2>1. Before(x) \in SUBSET S OBVIOUS
  <2> QED BY <2>1, FS_Subset DEF FiniteSubsetsOf
<1>3. T # {}
  <2>1. PICK x \in S : TRUE OBVIOUS
  <2>2. Before(x) \in T OBVIOUS
  <2> QED BY <2>2
<1>4. PICK b \in T : \A c \in T : <<c, b>> \notin StrictSubsetOrdering(S)
  BY <1>1, <1>2, <1>3, WFMin
<1>5. PICK x \in S : b = Before(x) BY <1>4
<1>6. ASSUME NEW y \in S, <<y, x>> \in R PROVE FALSE
  <2>1. Before(y) \in T OBVIOUS
  <2>2. Before(y) \subseteq Before(x) BY <1>6
  <2>3. y \in Before(x) /\ y \notin Before(y) BY <1>6
  <2>4. <<Before(y), b>> \in StrictSubsetOrdering(S)
    BY <1>5, <2>2, <2>3 DEF StrictSubsetOrdering
  <2> QED BY <1>4, <2>1, <2>4
<1> QED BY <1>6

LEMMA TurnFacts ==
  /\ Turns \subseteq Nat \ {0} /\ IsFiniteSet(Turns)
  /\ \A t \in Turns : Session[t] \in Nat /\ When[t] \in Nat
  /\ MaxAttempts \in Nat \ {0} /\ QuietThreshold \in Nat
BY DistillAssumption

\* The order of the claim has no ties.
LEMMA TurnsAreOrdered ==
  /\ \A t \in Turns : ~TurnBefore(t, t)
  /\ \A t, u, v \in Turns : TurnBefore(t, u) /\ TurnBefore(u, v) => TurnBefore(t, v)
  /\ \A t, u \in Turns : t = u \/ TurnBefore(t, u) \/ TurnBefore(u, t)
BY TurnFacts DEF TurnBefore

LEMMA EarliestTurn ==
  ASSUME NEW S \in SUBSET Turns, S # {}
  PROVE  \E t \in S : \A u \in S \ {t} : TurnBefore(t, u)
<1> DEFINE R == {p \in Turns \X Turns : TurnBefore(p[1], p[2])}
<1>1. \A t, u \in Turns : <<t, u>> \in R <=> TurnBefore(t, u) OBVIOUS
<1>2. IsFiniteSet(S) BY TurnFacts, FS_Subset
<1>3. PICK t \in S : \A u \in S : <<u, t>> \notin R
  <2> HIDE DEF R
  <2>1. \A x \in S : <<x, x>> \notin R BY <1>1, TurnsAreOrdered
  <2>2. \A x, y, z \in S : <<x, y>> \in R /\ <<y, z>> \in R => <<x, z>> \in R
    BY <1>1, TurnsAreOrdered
  <2> QED BY <1>2, <2>1, <2>2, FirstExists
<1> HIDE DEF R
<1> QED BY <1>1, <1>3, TurnsAreOrdered

LEMMA LatestTurn ==
  ASSUME NEW S \in SUBSET Turns, S # {}
  PROVE  \E t \in S : \A u \in S \ {t} : TurnBefore(u, t)
<1> DEFINE R == {p \in Turns \X Turns : TurnBefore(p[2], p[1])}
<1>1. \A t, u \in Turns : <<t, u>> \in R <=> TurnBefore(u, t) OBVIOUS
<1>2. IsFiniteSet(S) BY TurnFacts, FS_Subset
<1>3. PICK t \in S : \A u \in S : <<u, t>> \notin R
  <2> HIDE DEF R
  <2>1. \A x \in S : <<x, x>> \notin R BY <1>1, TurnsAreOrdered
  <2>2. \A x, y, z \in S : <<x, y>> \in R /\ <<y, z>> \in R => <<x, z>> \in R
    BY <1>1, TurnsAreOrdered
  <2> QED BY <1>2, <2>1, <2>2, FirstExists
<1> HIDE DEF R
<1> QED BY <1>1, <1>3, TurnsAreOrdered

\* What an acknowledgement answers is a turn, or there is none.
LEMMA PriorType == \A t, visible : Prior(t, visible) \in Turns \cup {None}
<1> SUFFICES ASSUME NEW t, NEW visible PROVE Prior(t, visible) \in Turns \cup {None}
  OBVIOUS
<1> DEFINE before == {u \in visible : Session[u] = Session[t] /\ TurnBefore(u, t)}
           Later(x, y) == TurnBefore(y, x)
           speech == First(before, ContextWindow, Later) \cap Speech
<1>1. speech \in SUBSET Turns BY DEF Speech
<1>2. Prior(t, visible) =
        IF speech = {} THEN None
        ELSE CHOOSE u \in speech : \A x \in speech \ {u} : TurnBefore(x, u)
  BY DEF Prior
<1> HIDE DEF speech
<1>3. CASE speech # {}
  <2>1. \E u \in speech : \A x \in speech \ {u} : TurnBefore(x, u) BY <1>1, <1>3, LatestTurn
  <2> QED BY <1>1, <1>2, <1>3, <2>1
<1> QED BY <1>2, <1>3

LEMMA ExtractType == \A t \in Turns : \A visible : Extract(t, visible) \in Unit
BY PriorType DEF Extract, Unit

(***************************************************************************)
(* Type correctness.                                                       *)
(***************************************************************************)
\* A job is queued only while it may be started once more.
JobsOK(rows) ==
    /\ rows \subseteq Job
    /\ \A i, j \in rows : i.key = j.key => i = j
    /\ \A j \in rows : j.state = "queued" => j.attempts < MaxAttempts

SweepOK ==
    /\ DOMAIN sweep = {"pc", "todo", "quiet"}
    /\ sweep.pc \in {"idle", "select", "enqueue", "hung"}
    /\ sweep.todo \subseteq Key
    /\ sweep.quiet \in 0 .. QuietThreshold + 1

SlotsOK ==
    /\ DOMAIN slot = Slots
    /\ \A w \in Slots :
          /\ DOMAIN slot[w] = DOMAIN FreeSlot
          /\ slot[w].units \subseteq Unit /\ slot[w].batch \subseteq Turns

ServerOK == server \in {"up", "stopping", "draining", "stopped", "down"}

TurnsOK == turn \in [Turns -> {"absent", "due", "distilled"}] /\ cand \subseteq Unit

\* Nothing is produced from the moment the runner drains.
NoTickWhileDraining == server \notin {"up", "stopping"} => sweep.pc = "idle"

Shapes == TurnsOK /\ JobsOK(jobs) /\ SweepOK /\ SlotsOK /\ ServerOK /\ NoTickWhileDraining

LEMMA ShapesAreTyped == Shapes => TypeOK
BY DEF Shapes, TypeOK, TurnsOK, JobsOK, SweepOK, SlotsOK, ServerOK

\* Jobs that are queued again are the same jobs.
LEMMA Requeued ==
  ASSUME NEW rows, JobsOK(rows), NEW kept \in SUBSET rows, NEW again \in SUBSET rows,
         \A i \in kept, j \in again : i.key # j.key,
         \A j \in again : j.attempts < MaxAttempts
  PROVE  LET new == kept \cup {[j EXCEPT !.state = "queued"] : j \in again}
         IN  /\ JobsOK(new)
             /\ {j.key : j \in new} \subseteq {j.key : j \in rows}
<1> DEFINE Q(j) == [j EXCEPT !.state = "queued"]
           new == kept \cup {Q(j) : j \in again}
<1>1. ASSUME NEW j \in again
      PROVE  /\ Q(j) \in Job /\ Q(j).key = j.key /\ Q(j).attempts = j.attempts
             /\ Q(j).state = "queued"
  BY DEF JobsOK, Job
<1>2. \A j \in new : j \in kept \/ \E i \in again : j = Q(i) OBVIOUS
<1> HIDE DEF new, Q
<1>3. new \subseteq Job BY <1>1, <1>2 DEF JobsOK
<1>4. \A i, j \in new : i.key = j.key => i = j
  <2> SUFFICES ASSUME NEW i \in new, NEW j \in new, i.key = j.key PROVE i = j OBVIOUS
  <2>1. CASE i \in kept /\ j \in kept BY <2>1 DEF JobsOK
  <2>2. CASE i \in kept /\ j \notin kept BY <1>1, <1>2, <2>2
  <2>3. CASE i \notin kept /\ j \in kept BY <1>1, <1>2, <2>3
  <2>4. CASE i \notin kept /\ j \notin kept
    <3>1. PICK a \in again : i = Q(a) BY <1>2, <2>4
    <3>2. PICK b \in again : j = Q(b) BY <1>2, <2>4
    <3>3. a.key = b.key BY <1>1, <3>1, <3>2
    <3> QED BY <3>1, <3>2, <3>3 DEF JobsOK
  <2> QED BY <2>1, <2>2, <2>3, <2>4
<1>5. \A j \in new : j.state = "queued" => j.attempts < MaxAttempts
  BY <1>1, <1>2 DEF JobsOK
<1>6. \A j \in new : \E i \in rows : i.key = j.key BY <1>1, <1>2
<1>7. {j.key : j \in new} \subseteq {j.key : j \in rows} BY <1>6
<1>8. JobsOK(new) BY <1>3, <1>4, <1>5 DEF JobsOK
<1> QED BY <1>7, <1>8 DEF new, Q

LEMMA FreeSlotTyped ==
  FreeSlot.units \subseteq Unit /\ FreeSlot.batch \subseteq Turns /\ FreeSlot.pc = "free"
BY DEF FreeSlot

\* Settling leaves the slot free and no key that was not live.
LEMMA SettleTyped ==
  ASSUME SlotsOK, JobsOK(jobs), NEW w \in Slots, NEW ok \in BOOLEAN, Settle(w, ok)
  PROVE  SlotsOK' /\ JobsOK(jobs)' /\ LiveKeys' \subseteq LiveKeys
         /\ slot' = [slot EXCEPT ![w] = FreeSlot]
<1>1. slot' = [slot EXCEPT ![w] = FreeSlot] BY DEF Settle
<1>2. SlotsOK' BY <1>1, FreeSlotTyped DEF SlotsOK
<1> DEFINE kept == {j \in jobs : j.key # slot[w].key}
           again == {x \in jobs : /\ x.key = slot[w].key /\ ~ok
                                  /\ x.attempts < MaxAttempts}
<1>3. jobs' = IF ~slot[w].holds THEN jobs
              ELSE kept \cup {[j EXCEPT !.state = "queued"] : j \in again}
  BY DEF Settle
<1>4. /\ kept \in SUBSET jobs /\ again \in SUBSET jobs
      /\ \A i \in kept, j \in again : i.key # j.key
      /\ \A j \in again : j.attempts < MaxAttempts
  OBVIOUS
<1> HIDE DEF kept, again
<1>5. JobsOK(jobs') /\ {j.key : j \in jobs'} \subseteq {j.key : j \in jobs}
  <2>1. CASE ~slot[w].holds BY <1>3, <2>1
  <2>2. CASE slot[w].holds
    <3>1. jobs' = kept \cup {[j EXCEPT !.state = "queued"] : j \in again} BY <1>3, <2>2
    <3> QED BY <1>4, <3>1, Requeued
  <2> QED BY <2>1, <2>2
<1> QED BY <1>1, <1>2, <1>5 DEF LiveKeys, JobsOK

LEMMA WindowType == \A lane, S : WindowOf(lane, S) \subseteq DueIn(lane)
BY DEF WindowOf, First

LEMMA InitShapes == Init => Shapes
BY TurnFacts, FreeSlotTyped
   DEF Init, Shapes, TurnsOK, JobsOK, SweepOK, SlotsOK, ServerOK, NoTickWhileDraining, IdleSweep,
       DistillAssumption

(***************************************************************************)
(* What a claim extracts, and what a persist leaves behind a stamp.        *)
(***************************************************************************)
\* A claimed window has one unit for each of its speech turns.
Complete(x) ==
    x.pc = "persist" =>
        /\ \A t \in x.batch \cap Speech : \E u \in x.units : u.turn = t
        /\ \A u, v \in x.units : u.turn = v.turn => u = v

Extracted == \A w \in Slots : Complete(slot[w])

IInv == Shapes /\ Extracted /\ StampedWasExtracted

LEMMA SameContentIsTransitive ==
  ASSUME NEW c, NEW d, NEW e, SameContent(c, d), SameContent(d, e)
  PROVE  SameContent(c, e)
BY DEF SameContent

\* Of the units with one content the earliest is inserted, unless a candidate
\* with that content is there: some candidate says what each unit says.
LEMMA EveryUnitIsSaid ==
  ASSUME NEW units \in SUBSET Unit, \A u, v \in units : u.turn = v.turn => u = v,
         NEW u \in units
  PROVE  \E c \in cand \cup NewCandidates(units) :
            Lane[c.turn] = Lane[u.turn] /\ Text[c.turn] = Text[u.turn]
<1>1. CASE \E c \in cand : SameContent(c, u) BY <1>1 DEF SameContent
<1>2. CASE \A c \in cand : ~SameContent(c, u)
  <2> DEFINE C == {v \in units : SameContent(v, u)}
             T == {v.turn : v \in C}
  <2>1. T \in SUBSET Turns BY DEF Unit
  <2>2. u \in C BY DEF SameContent
  <2>3. T # {}
    <3>1. u.turn \in T BY <2>2
    <3> QED BY <3>1
  <2>4. PICK t \in T : \A x \in T \ {t} : TurnBefore(t, x) BY <2>1, <2>3, EarliestTurn
  <2>5. PICK m \in C : m.turn = t BY <2>4
  <2>6. \A c \in cand : ~SameContent(c, m)
    BY <1>2, <2>5, SameContentIsTransitive
  <2>7. ASSUME NEW v \in units \ {m}, SameContent(v, m) PROVE TurnBefore(m.turn, v.turn)
    <3>1. v \in C BY <2>5, <2>7, SameContentIsTransitive
    <3>2. v.turn \in T /\ v.turn # t BY <2>5, <2>7, <3>1
    <3> QED BY <2>4, <2>5, <3>2
  <2>8. m \in NewCandidates(units) BY <2>5, <2>6, <2>7 DEF NewCandidates
  <2> QED BY <2>5, <2>8 DEF SameContent
<1> QED BY <1>1, <1>2

\* A persist stamps only what it, or a candidate before it, says.
LEMMA PersistSays ==
  ASSUME IInv, NEW w \in Slots, slot[w].pc = "persist", PersistWrites(w)
  PROVE  TurnsOK' /\ StampedWasExtracted'
<1>0. TurnsOK /\ SlotsOK /\ Extracted /\ StampedWasExtracted BY DEF IInv, Shapes
<1>1. cand' = cand \cup NewCandidates(slot[w].units) BY DEF PersistWrites
<1>2. turn' = [t \in Turns |-> IF t \in slot[w].batch THEN "distilled" ELSE turn[t]]
  BY DEF PersistWrites, Stamped
<1>3. slot[w].units \in SUBSET Unit BY <1>0 DEF SlotsOK
<1>4. TurnsOK' BY <1>0, <1>1, <1>2, <1>3 DEF TurnsOK, NewCandidates
<1>5. ASSUME NEW t \in Speech, turn'[t] = "distilled"
      PROVE  \E c \in cand' : Lane[c.turn] = Lane[t] /\ Text[c.turn] = Text[t]
  <2>1. CASE t \in slot[w].batch
    <3>1. Complete(slot[w]) BY <1>0 DEF Extracted
    <3>2. PICK u \in slot[w].units : u.turn = t BY <2>1, <3>1 DEF Complete
    <3>3. \A x, y \in slot[w].units : x.turn = y.turn => x = y BY <3>1 DEF Complete
    <3> QED BY <1>1, <1>3, <3>2, <3>3, EveryUnitIsSaid
  <2>2. CASE t \notin slot[w].batch
    <3>1. turn[t] = "distilled" BY <1>2, <1>5, <2>2 DEF Speech
    <3> QED BY <1>0, <1>1, <3>1 DEF StampedWasExtracted
  <2> QED BY <2>1, <2>2
<1> QED BY <1>4, <1>5 DEF StampedWasExtracted

(***************************************************************************)
(* The steps.                                                              *)
(***************************************************************************)
LEMMA ClaimStep ==
  ASSUME IInv, NEW w \in Slots, Claim(w)
  PROVE  IInv' /\ LiveKeys' \subseteq LiveKeys
<1>0. Shapes /\ Extracted /\ StampedWasExtracted BY DEF IInv
<1>1. UNCHANGED <<turn, cand, sweep, server>> BY DEF Claim
<1> DEFINE R(j) == [j EXCEPT !.state = "running", !.attempts = @ + 1]
           Taking(j, batch) ==
             [pc |-> "persist", key |-> j.key, holds |-> TRUE, batch |-> batch,
              units |-> {Extract(t, batch \cup ContextTurns(batch)) : t \in batch \cap Speech}]
<1>2. PICK j \in jobs : /\ j.state = "queued"
                        /\ jobs' = (jobs \ {j}) \cup {R(j)}
                        /\ \E S \in ClaimSessions(j.key.lane) :
                              slot' = [slot EXCEPT ![w] = Taking(j, WindowOf(j.key.lane, S))]
  BY DEF Claim
<1>3. PICK S \in ClaimSessions(j.key.lane) :
         slot' = [slot EXCEPT ![w] = Taking(j, WindowOf(j.key.lane, S))]
  BY <1>2
<1>4. JobsOK(jobs') /\ LiveKeys' \subseteq LiveKeys
  <2>1. j \in Job /\ j.attempts < MaxAttempts BY <1>0, <1>2 DEF Shapes, JobsOK
  <2>2. j.attempts + 1 \in 0 .. MaxAttempts BY <2>1, TurnFacts DEF Job
  <2>3. R(j) \in Job /\ R(j).key = j.key /\ R(j).state = "running" BY <2>1, <2>2 DEF Job
  <2> HIDE DEF R
  <2>4. JobsOK(jobs') BY <1>0, <1>2, <2>3 DEF Shapes, JobsOK
  <2>5. \A i \in jobs' : \E k \in jobs : k.key = i.key BY <1>2, <2>3
  <2> QED BY <2>4, <2>5 DEF LiveKeys
<1> DEFINE batch == WindowOf(j.key.lane, S)
           visible == batch \cup ContextTurns(batch)
           x == Taking(j, batch)
<1>5. batch \subseteq Turns BY WindowType DEF DueIn, Due
<1>6. /\ DOMAIN x = DOMAIN FreeSlot /\ x.batch = batch
      /\ x.units = {Extract(t, visible) : t \in batch \cap Speech}
  BY DEF FreeSlot
<1> HIDE DEF x, batch, visible, Taking
<1>7. x.units \subseteq Unit BY <1>5, <1>6, ExtractType
<1>8. Complete(x)
  <2>1. \A t : Extract(t, visible).turn = t BY DEF Extract
  <2> QED BY <1>6, <2>1 DEF Complete
<1>9. slot' = [slot EXCEPT ![w] = x] BY <1>3 DEF x, batch
<1>10. SlotsOK' /\ Extracted'
  BY <1>0, <1>5, <1>6, <1>7, <1>8, <1>9 DEF Shapes, SlotsOK, Extracted
<1>11. Shapes'
  BY <1>0, <1>1, <1>4, <1>10
     DEF Shapes, TurnsOK, SweepOK, ServerOK, NoTickWhileDraining, JobsOK
<1> QED BY <1>0, <1>1, <1>4, <1>10, <1>11 DEF IInv, StampedWasExtracted

LEMMA PersistStep ==
  ASSUME IInv, NEW w \in Slots, Persist(w) \/ HandlerError(w)
  PROVE  IInv' /\ LiveKeys' \subseteq LiveKeys
<1>0. Shapes /\ Extracted /\ StampedWasExtracted BY DEF IInv
<1>1. /\ slot[w].pc = "persist" /\ UNCHANGED <<sweep, server>>
      /\ UNCHANGED <<turn, cand>> \/ PersistWrites(w)
      /\ Settle(w, TRUE) \/ Settle(w, FALSE)
  BY DEF Persist, HandlerError
<1>2. TurnsOK' /\ StampedWasExtracted'
  BY <1>0, <1>1, PersistSays DEF Shapes, TurnsOK, StampedWasExtracted
<1>3. /\ SlotsOK' /\ JobsOK(jobs)' /\ LiveKeys' \subseteq LiveKeys
      /\ slot' = [slot EXCEPT ![w] = FreeSlot]
  BY <1>0, <1>1, SettleTyped DEF Shapes
<1>4. Extracted' BY <1>0, <1>3, FreeSlotTyped DEF Extracted, Complete, Shapes, SlotsOK
<1>5. Shapes'
  BY <1>0, <1>1, <1>2, <1>3 DEF Shapes, SweepOK, ServerOK, NoTickWhileDraining
<1> QED BY <1>2, <1>3, <1>4, <1>5 DEF IInv

LEMMA LeaseStep ==
  ASSUME IInv, NEW w \in Slots, LeaseLost(w)
  PROVE  IInv' /\ LiveKeys' \subseteq LiveKeys
<1>0. Shapes /\ Extracted /\ StampedWasExtracted BY DEF IInv
<1>1. slot' = [slot EXCEPT ![w].holds = FALSE] /\ UNCHANGED <<turn, cand, sweep, server>>
  BY DEF LeaseLost
<1> DEFINE kept == {j \in jobs : j.key # slot[w].key}
           again == {x \in jobs : x.key = slot[w].key /\ x.attempts < MaxAttempts}
<1>2. jobs' = kept \cup {[j EXCEPT !.state = "queued"] : j \in again} BY DEF LeaseLost
<1>3. /\ kept \in SUBSET jobs /\ again \in SUBSET jobs
      /\ \A i \in kept, j \in again : i.key # j.key
      /\ \A j \in again : j.attempts < MaxAttempts
  OBVIOUS
<1> HIDE DEF kept, again
<1>4. JobsOK(jobs') /\ LiveKeys' \subseteq LiveKeys
  BY <1>0, <1>2, <1>3, Requeued DEF Shapes, LiveKeys
<1>5. \A v \in Slots :
        /\ DOMAIN slot'[v] = DOMAIN FreeSlot /\ slot'[v].pc = slot[v].pc
        /\ slot'[v].units = slot[v].units /\ slot'[v].batch = slot[v].batch
  BY <1>0, <1>1 DEF Shapes, SlotsOK, FreeSlot
<1>6. DOMAIN slot' = Slots BY <1>0, <1>1 DEF Shapes, SlotsOK
<1>7. SlotsOK' /\ Extracted' BY <1>0, <1>5, <1>6 DEF Shapes, SlotsOK, Extracted, Complete
<1>8. Shapes'
  BY <1>0, <1>1, <1>4, <1>7
     DEF Shapes, TurnsOK, SweepOK, ServerOK, NoTickWhileDraining, JobsOK
<1> QED BY <1>0, <1>1, <1>4, <1>7, <1>8 DEF IInv, StampedWasExtracted

\* Only a tick adds a key, and no tick runs while the runner drains.
LEMMA SweepStep ==
  ASSUME IInv, SweepNext
  PROVE  /\ IInv'
         /\ server \notin {"up", "stopping"} => LiveKeys' \subseteq LiveKeys
<1>0. Shapes /\ Extracted /\ StampedWasExtracted BY DEF IInv
<1>1. UNCHANGED <<turn, cand, slot, server>>
  BY DEF SweepNext, IntervalFires, SelectBatches, EnqueueBatch, SweepDone, SweepError, SweepHangs,
         SweepUnhangs
<1>2. SweepOK' /\ (sweep.pc = "idle" => server = "up" \/ sweep'.pc = "idle")
  <2>0. SweepOK BY <1>0 DEF Shapes
  <2>1. CASE IntervalFires
    <3>1. Quieter \in 0 .. QuietThreshold + 1 BY <2>0, TurnFacts DEF SweepOK, Quieter
    <3> DEFINE pc == IF sweep.pc = "idle" THEN "select" ELSE sweep.pc
    <3>2. pc \in {"idle", "select", "enqueue", "hung"} BY <2>0 DEF SweepOK
    <3>3. sweep' = [sweep EXCEPT !.pc = pc, !.quiet = Quieter] /\ server = "up"
      BY <2>1 DEF IntervalFires
    <3> HIDE DEF pc
    <3> QED BY <2>0, <3>1, <3>2, <3>3 DEF SweepOK
  <2>2. CASE SelectBatches
    <3> DEFINE todo == {[lane |-> l, window |-> WindowOf(l, ProducerSessions(l))] :
                          l \in {x \in Lanes : DueIn(x) # {}}}
    <3>1. \A l : WindowOf(l, ProducerSessions(l)) \in Windows
      BY WindowType DEF DueIn, Due, Windows
    <3>2. todo \subseteq Key BY <3>1 DEF Key
    <3>3. sweep' = [sweep EXCEPT !.pc = "enqueue", !.todo = todo] /\ sweep.pc = "select"
      BY <2>2 DEF SelectBatches
    <3> HIDE DEF todo
    <3> QED BY <2>0, <3>2, <3>3 DEF SweepOK
  <2>3. CASE EnqueueBatch
    <3>1. PICK key \in sweep.todo : sweep' = [sweep EXCEPT !.todo = @ \ {key}]
      BY <2>3 DEF EnqueueBatch
    <3> QED BY <2>0, <2>3, <3>1 DEF SweepOK, EnqueueBatch
  <2>4. CASE SweepHangs BY <2>0, <2>4 DEF SweepOK, SweepHangs
  <2>5. CASE SweepDone \/ SweepError \/ SweepUnhangs
    BY <2>0, <2>5, TurnFacts DEF SweepOK, SweepDone, SweepError, SweepUnhangs, TickEnds, IdleSweep
  <2> QED BY <2>1, <2>2, <2>3, <2>4, <2>5 DEF SweepNext
<1>3. CASE EnqueueBatch
  <2>1. PICK key \in sweep.todo :
          jobs' = jobs \cup (IF key \in LiveKeys THEN {} ELSE {NewJob(key)})
    BY <1>3 DEF EnqueueBatch
  <2>2. key \in Key BY <1>0 DEF Shapes, SweepOK
  <2>3. /\ NewJob(key) \in Job /\ NewJob(key).key = key /\ NewJob(key).attempts = 0
    BY <2>2, TurnFacts DEF NewJob, Job
  <2>4. JobsOK(jobs') BY <1>0, <2>1, <2>3, TurnFacts DEF Shapes, JobsOK, LiveKeys
  <2>5. server \in {"up", "stopping"}
    BY <1>0, <1>3 DEF Shapes, NoTickWhileDraining, EnqueueBatch
  <2>6. Shapes'
    BY <1>0, <1>1, <1>2, <2>4, <2>5
       DEF Shapes, TurnsOK, SlotsOK, ServerOK, NoTickWhileDraining, JobsOK
  <2> QED BY <1>0, <1>1, <2>5, <2>6 DEF IInv, Extracted, StampedWasExtracted
<1>4. CASE UNCHANGED jobs
  <2>1. Shapes'
    BY <1>0, <1>1, <1>2, <1>4
       DEF Shapes, TurnsOK, SlotsOK, ServerOK, NoTickWhileDraining, JobsOK
  <2> QED BY <1>0, <1>1, <1>4, <2>1 DEF IInv, Extracted, StampedWasExtracted, LiveKeys
<1>5. UNCHANGED jobs \/ EnqueueBatch
  BY DEF SweepNext, IntervalFires, SelectBatches, SweepDone, SweepError, SweepHangs, SweepUnhangs
<1> QED BY <1>3, <1>4, <1>5

LEMMA IngestStep ==
  ASSUME IInv, NEW batch \in SUBSET Turns, Ingest(batch)
  PROVE  IInv' /\ LiveKeys' \subseteq LiveKeys
<1>0. Shapes /\ Extracted /\ StampedWasExtracted BY DEF IInv
<1> DEFINE kept == {t \in batch : Kind[t] # "noise" /\ turn[t] = "absent"}
<1>1. /\ turn' = [t \in Turns |-> IF t \in kept THEN "due" ELSE turn[t]]
      /\ UNCHANGED <<cand, jobs, slot, sweep, server>>
  BY DEF Ingest
<1> HIDE DEF kept
<1>2. TurnsOK' BY <1>0, <1>1 DEF Shapes, TurnsOK
<1>3. StampedWasExtracted'
  BY <1>0, <1>1 DEF StampedWasExtracted, Speech
<1>4. Shapes'
  BY <1>0, <1>1, <1>2 DEF Shapes, JobsOK, SweepOK, SlotsOK, ServerOK, NoTickWhileDraining
<1> QED BY <1>0, <1>1, <1>3, <1>4 DEF IInv, Extracted, LiveKeys

LEMMA ServerStep ==
  ASSUME IInv, Start \/ Stop \/ SweepStopped \/ Drained \/ Crash
  PROVE  IInv' /\ LiveKeys' \subseteq LiveKeys
<1>0. Shapes /\ Extracted /\ StampedWasExtracted BY DEF IInv
<1>1. UNCHANGED <<turn, cand>> BY DEF Start, Stop, SweepStopped, Drained, Crash
<1>2. TurnsOK' /\ StampedWasExtracted' BY <1>0, <1>1 DEF Shapes, TurnsOK, StampedWasExtracted
<1>3. CASE Crash
  <2>1. /\ slot' = [w \in Slots |-> FreeSlot] /\ server' = "down" /\ sweep' = IdleSweep
        /\ jobs' = {} \cup {[j EXCEPT !.state = "queued"] :
                             j \in {x \in jobs : x.attempts < MaxAttempts}}
    BY <1>3 DEF Crash
  <2>2. JobsOK(jobs') /\ LiveKeys' \subseteq LiveKeys
    <3> DEFINE again == {x \in jobs : x.attempts < MaxAttempts}
    <3>1. again \in SUBSET jobs /\ \A j \in again : j.attempts < MaxAttempts OBVIOUS
    <3>2. jobs' = {} \cup {[j EXCEPT !.state = "queued"] : j \in again} BY <2>1
    <3> HIDE DEF again
    <3> QED BY <1>0, <3>1, <3>2, Requeued DEF Shapes, LiveKeys
  <2>3. SlotsOK' /\ Extracted' BY <2>1, FreeSlotTyped DEF SlotsOK, Extracted, Complete
  <2>4. SweepOK' /\ ServerOK' /\ NoTickWhileDraining'
    BY <2>1, TurnFacts DEF SweepOK, ServerOK, NoTickWhileDraining, IdleSweep
  <2> QED BY <1>2, <2>2, <2>3, <2>4 DEF IInv, Shapes, JobsOK
<1>4. CASE Start \/ Stop \/ SweepStopped \/ Drained
  <2>1. UNCHANGED <<jobs, slot>> BY <1>4 DEF Start, Stop, SweepStopped, Drained
  <2>2. SweepOK' /\ ServerOK' /\ NoTickWhileDraining'
    <3>0. SweepOK /\ ServerOK /\ NoTickWhileDraining BY <1>0 DEF Shapes
    <3>1. CASE Start
      BY <3>0, <3>1, TurnFacts DEF Start, SweepOK, ServerOK, NoTickWhileDraining, IdleSweep
    <3>2. CASE Stop \/ SweepStopped \/ Drained
      BY <3>0, <3>2 DEF Stop, SweepStopped, Drained, SweepOK, ServerOK, NoTickWhileDraining
    <3> QED BY <1>4, <3>1, <3>2
  <2> QED BY <1>0, <1>2, <2>1, <2>2 DEF IInv, Shapes, JobsOK, SlotsOK, Extracted, LiveKeys
<1> QED BY <1>3, <1>4

LEMMA StepKeeps ==
  ASSUME IInv, [Next]_vars
  PROVE  /\ IInv'
         /\ server \notin {"up", "stopping"} => LiveKeys' \subseteq LiveKeys
<1>1. CASE UNCHANGED vars
  BY <1>1 DEF vars, IInv, Shapes, TurnsOK, JobsOK, SweepOK, SlotsOK, ServerOK, NoTickWhileDraining,
              Extracted, StampedWasExtracted, LiveKeys
<1>2. ASSUME NEW w \in Slots, SlotNext(w) PROVE IInv' /\ LiveKeys' \subseteq LiveKeys
  BY <1>2, ClaimStep, PersistStep, LeaseStep DEF SlotNext
<1> QED BY <1>1, <1>2, IngestStep, SweepStep, ServerStep DEF Next

LEMMA Inductive == Spec => []IInv
<1>1. ASSUME Init PROVE IInv
  <2>1. \A w \in Slots : slot[w].pc = "free" BY <1>1, FreeSlotTyped DEF Init
  <2>2. \A t \in Turns : turn[t] # "distilled" BY <1>1 DEF Init
  <2>3. Extracted BY <2>1 DEF Extracted, Complete
  <2>4. StampedWasExtracted BY <2>2 DEF StampedWasExtracted, Speech
  <2> QED BY <1>1, <2>3, <2>4, InitShapes DEF IInv
<1>2. IInv /\ [Next]_vars => IInv' BY StepKeeps
<1> QED BY <1>1, <1>2, PTL DEF Spec

(***************************************************************************)
(* The theorems.                                                           *)
(***************************************************************************)
\* Rows, slots and the producer keep their types: a job is never started more
\* often than MaxAttempts, whatever leases expire under it, and no two live
\* jobs have one key.
THEOREM TypeCorrect == Spec => []TypeOK
<1>1. IInv => TypeOK BY ShapesAreTyped DEF IInv
<1> QED BY <1>1, Inductive, PTL

\* No turn that carries speech is marked distilled without a candidate that
\* says what it says, however many slots claim and persist the same turns.
THEOREM NoContentLost == Spec => []StampedWasExtracted
<1>1. IInv => StampedWasExtracted BY DEF IInv
<1> QED BY <1>1, Inductive, PTL

\* From the moment the runner begins to drain no new key becomes live.
THEOREM DrainIsQuiet == Spec => NoWorkAfterDrain
<1>1. IInv /\ [Next]_vars
        => [(server \in {"draining", "stopped"}) => (LiveKeys' \subseteq LiveKeys)]_vars
  BY StepKeeps
<1> QED BY <1>1, Inductive, PTL DEF Spec, NoWorkAfterDrain
=============================================================================
