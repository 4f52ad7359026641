------------------------ MODULE EmbeddingRepairProofs ------------------------
(***************************************************************************)
(* Proofs about EmbeddingRepair, for every table, every way of folding     *)
(* summaries, every number of handlers and drains and every batch size.    *)
(* EmbeddingFitsText needs to know what a stored hash, and a hash that was *)
(* selected, tell of the summary; DrainReachesAll that every row a drain   *)
(* still owes a turn is in its batch or behind its cursor.                 *)
(***************************************************************************)
EXTENDS EmbeddingRepair, TLAPS

\* A stored hash is that of a spelling of the row's summary, and a row with
\* an embedding has one.
HashFitsText ==
    \A r \in present :
        /\ hash[r] # NoHash => Folded[hash[r].summary] = Folded[source[r].summary]
        /\ vector[r] # NoVector => hash[r] # NoHash

\* What is known of a selected row until its turn comes.
Remembered(c) ==
    /\ c.id \in present
    /\ c.hash # NoHash => Folded[c.hash.summary] = Folded[c.source.summary]
    /\ c.hash = NoHash /\ hash[c.id] = NoHash => c.source = source[c.id]

BatchesFit == \A k \in Repairers : \A c \in pass[k].batch : Remembered(c)

FitsInv == TypeOK /\ EmbeddingFitsText /\ HashFitsText /\ BatchesFit

\* A row a drain owes a turn has no embedding and is still to come.
StillToCome(q, r) ==
    /\ q.pc = "select" => r > q.cursor
    /\ q.pc = "rows" => r > q.cursor \/ \E c \in q.batch : c.id = r
    /\ q.pc # "done"

OwedAhead ==
    \A k \in Drains : \A r \in pass[k].owed :
        r \in Missing /\ StillToCome(pass[k], r)

ReachInv == TypeOK /\ OwedAhead

-----------------------------------------------------------------------------
LEMMA SourceTypes ==
    ASSUME NEW s \in Source
    PROVE  /\ RawHash(s) \in Hash /\ NormHash(s) \in Hash /\ Embedded(s) \in Vector
           /\ RawHash(s) # NoHash /\ NormHash(s) # NoHash /\ Embedded(s) # NoVector
           /\ RawHash(s).summary = s.summary
           /\ NormHash(s).summary = Folded[s.summary]
           /\ Embedded(s).summary = s.summary
           /\ Folded[s.summary] \in Summaries
           /\ Folded[Folded[s.summary]] = Folded[s.summary]
  BY RepairAssumption DEF Source, Hash, Vector, RawHash, NormHash, Embedded

LEMMA IdleType == Idle \in Pass
  BY RepairAssumption DEF Idle, Pass, Rows

LEMMA PassType ==
    /\ \A q \in Pass, B \in SUBSET Candidate, n \in 0 .. MaxRows :
         /\ [q EXCEPT !.pc = "rows", !.batch = B] \in Pass
         /\ [q EXCEPT !.pc = "rows", !.cursor = n, !.batch = B] \in Pass
    /\ \A T \in SUBSET Rows : [Idle EXCEPT !.pc = "select", !.owed = T] \in Pass
  <1>1. \A q \in Pass, T \in SUBSET Rows :
          [q EXCEPT !.pc = "select", !.owed = T] \in Pass
    BY DEF Pass
  <1> QED BY <1>1, IdleType DEF Pass

LEMMA CandidateType ==
    ASSUME TypeOK, NEW r \in present
    PROVE  CandidateOf(r) \in Candidate
  BY DEF TypeOK, CandidateOf, Candidate

\* The actions of Write, with what they have in common.
LEMMA WriteStores ==
    ASSUME TypeOK, Write
    PROVE  \E r \in Rows, s \in Source, t \in Source, h \in Hash :
             /\ s.summary = t.summary /\ h \in {RawHash(t), NormHash(t)}
             /\ Store(r, s, h, t)
             /\ present' = present \cup {r}
  <1>1. PICK r \in Rows, s \in Source :
          \/ \E h \in {RawHash(s), NormHash(s)} :
               InsertSession(r, s, h) \/ UpsertSession(r, s, h)
          \/ UpdateEntry(r, s)
    BY DEF Write
  <1>2. RawHash(s) \in Hash /\ NormHash(s) \in Hash
    BY SourceTypes
  <1>3. CASE UpdateEntry(r, s)
    <2>1. Store(r, s, RawHash(s), s) /\ present' = present \cup {r}
      BY <1>3 DEF UpdateEntry
    <2> QED BY <2>1, <1>2
  <1>4. ASSUME NEW h \in {RawHash(s), NormHash(s)}, InsertSession(r, s, h)
        PROVE  \E t \in Source :
                 /\ s.summary = t.summary /\ h \in {RawHash(t), NormHash(t)}
                 /\ Store(r, s, h, t) /\ present' = present \cup {r}
    <2>1. Store(r, s, h, s) /\ present' = present \cup {r}
      BY <1>4 DEF InsertSession
    <2> QED BY <2>1
  <1>5. ASSUME NEW h \in {RawHash(s), NormHash(s)}, UpsertSession(r, s, h)
        PROVE  \E u \in Source, t \in Source :
                 /\ u.summary = t.summary /\ h \in {RawHash(t), NormHash(t)}
                 /\ Store(r, u, h, t) /\ present' = present \cup {r}
    <2> DEFINE u == [s EXCEPT !.project = source[r].project]
    <2>1. u \in Source /\ u.summary = s.summary
      BY DEF TypeOK, Source
    <2>2. Store(r, u, h, s) /\ present' = present \cup {r}
      BY <1>5 DEF UpsertSession
    <2> QED BY <2>1, <2>2
  <1> QED BY <1>1, <1>2, <1>3, <1>4, <1>5

-----------------------------------------------------------------------------
LEMMA RestType ==
    ASSUME NEW q \in Pass, NEW k, NEW c, NEW T
    PROVE  /\ Rest(q, k, c) \in Pass
           /\ [Rest(q, k, c) EXCEPT !.owed = @ \ T] \in Pass
           /\ [q EXCEPT !.owed = @ \ T] \in Pass
  BY DEF Pass, Rest

LEMMA TypeInit == Init => TypeOK
  BY IdleType DEF Init, TypeOK

LEMMA TypeWrite ==
    ASSUME TypeOK, Write
    PROVE  TypeOK'
  <1>1. PICK r \in Rows, s \in Source, t \in Source, h \in Hash :
          /\ Store(r, s, h, t)
          /\ present' = present \cup {r}
    BY WriteStores
  <1>2. PICK v \in {NoVector, Embedded(t)} :
          /\ vector' = [vector EXCEPT ![r] = v]
          /\ pass' = [k \in Repairers |->
                        IF v = NoVector THEN pass[k]
                        ELSE [pass[k] EXCEPT !.owed = @ \ {r}]]
    BY <1>1 DEF Store
  <1>3. v \in Vector \cup {NoVector}
    BY SourceTypes
  <1>4. pass' \in [Repairers -> Pass]
    BY <1>2, RestType DEF TypeOK
  <1>5. /\ source' = [source EXCEPT ![r] = s] /\ hash' = [hash EXCEPT ![r] = h]
        /\ writes' = writes + 1
    BY <1>1 DEF Store
  <1> QED BY <1>1, <1>2, <1>3, <1>4, <1>5 DEF TypeOK

LEMMA TypeRepairer ==
    ASSUME TypeOK, NEW k \in Repairers, RepairerNext(k)
    PROVE  TypeOK'
  <1>1. CASE HandlerSelects(k)
    <2>1. PICK S \in SUBSET Selectable :
            pass' = [pass EXCEPT ![k].pc = "rows",
                       ![k].batch = {CandidateOf(r) : r \in {x \in S : Stale(x)}}]
      BY <1>1 DEF HandlerSelects
    <2>2. {CandidateOf(r) : r \in {x \in S : Stale(x)}} \subseteq Candidate
      BY CandidateType DEF Selectable
    <2>3. pass' \in [Repairers -> Pass]
      BY <2>1, <2>2 DEF TypeOK, Pass
    <2> QED BY <1>1, <2>3 DEF HandlerSelects, TypeOK
  <1>2. CASE DrainStarts(k)
    <2>1. Missing \subseteq Rows
      BY DEF Missing, TypeOK
    <2>2. [Idle EXCEPT !.pc = "select", !.owed = Missing] \in Pass
      BY <2>1, PassType
    <2> QED BY <1>2, <2>2 DEF DrainStarts, TypeOK
  <1>3. CASE DrainSelects(k)
    <2>1. PICK S \in SUBSET Ahead(k), last \in Ahead(k) :
            pass' = [pass EXCEPT ![k].pc = "rows", ![k].cursor = last,
                                 ![k].batch = {CandidateOf(r) : r \in S}]
      BY <1>3 DEF DrainSelects
    <2>2. {CandidateOf(r) : r \in S} \subseteq Candidate
      BY CandidateType DEF Ahead, Missing
    <2>3. last \in 0 .. MaxRows
      BY RepairAssumption DEF Ahead, Missing, TypeOK, Rows
    <2>4. pass[k] \in Pass
      BY DEF TypeOK
    <2>5. [pass[k] EXCEPT !.pc = "rows", !.cursor = last,
                          !.batch = {CandidateOf(r) : r \in S}] \in Pass
      BY <2>2, <2>3, <2>4, PassType
    <2>6. pass' = [pass EXCEPT ![k] =
                     [pass[k] EXCEPT !.pc = "rows", !.cursor = last,
                                     !.batch = {CandidateOf(r) : r \in S}]]
      BY <2>1
    <2>7. pass' \in [Repairers -> Pass]
      BY <2>5, <2>6 DEF TypeOK
    <2> QED BY <1>3, <2>7 DEF DrainSelects, TypeOK
  <1>4. CASE DrainEnds(k)
    <2>1. pass' \in [Repairers -> Pass]
      BY <1>4 DEF DrainEnds, TypeOK, Pass
    <2> QED BY <1>4, <2>1 DEF DrainEnds, TypeOK
  <1>5. ASSUME NEW c \in pass[k].batch, Repaired(k, c)
        PROVE  TypeOK'
    <2>1. c \in Candidate /\ c.source \in Source
      BY DEF TypeOK, Pass, Candidate
    <2>2. pass' \in [Repairers -> Pass]
      BY <1>5, RestType DEF Repaired, TypeOK
    <2>3. NormHash(c.source) \in Hash /\ Embedded(c.source) \in Vector
      BY <2>1, SourceTypes
    <2> QED BY <1>5, <2>2, <2>3 DEF Repaired, TypeOK
  <1>6. ASSUME NEW c \in pass[k].batch, NotRepaired(k, c)
        PROVE  TypeOK'
    <2>1. pass[k] \in Pass
      BY DEF TypeOK
    <2>2. [Rest(pass[k], k, c) EXCEPT !.owed = @ \ {c.id}] \in Pass
      BY <2>1, RestType
    <2> QED BY <1>6, <2>2 DEF NotRepaired, TypeOK
  <1>7. CASE Abandon(k)
    BY <1>7, IdleType DEF Abandon, TypeOK
  <1> QED BY <1>1, <1>2, <1>3, <1>4, <1>5, <1>6, <1>7 DEF RepairerNext

LEMMA TypeStep == TypeOK /\ [Next]_rvars => TypeOK'
  <1> SUFFICES ASSUME TypeOK, [Next]_rvars PROVE TypeOK'
    OBVIOUS
  <1>1. CASE UNCHANGED rvars
    BY <1>1 DEF rvars, TypeOK
  <1> QED BY <1>1, TypeWrite, TypeRepairer DEF Next

(***************************************************************************)
(* Every variable keeps its type, whatever the table and the repairers.    *)
(***************************************************************************)
THEOREM TypeCorrect == Spec => []TypeOK
  BY TypeInit, TypeStep, PTL DEF Spec

-----------------------------------------------------------------------------
(* EmbeddingFitsText                                                         *)

LEMMA FitsInit == Init => FitsInv
  <1> SUFFICES ASSUME Init PROVE FitsInv
    OBVIOUS
  <1>1. TypeOK
    BY TypeInit
  <1>2. \A r \in Rows : vector[r] = NoVector
    BY DEF Init
  <1>3. ASSUME NEW r \in present, hash[r] # NoHash
        PROVE  Folded[hash[r].summary] = Folded[source[r].summary]
    <2>1. hash[r] = RawHash(source[r]) /\ source[r] \in Source
      BY <1>3 DEF Init
    <2> QED BY <2>1, SourceTypes
  <1>4. BatchesFit
    BY DEF Init, BatchesFit, Idle
  <1> QED BY <1>1, <1>2, <1>3, <1>4 DEF FitsInv, EmbeddingFitsText, HashFitsText, TypeOK

\* What a write of row r and a repair of row r leave of the others is clear;
\* these say what they make of r itself, and of the candidates.
LEMMA FitsWrite ==
    ASSUME FitsInv, Write
    PROVE  FitsInv'
  <1> USE DEF FitsInv
  <1>1. PICK r \in Rows, s \in Source, t \in Source, h \in Hash :
          /\ s.summary = t.summary /\ h \in {RawHash(t), NormHash(t)}
          /\ Store(r, s, h, t)
          /\ present' = present \cup {r}
    BY WriteStores
  <1>2. PICK v \in {NoVector, Embedded(t)} :
          /\ vector' = [vector EXCEPT ![r] = v]
          /\ pass' = [k \in Repairers |->
                        IF v = NoVector THEN pass[k]
                        ELSE [pass[k] EXCEPT !.owed = @ \ {r}]]
    BY <1>1 DEF Store
  <1>3. /\ source' = [source EXCEPT ![r] = s] /\ hash' = [hash EXCEPT ![r] = h]
    BY <1>1 DEF Store
  <1>4. /\ h # NoHash /\ Folded[h.summary] = Folded[s.summary]
        /\ v # NoVector => v.summary = s.summary
    BY <1>1, SourceTypes
  <1>5. TypeOK'
    BY TypeWrite
  <1>6. /\ source'[r] = s /\ hash'[r] = h /\ vector'[r] = v
        /\ \A o \in Rows \ {r} :
             source'[o] = source[o] /\ hash'[o] = hash[o] /\ vector'[o] = vector[o]
    BY <1>2, <1>3 DEF TypeOK
  <1>7. EmbeddingFitsText' /\ HashFitsText'
    <2> SUFFICES ASSUME NEW o \in present'
                 PROVE  /\ hash'[o] # NoHash =>
                             Folded[hash'[o].summary] = Folded[source'[o].summary]
                        /\ vector'[o] # NoVector =>
                             /\ hash'[o] # NoHash
                             /\ Folded[vector'[o].summary] = Folded[source'[o].summary]
      BY DEF EmbeddingFitsText, HashFitsText
    <2>1. CASE o = r
      BY <2>1, <1>4, <1>6
    <2>2. CASE o # r
      BY <2>2, <1>1, <1>6 DEF EmbeddingFitsText, HashFitsText, TypeOK
    <2> QED BY <2>1, <2>2
  <1>8. \A k \in Repairers : pass'[k].batch = pass[k].batch
    BY <1>2 DEF TypeOK, Pass
  <1>9. BatchesFit'
    <2> SUFFICES ASSUME NEW k \in Repairers, NEW c \in pass[k].batch
                 PROVE  Remembered(c)'
      BY <1>8 DEF BatchesFit
    <2>1. Remembered(c) /\ c.id \in Rows
      BY DEF BatchesFit, TypeOK, Pass, Candidate
    <2> QED BY <2>1, <1>1, <1>4, <1>6 DEF Remembered
  <1> QED BY <1>5, <1>7, <1>9

\* A row that was selected is remembered as it is.
LEMMA SelectedFits ==
    ASSUME FitsInv, NEW r \in present
    PROVE  Remembered(CandidateOf(r))
  BY DEF FitsInv, HashFitsText, Remembered, CandidateOf

LEMMA FitsRepaired ==
    ASSUME FitsInv, NEW k \in Repairers, NEW c \in pass[k].batch, Repaired(k, c)
    PROVE  FitsInv'
  <1> USE DEF FitsInv
  <1> DEFINE r == c.id
  <1> DEFINE h == NormHash(c.source)
  <1> DEFINE v == Embedded(c.source)
  <1>1. /\ Remembered(c) /\ r \in Rows /\ r \in present /\ c.source \in Source
        /\ source[r] \in Source
    BY DEF BatchesFit, TypeOK, Pass, Candidate, Remembered
  <1>2. /\ h # NoHash /\ v # NoVector
        /\ Folded[h.summary] = Folded[c.source.summary]
        /\ v.summary = c.source.summary
    BY <1>1, SourceTypes
  <1>3. Folded[c.source.summary] = Folded[source[r].summary]
    <2>1. hash[r] = c.hash
      BY DEF Repaired, Unchanged
    <2>2. CASE c.hash = NoHash
      BY <1>1, <2>1, <2>2 DEF Remembered
    <2>3. CASE c.hash # NoHash
      BY <1>1, <2>1, <2>3 DEF Remembered, HashFitsText
    <2> QED BY <2>2, <2>3
  <1>4. /\ source' = source /\ present' = present /\ hash'[r] = h /\ vector'[r] = v
        /\ \A o \in Rows \ {r} : hash'[o] = hash[o] /\ vector'[o] = vector[o]
    BY <1>1 DEF Repaired, TypeOK
  <1>5. EmbeddingFitsText' /\ HashFitsText'
    <2> HIDE DEF h, v
    <2> SUFFICES ASSUME NEW o \in present
                 PROVE  /\ hash'[o] # NoHash =>
                             Folded[hash'[o].summary] = Folded[source[o].summary]
                        /\ vector'[o] # NoVector =>
                             /\ hash'[o] # NoHash
                             /\ Folded[vector'[o].summary] = Folded[source[o].summary]
      BY <1>4 DEF EmbeddingFitsText, HashFitsText
    <2>1. CASE o = r
      BY <2>1, <1>2, <1>3, <1>4
    <2>2. CASE o # r
      BY <2>2, <1>4 DEF EmbeddingFitsText, HashFitsText, TypeOK
    <2> QED BY <2>1, <2>2
  <1>6. \A i \in Repairers : pass'[i].batch \subseteq pass[i].batch
    BY DEF Repaired, Rest, TypeOK, Pass
  <1>7. BatchesFit'
    <2> HIDE DEF h, v
    <2> SUFFICES ASSUME NEW i \in Repairers, NEW d \in pass[i].batch
                 PROVE  Remembered(d)'
      BY <1>6 DEF BatchesFit
    <2>1. Remembered(d) /\ d.id \in Rows
      BY DEF BatchesFit, TypeOK, Pass, Candidate
    <2> QED BY <2>1, <1>2, <1>4 DEF Remembered
  <1>8. TypeOK'
    BY TypeRepairer DEF RepairerNext
  <1> QED BY <1>5, <1>7, <1>8

\* A step that leaves the rows alone and selects only rows as they are.
LEMMA FitsUntouched ==
    ASSUME FitsInv, TypeOK', UNCHANGED <<present, source, hash, vector>>,
           \A i \in Repairers : \A c \in pass'[i].batch :
               c \in pass[i].batch \/ Remembered(c)
    PROVE  FitsInv'
  <1>1. \A i \in Repairers : \A c \in pass'[i].batch : Remembered(c)
    BY DEF FitsInv, BatchesFit
  <1>2. BatchesFit'
    BY <1>1 DEF BatchesFit, Remembered
  <1> QED BY <1>2 DEF FitsInv, EmbeddingFitsText, HashFitsText

LEMMA FitsRepairer ==
    ASSUME FitsInv, NEW k \in Repairers, RepairerNext(k)
    PROVE  FitsInv'
  <1>1. TypeOK' /\ TypeOK /\ pass \in [Repairers -> Pass]
    BY TypeRepairer DEF FitsInv, TypeOK
  <1>2. CASE HandlerSelects(k)
    <2>1. PICK S \in SUBSET Selectable :
            pass' = [pass EXCEPT ![k].pc = "rows",
                       ![k].batch = {CandidateOf(r) : r \in {x \in S : Stale(x)}}]
      BY <1>2 DEF HandlerSelects
    <2>2. \A c \in {CandidateOf(r) : r \in {x \in S : Stale(x)}} : Remembered(c)
      BY SelectedFits DEF Selectable
    <2>3. \A i \in Repairers : \A c \in pass'[i].batch :
            c \in pass[i].batch \/ c \in {CandidateOf(r) : r \in {x \in S : Stale(x)}}
      BY <1>1, <2>1 DEF Pass
    <2> QED BY <1>1, <1>2, <2>2, <2>3, FitsUntouched DEF HandlerSelects
  <1>3. CASE DrainSelects(k)
    <2>1. PICK S \in SUBSET Ahead(k), last \in Ahead(k) :
            pass' = [pass EXCEPT ![k].pc = "rows", ![k].cursor = last,
                                 ![k].batch = {CandidateOf(r) : r \in S}]
      BY <1>3 DEF DrainSelects
    <2> DEFINE B == {CandidateOf(r) : r \in S}
    <2>2. \A c \in B : Remembered(c)
      BY SelectedFits DEF Ahead, Missing
    <2>3. \A i \in Repairers : \A c \in pass'[i].batch : c \in pass[i].batch \/ c \in B
      <3> HIDE DEF B
      <3>1. pass' = [pass EXCEPT ![k].pc = "rows", ![k].cursor = last, ![k].batch = B]
        BY <2>1 DEF B
      <3>2. \A i \in Repairers : pass'[i].batch = IF i = k THEN B ELSE pass[i].batch
        BY <1>1, <3>1 DEF Pass
      <3> QED BY <3>2
    <2> QED BY <1>1, <1>3, <2>2, <2>3, FitsUntouched DEF DrainSelects
  <1>4. CASE DrainStarts(k)
    <2>1. \A i \in Repairers : pass'[i].batch = IF i = k THEN {} ELSE pass[i].batch
      BY <1>1, <1>4 DEF DrainStarts, Idle
    <2> QED BY <1>1, <1>4, <2>1, FitsUntouched DEF DrainStarts
  <1>5. CASE DrainEnds(k)
    <2>1. \A i \in Repairers : pass'[i].batch = pass[i].batch
      BY <1>1, <1>5 DEF DrainEnds, Pass
    <2> QED BY <1>1, <1>5, <2>1, FitsUntouched DEF DrainEnds
  <1>6. CASE Abandon(k)
    <2>1. \A i \in Repairers : pass'[i].batch = IF i = k THEN {} ELSE pass[i].batch
      BY <1>1, <1>6 DEF Abandon, Idle
    <2> QED BY <1>1, <1>6, <2>1, FitsUntouched DEF Abandon
  <1>7. ASSUME NEW c \in pass[k].batch, NotRepaired(k, c)
        PROVE  FitsInv'
    <2>1. \A i \in Repairers : pass'[i].batch \subseteq pass[i].batch
      BY <1>1, <1>7 DEF NotRepaired, Rest, Pass
    <2> QED BY <1>1, <1>7, <2>1, FitsUntouched DEF NotRepaired
  <1>8. ASSUME NEW c \in pass[k].batch, Repaired(k, c)
        PROVE  FitsInv'
    BY <1>8, FitsRepaired
  <1> QED BY <1>2, <1>3, <1>4, <1>5, <1>6, <1>7, <1>8 DEF RepairerNext

LEMMA FitsStep == FitsInv /\ [Next]_rvars => FitsInv'
  <1> SUFFICES ASSUME FitsInv, [Next]_rvars PROVE FitsInv'
    OBVIOUS
  <1>1. CASE UNCHANGED rvars
    <2>1. TypeOK'
      BY <1>1, TypeStep DEF FitsInv
    <2> QED BY <2>1, <1>1 DEF rvars, FitsInv, EmbeddingFitsText, HashFitsText,
                              BatchesFit, Remembered
  <1> QED BY <1>1, FitsWrite, FitsRepairer DEF Next

(***************************************************************************)
(* A stored embedding is of the row's own summary, whatever was saved and  *)
(* edited while handlers and drains had its text embedded: the guard on    *)
(* the observed content_hash lets no older summary through.                *)
(***************************************************************************)
THEOREM RepairFitsText == Spec => []EmbeddingFitsText
  <1>1. FitsInv => EmbeddingFitsText
    BY DEF FitsInv
  <1> QED BY <1>1, FitsInit, FitsStep, PTL DEF Spec

-----------------------------------------------------------------------------
(* DrainReachesAll                                                           *)

LEMMA ReachInit == Init => ReachInv
  BY TypeInit DEF Init, ReachInv, OwedAhead, Idle, Repairers

\* What is true of one drain is all there is to show.
LEMMA OwedShown ==
    ASSUME TypeOK',
           \A d \in Drains : \A r \in pass'[d].owed :
               r \in Missing' /\ StillToCome(pass'[d], r)
    PROVE  ReachInv'
  BY DEF ReachInv, OwedAhead

LEMMA ReachWrite ==
    ASSUME ReachInv, Write
    PROVE  ReachInv'
  <1>1. TypeOK /\ TypeOK'
    BY TypeWrite DEF ReachInv
  <1>2. PICK x \in Rows, s \in Source, t \in Source, h \in Hash :
          /\ Store(x, s, h, t)
          /\ present' = present \cup {x}
    BY <1>1, WriteStores
  <1>3. PICK v \in {NoVector, Embedded(t)} :
          /\ vector' = [vector EXCEPT ![x] = v]
          /\ pass' = [k \in Repairers |->
                        IF v = NoVector THEN pass[k]
                        ELSE [pass[k] EXCEPT !.owed = @ \ {x}]]
    BY <1>2 DEF Store
  <1>4. ASSUME NEW d \in Drains, NEW r \in pass'[d].owed
        PROVE  r \in Missing' /\ StillToCome(pass'[d], r)
    <2>1. d \in Repairers /\ pass[d] \in Pass
      BY <1>1 DEF Repairers, TypeOK
    <2>2. /\ r \in pass[d].owed /\ (v = NoVector \/ r # x)
          /\ pass'[d].pc = pass[d].pc /\ pass'[d].cursor = pass[d].cursor
          /\ pass'[d].batch = pass[d].batch
      BY <1>3, <2>1 DEF Pass
    <2>3. r \in Missing /\ StillToCome(pass[d], r)
      BY <2>2 DEF ReachInv, OwedAhead
    <2>4. r \in Missing'
      BY <1>1, <1>2, <1>3, <2>2, <2>3 DEF Missing, TypeOK
    <2>5. StillToCome(pass'[d], r)
      BY <2>2, <2>3 DEF StillToCome
    <2> QED BY <2>4, <2>5
  <1> QED BY <1>1, <1>4, OwedShown

\* One candidate's turn is over: the rows that are still owed one are those
\* of the other candidates, and those behind the cursor.
LEMMA TurnOver ==
    ASSUME NEW q \in Pass, NEW k \in Drains, NEW c \in q.batch, q.pc = "rows",
           NEW r, r # c.id, StillToCome(q, r)
    PROVE  StillToCome(Rest(q, k, c), r)
  <1> DEFINE p == Rest(q, k, c)
  <1>1. /\ p.batch = q.batch \ {c} /\ p.cursor = q.cursor
        /\ p.pc = IF q.batch = {c} THEN "select" ELSE "rows"
    BY DEF Rest, Pass
  <1>2. r > q.cursor \/ \E b \in q.batch : b.id = r
    BY DEF StillToCome
  <1>3. ASSUME NEW b \in q.batch, b.id = r
        PROVE  b \in q.batch \ {c}
    BY <1>3
  <1> HIDE DEF p
  <1>4. StillToCome(p, r)
    <2>1. CASE q.batch = {c}
      BY <1>1, <1>2, <1>3, <2>1 DEF StillToCome
    <2>2. CASE q.batch # {c}
      BY <1>1, <1>2, <1>3, <2>2 DEF StillToCome
    <2> QED BY <2>1, <2>2
  <1> QED BY <1>4 DEF p

LEMMA ReachRepairer ==
    ASSUME ReachInv, NEW k \in Repairers, RepairerNext(k)
    PROVE  ReachInv'
  <1>1. TypeOK /\ TypeOK' /\ pass \in [Repairers -> Pass]
    BY TypeRepairer DEF ReachInv, TypeOK
  <1>2. \A d \in Drains : d \in Repairers /\ pass[d] \in Pass /\ d \notin Handlers
    BY <1>1, RepairAssumption DEF Repairers
  <1>3. \A d \in Drains : \A r \in pass[d].owed :
          r \in Missing /\ StillToCome(pass[d], r)
    BY DEF ReachInv, OwedAhead
  <1>4. ASSUME UNCHANGED <<present, vector>>,
               \A i \in Repairers \ {k} : pass'[i] = pass[i],
               k \in Drains => \A r \in pass'[k].owed :
                   r \in Missing /\ StillToCome(pass'[k], r)
        PROVE  ReachInv'
    <2>1. Missing' = Missing
      BY <1>4 DEF Missing
    <2>2. ASSUME NEW d \in Drains, NEW r \in pass'[d].owed
          PROVE  r \in Missing' /\ StillToCome(pass'[d], r)
      <3>1. CASE d = k
        BY <1>4, <2>1, <2>2, <3>1
      <3>2. CASE d # k
        BY <1>2, <1>3, <1>4, <2>1, <2>2, <3>2
      <3> QED BY <3>1, <3>2
    <2> QED BY <1>1, <2>2, OwedShown
  <1>5. CASE k \in Handlers /\ HandlerSelects(k)
    <2>1. \A i \in Repairers \ {k} : pass'[i] = pass[i]
      BY <1>1, <1>5 DEF HandlerSelects
    <2> QED BY <1>2, <1>4, <1>5, <2>1 DEF HandlerSelects
  <1>6. CASE k \in Drains /\ DrainStarts(k)
    <2>1. pass' = [pass EXCEPT ![k] = [Idle EXCEPT !.pc = "select", !.owed = Missing]]
      BY <1>6 DEF DrainStarts
    <2>2. /\ pass'[k].owed = Missing /\ pass'[k].pc = "select" /\ pass'[k].cursor = 0
          /\ \A i \in Repairers \ {k} : pass'[i] = pass[i]
      BY <1>1, <2>1 DEF Idle
    <2>3. \A r \in Missing : r > 0
      BY <1>1, RepairAssumption DEF Missing, TypeOK, Rows
    <2>4. \A r \in pass'[k].owed : r \in Missing /\ StillToCome(pass'[k], r)
      BY <2>2, <2>3 DEF StillToCome
    <2> QED BY <1>4, <1>6, <2>2, <2>4 DEF DrainStarts
  <1>7. CASE k \in Drains /\ DrainSelects(k)
    <2>1. PICK S \in SUBSET Ahead(k), last \in Ahead(k) :
            /\ Leading(S, Ahead(k))
            /\ last \in S
            /\ pass' = [pass EXCEPT ![k].pc = "rows", ![k].cursor = last,
                                    ![k].batch = {CandidateOf(r) : r \in S}]
      BY <1>7 DEF DrainSelects
    <2> DEFINE B == {CandidateOf(r) : r \in S}
    <2>2. /\ pass'[k].owed = pass[k].owed /\ pass'[k].pc = "rows"
          /\ pass'[k].cursor = last /\ pass'[k].batch = B
          /\ \A i \in Repairers \ {k} : pass'[i] = pass[i]
      <3> HIDE DEF B
      <3>1. pass' = [pass EXCEPT ![k].pc = "rows", ![k].cursor = last, ![k].batch = B]
        BY <2>1 DEF B
      <3> QED BY <1>1, <3>1 DEF Pass
    <2>3. ASSUME NEW r \in pass[k].owed
          PROVE  r \in Missing /\ StillToCome(pass'[k], r)
      <3>1. r \in Ahead(k)
        BY <1>3, <1>7, <2>3 DEF StillToCome, Ahead, DrainSelects
      <3>2. CASE r \in S
        <4>1. CandidateOf(r) \in B /\ CandidateOf(r).id = r
          BY <3>2 DEF CandidateOf
        <4> QED BY <2>2, <3>1, <4>1 DEF StillToCome, Ahead
      <3>3. CASE r \notin S
        <4>1. last < r
          BY <2>1, <3>1, <3>3 DEF Leading
        <4>2. last \in Int /\ r \in Int
          BY <1>1, <3>1 DEF Ahead, Missing, TypeOK, Rows
        <4> QED BY <2>2, <3>1, <4>1, <4>2 DEF StillToCome, Ahead
      <3> QED BY <3>2, <3>3
    <2> QED BY <1>4, <1>7, <2>2, <2>3 DEF DrainSelects
  <1>8. CASE k \in Drains /\ DrainEnds(k)
    <2>1. /\ pass'[k].owed = pass[k].owed
          /\ \A i \in Repairers \ {k} : pass'[i] = pass[i]
      BY <1>1, <1>8 DEF DrainEnds, Pass
    <2>2. pass[k].owed = {}
      BY <1>3, <1>8 DEF DrainEnds, Ahead, StillToCome
    <2> QED BY <1>4, <1>8, <2>1, <2>2 DEF DrainEnds
  <1>9. CASE Abandon(k)
    <2>1. pass'[k].owed = {} /\ \A i \in Repairers \ {k} : pass'[i] = pass[i]
      BY <1>1, <1>9 DEF Abandon, Idle
    <2> QED BY <1>4, <1>9, <2>1 DEF Abandon
  <1>10. ASSUME NEW c \in pass[k].batch, NotRepaired(k, c)
         PROVE  ReachInv'
    <2>1. \A i \in Repairers \ {k} : pass'[i] = pass[i]
      BY <1>1, <1>10 DEF NotRepaired
    <2>2. pass[k] \in Pass /\ Rest(pass[k], k, c) \in Pass
          /\ Rest(pass[k], k, c).owed = pass[k].owed
      BY <1>1 DEF Rest, Pass
    <2>3. pass'[k] = [Rest(pass[k], k, c) EXCEPT !.owed = @ \ {c.id}]
      BY <1>1, <1>10 DEF NotRepaired
    <2>4. /\ pass'[k].owed = pass[k].owed \ {c.id}
          /\ pass'[k].pc = Rest(pass[k], k, c).pc
          /\ pass'[k].cursor = Rest(pass[k], k, c).cursor
          /\ pass'[k].batch = Rest(pass[k], k, c).batch
      BY <2>2, <2>3 DEF Pass
    <2>5. ASSUME k \in Drains, NEW r \in pass'[k].owed
          PROVE  r \in Missing /\ StillToCome(pass'[k], r)
      <3>1. r \in Missing /\ StillToCome(pass[k], r) /\ r # c.id
        BY <1>3, <2>4, <2>5
      <3>2. StillToCome(Rest(pass[k], k, c), r)
        BY <1>10, <2>2, <2>5, <3>1, TurnOver DEF NotRepaired, Turn
      <3> QED BY <2>4, <3>1, <3>2 DEF StillToCome
    <2> QED BY <1>4, <1>10, <2>1, <2>5 DEF NotRepaired
  <1>11. ASSUME NEW c \in pass[k].batch, Repaired(k, c)
         PROVE  ReachInv'
    <2>1. pass' = [i \in Repairers |->
                     [(IF i = k THEN Rest(pass[i], k, c) ELSE pass[i])
                        EXCEPT !.owed = @ \ {c.id}]]
      BY <1>11 DEF Repaired
    <2>2. ASSUME NEW d \in Drains, NEW r \in pass'[d].owed
          PROVE  r \in Missing' /\ StillToCome(pass'[d], r)
      <3> DEFINE p == IF d = k THEN Rest(pass[d], k, c) ELSE pass[d]
      <3>1. p \in Pass /\ p.owed = pass[d].owed /\ pass[d] \in Pass
        BY <1>2 DEF Rest, Pass
      <3>2. pass'[d] = [p EXCEPT !.owed = @ \ {c.id}]
        BY <1>2, <2>1
      <3>3. /\ pass'[d].owed = pass[d].owed \ {c.id}
            /\ pass'[d].pc = p.pc /\ pass'[d].cursor = p.cursor
            /\ pass'[d].batch = p.batch
        <4> HIDE DEF p
        <4> QED BY <3>1, <3>2 DEF Pass
      <3>4. r \in Missing /\ StillToCome(pass[d], r) /\ r # c.id
        BY <1>3, <2>2, <3>3
      <3>5. r \in Missing'
        BY <1>1, <1>11, <3>4 DEF Repaired, Missing, TypeOK
      <3>6. StillToCome(p, r)
        <4>1. CASE d = k
          BY <1>11, <3>1, <3>4, <4>1, TurnOver DEF Repaired, Turn
        <4>2. CASE d # k
          BY <3>4, <4>2
        <4> QED BY <4>1, <4>2
      <3>7. StillToCome(pass'[d], r)
        <4> HIDE DEF p
        <4> QED BY <3>3, <3>6 DEF StillToCome
      <3> QED BY <3>5, <3>7
    <2> QED BY <1>1, <2>2, OwedShown
  <1> QED BY <1>5, <1>6, <1>7, <1>8, <1>9, <1>10, <1>11 DEF RepairerNext

LEMMA ReachStep == ReachInv /\ [Next]_rvars => ReachInv'
  <1> SUFFICES ASSUME ReachInv, [Next]_rvars PROVE ReachInv'
    OBVIOUS
  <1>1. CASE UNCHANGED rvars
    BY <1>1, TypeStep DEF rvars, ReachInv, OwedAhead, Missing, StillToCome
  <1> QED BY <1>1, ReachWrite, ReachRepairer DEF Next

(***************************************************************************)
(* A drain that ran to its end passed over no row that had no embedding    *)
(* from its start on: each is in its batch or behind its cursor until it   *)
(* has had its turn, and the keyset ends when nothing is behind it.        *)
(***************************************************************************)
THEOREM DrainPassesNoneOver == Spec => []DrainReachesAll
  <1>1. ReachInv => DrainReachesAll
    BY DEF ReachInv, OwedAhead, StillToCome, DrainReachesAll, TypeOK, Repairers, Pass
  <1> QED BY <1>1, ReachInit, ReachStep, PTL DEF Spec
=============================================================================
