--------------------------- MODULE EmbeddingRepair ---------------------------
(***************************************************************************)
(* The repair of missing and stale embeddings of the sessions table: the   *)
(* queue's handler and the repair-embeddings command select rows, have     *)
(* their text embedded outside any lock, and write back behind a guard on  *)
(* the content_hash they saw, while writers go on saving and editing the   *)
(* same rows.                                                              *)
(*                                                                         *)
(* A row's content_hash covers its summary and project; its embedding is   *)
(* made of the summary and the rest (key decisions, next steps, blockers). *)
(* A hash is modelled by what was hashed, and a vector by what was         *)
(* embedded.  Rows are numbered in the order of their ids.                 *)
(*                                                                         *)
(* An operator whose name ends in _Slip is another one with a plausible    *)
(* slip in it.  No behaviour of the system uses it.                        *)
(***************************************************************************)
EXTENDS Integers, FiniteSets

CONSTANTS
    MaxRows,        \* bound: rows of the table
    Summaries,
    Projects,
    Rests,          \* key_decisions, next_steps and blockers together
    Folded,         \* a summary in lower case with its white space collapsed
    Handlers,       \* executions of embedding.repair jobs
    Drains,         \* runs of the repair-embeddings command
    Batch,          \* rows of one selection
    MaxWrites,      \* bound: saves and edits
    NoHash, NoVector

Source == [summary: Summaries, project: Projects, rest: Rests]
Hash == [summary: Summaries, project: Projects]
Vector == [summary: Summaries, rest: Rests]

ASSUME RepairAssumption ==
    /\ MaxRows \in Nat \ {0} /\ Batch \in Nat \ {0} /\ MaxWrites \in Nat
    /\ Folded \in [Summaries -> Summaries]
    /\ \A s \in Summaries : Folded[Folded[s]] = Folded[s]
    /\ Handlers \cap Drains = {}
    /\ NoHash \notin Hash /\ NoVector \notin Vector

VARIABLES
    present,    \* the rows of the table
    source,     \* their source columns
    hash,       \* their content_hash
    vector,     \* their embedding
    pass,       \* what each handler and each drain is doing
    writes      \* how many saves and edits took place

rvars == <<present, source, hash, vector, pass, writes>>

Rows == 1 .. MaxRows
Repairers == Handlers \cup Drains

\* A selected row as it was then: id, source and stored hash.
Candidate == [id: Rows, source: Source, hash: Hash \cup {NoHash}]

Pass == [pc: {"idle", "select", "rows", "done"},
         batch: SUBSET Candidate,   \* the selected rows still to be repaired
         cursor: 0 .. MaxRows,      \* afterId
         owed: SUBSET Rows]         \* history: missing since the drain began, without a turn

Idle == [pc |-> "idle", batch |-> {}, cursor |-> 0, owed |-> {}]

\* contentHash of the tools, and normalizedContentHash of REST and repair.
RawHash(s) == [summary |-> s.summary, project |-> s.project]
NormHash(s) == [summary |-> Folded[s.summary], project |-> s.project]

\* sessionEmbedText, embedded.
Embedded(s) == [summary |-> s.summary, rest |-> s.rest]

\* The unique index on content_hash.
Taken(h, r) == \E o \in present \ {r} : hash[o] = h

Missing == {r \in present : vector[r] = NoVector}

\* Rows an earlier version stored without an embedding, some without a hash.
Init ==
    /\ present \in SUBSET Rows
    /\ source \in [Rows -> Source]
    /\ hash \in [Rows -> Hash \cup {NoHash}]
    /\ \A r \in present : hash[r] \in {NoHash, RawHash(source[r])}
    /\ \A r \in Rows \ present :
         hash[r] = NoHash /\ source[r] = CHOOSE s \in Source : TRUE
    /\ \A r, o \in present : r # o /\ hash[r] # NoHash => hash[r] # hash[o]
    /\ vector = [r \in Rows |-> NoVector]
    /\ pass = [k \in Repairers |-> Idle]
    /\ writes = 0

-----------------------------------------------------------------------------
(* Writers: one statement each, its embedding made before it or under the   *)
(* row's lock, and absent when the provider failed                          *)

\* The row's columns after a write of source s with hash h.
Store(r, s, h, embedded) ==
    /\ source' = [source EXCEPT ![r] = s]
    /\ hash' = [hash EXCEPT ![r] = h]
    /\ \E v \in {NoVector, Embedded(embedded)} :
         /\ vector' = [vector EXCEPT ![r] = v]
         /\ pass' = [k \in Repairers |->
                       IF v = NoVector THEN pass[k]
                       ELSE [pass[k] EXCEPT !.owed = @ \ {r}]]
    /\ writes < MaxWrites /\ writes' = writes + 1

\* session_wrap, and session_save or POST /sessions of a new session: a row
\* that holds the hash already makes it store nothing.  The id is random.
InsertSession(r, s, h) ==
    /\ r \notin present
    /\ ~Taken(h, r)
    /\ present' = present \cup {r}
    /\ Store(r, s, h, s)

\* session_save or POST /sessions of a known session_id: the project column
\* stays, although the hash is of the project that was sent.  The statement
\* fails when another row holds the hash.
UpsertSession(r, s, h) ==
    /\ r \in present
    /\ ~Taken(h, r)
    /\ Store(r, [s EXCEPT !.project = source[r].project], h, s)
    /\ UNCHANGED present

\* update_entry, with the row locked from its first read to its commit.
UpdateEntry(r, s) ==
    /\ r \in present
    /\ ~Taken(RawHash(s), r)
    /\ Store(r, s, RawHash(s), s)
    /\ UNCHANGED present

Write ==
    \E r \in Rows, s \in Source :
        \/ \E h \in {RawHash(s), NormHash(s)} :
             InsertSession(r, s, h) \/ UpsertSession(r, s, h)
        \/ UpdateEntry(r, s)

-----------------------------------------------------------------------------
(* Selection *)

CandidateOf(r) == [id |-> r, source |-> source[r], hash |-> hash[r]]

\* rowReasons: no embedding, or a stored hash that is not that of the source.
Stale(r) ==
    vector[r] = NoVector \/ hash[r] \notin {NoHash, NormHash(source[r])}

\* The statement's filter for all reasons: drift is decided after the LIMIT.
Selectable ==
    {r \in present : vector[r] = NoVector \/ hash[r] # NoHash}

\* LIMIT: some of T, all of T when it is small enough.
Limited(S, T) ==
    /\ S \subseteq T
    /\ Cardinality(S) <= Batch
    /\ Cardinality(S) = Batch \/ S = T

\* A job's handler selects one batch, in no order, and ends when none of its
\* rows is stale.
HandlerSelects(k) ==
    /\ pass[k].pc = "idle"
    /\ \E S \in SUBSET Selectable :
         /\ Limited(S, Selectable)
         /\ \E r \in S : Stale(r)
         /\ pass' = [pass EXCEPT ![k].pc = "rows",
                                 ![k].batch = {CandidateOf(r) : r \in {x \in S : Stale(x)}}]
    /\ UNCHANGED <<present, source, hash, vector, writes>>

DrainStarts(k) ==
    /\ pass[k].pc \in {"idle", "done"}
    /\ pass' = [pass EXCEPT ![k] = [Idle EXCEPT !.pc = "select", !.owed = Missing]]
    /\ UNCHANGED <<present, source, hash, vector, writes>>

\* The missing rows behind the cursor.
Ahead(k) == {r \in Missing : r > pass[k].cursor}

\* The cursor without the order.
Leading_Slip(S, T) == Limited(S, T)

\* The first rows of the keyset.
Leading(S, T) == Limited(S, T) /\ \A r \in S, o \in T \ S : r < o

\* The batch of a drain moves the cursor to its last row.
DrainSelects(k) ==
    /\ pass[k].pc = "select"
    /\ Ahead(k) # {}
    /\ \E S \in SUBSET Ahead(k), last \in Ahead(k) :
         /\ Leading(S, Ahead(k))
         /\ last \in S /\ \A r \in S : r <= last
         /\ pass' = [pass EXCEPT ![k].pc = "rows", ![k].cursor = last,
                                 ![k].batch = {CandidateOf(r) : r \in S}]
    /\ UNCHANGED <<present, source, hash, vector, writes>>

DrainEnds(k) ==
    /\ pass[k].pc = "select"
    /\ Ahead(k) = {}
    /\ pass' = [pass EXCEPT ![k].pc = "done"]
    /\ UNCHANGED <<present, source, hash, vector, writes>>

-----------------------------------------------------------------------------
(* repairOne *)

\* The candidate whose turn it is: a drain goes by id.
Turn(k, c) ==
    /\ pass[k].pc = "rows"
    /\ c \in pass[k].batch
    /\ k \in Drains => \A d \in pass[k].batch : c.id <= d.id

\* What is left of the batch; with its last row the handler's job is done,
\* and a drain selects again.
Rest(q, k, c) ==
    [q EXCEPT !.batch = @ \ {c},
              !.pc = IF q.batch # {c} THEN @
                     ELSE IF k \in Drains THEN "select" ELSE "idle"]

\* No guard: the row may have been written since it was selected.
Unchanged_Slip(c) == c.id \in present

\* content_hash IS NOT DISTINCT FROM the one observed.
Unchanged(c) == c.id \in present /\ hash[c.id] = c.hash

\* The provider answers and the guarded UPDATE finds the row.
Repaired(k, c) ==
    /\ Turn(k, c)
    /\ Unchanged(c)
    /\ ~Taken(NormHash(c.source), c.id)
    /\ vector' = [vector EXCEPT ![c.id] = Embedded(c.source)]
    /\ hash' = [hash EXCEPT ![c.id] = NormHash(c.source)]
    /\ pass' = [i \in Repairers |->
                  [(IF i = k THEN Rest(pass[i], k, c) ELSE pass[i])
                     EXCEPT !.owed = @ \ {c.id}]]
    /\ UNCHANGED <<present, source, writes>>

\* The provider fails, the guard finds the row changed, or another row holds
\* the hash: the row is left as it is.
NotRepaired(k, c) ==
    /\ Turn(k, c)
    /\ pass' = [pass EXCEPT ![k] = [Rest(pass[k], k, c) EXCEPT !.owed = @ \ {c.id}]]
    /\ UNCHANGED <<present, source, hash, vector, writes>>

\* A statement fails, the process ends, or a drain reaches its bound of
\* batches: the rows that are left wait for another run.
Abandon(k) ==
    /\ pass[k].pc \in {"select", "rows"}
    /\ pass' = [pass EXCEPT ![k] = Idle]
    /\ UNCHANGED <<present, source, hash, vector, writes>>

-----------------------------------------------------------------------------
RepairerNext(k) ==
    \/ k \in Handlers /\ HandlerSelects(k)
    \/ k \in Drains /\ (DrainStarts(k) \/ DrainSelects(k) \/ DrainEnds(k))
    \/ \E c \in pass[k].batch : Repaired(k, c) \/ NotRepaired(k, c)
    \/ Abandon(k)

Next == Write \/ \E k \in Repairers : RepairerNext(k)

Spec == Init /\ [][Next]_rvars

-----------------------------------------------------------------------------
(* Rows hold sources, hashes and vectors of the table's columns, and passes *)
(* the candidates they selected.                                           *)
TypeOK ==
    /\ present \subseteq Rows
    /\ source \in [Rows -> Source]
    /\ hash \in [Rows -> Hash \cup {NoHash}]
    /\ vector \in [Rows -> Vector \cup {NoVector}]
    /\ pass \in [Repairers -> Pass]
    /\ writes \in Nat

(***************************************************************************)
(* A stored embedding is of the row's own summary, up to case and white    *)
(* space, although repairs write what they read before the row was saved   *)
(* or edited again: the guard on the observed content_hash stands between. *)
(* It speaks of what the hash covers.  Of the rest it cannot: an edit of   *)
(* key_decisions alone leaves the hash as it was, and a repair that read   *)
(* the row before it puts the old embedding back.                          *)
(***************************************************************************)
EmbeddingFitsText ==
    \A r \in present :
        vector[r] # NoVector =>
            Folded[vector[r].summary] = Folded[source[r].summary]

(***************************************************************************)
(* A drain that ran to its end gave a turn to every row that had no        *)
(* embedding from its start on, however many of the rows before it could   *)
(* not be repaired, and whatever was inserted, saved or repaired by others *)
(* in the meantime.                                                        *)
(***************************************************************************)
DrainReachesAll ==
    \A k \in Drains : pass[k].pc = "done" => pass[k].owed = {}
=============================================================================
