---------------------------- MODULE RecoveryWal ----------------------------
(***************************************************************************)
(* The quarantined recovery store: sessions in memory, and a journal it is *)
(* rebuilt from when the process starts.                                   *)
(*                                                                         *)
(* A call is synchronous, so calls do not interleave; but it writes the    *)
(* journal row by row, and at each row the process can die or the write    *)
(* can fail.  A call is therefore worked out as a transaction: the store   *)
(* and the file it ends with and, for each row it writes, the moment of    *)
(* the write, with the store and the file as they then stand.  A fault     *)
(* picks the moment it strikes.                                            *)
(*                                                                         *)
(* A definition D_Slip is D with one plausible slip in the code; no action *)
(* uses it.  It serves to see that a property notices the slip.            *)
(***************************************************************************)
EXTENDS RealtimeSessions, FiniteSets

CONSTANTS
    Statuses,     \* statuses callers use, of RECOVERY_WAL_STATUSES
    NewStatuses,  \* those they use for an append
    Faults,       \* bound: how many faults of each kind can happen together
    MaxStarts,    \* bound: process starts
    MaxMarks      \* bound: accepted marks

\* The process dies at a row or in the compaction; a write fails whole or short.
FaultKinds == {"crash", "compaction", "throw", "short"}

ASSUME WalAssumption ==
    /\ Faults \subseteq [FaultKinds -> Nat]
    /\ NewStatuses \subseteq Statuses
    /\ MaxStarts \in Nat /\ MaxMarks \in Nat

VARIABLES
    up,       \* the process runs
    store,    \* sessions and nextId
    journal,  \* the rows of the file
    answer,   \* how the last call of a running process ended
    hist      \* history: see Hist

wvars == <<now, up, store, journal, answer, hist>>

Pending == {"active", "recovery_pending"}

\* Contents tell records apart: the n-th accepted append has content n.
Item == [id: Nat, content: 1 .. MaxAppends, size: Nat,
         status: Statuses \cup {"expired"}, at: Nat, exp: Nat]

AppendRow(k, item) == [op |-> "append", scope |-> k, item |-> item]
MarkRow(k, id, status) ==
    [op |-> "mark", scope |-> k, id |-> id, status |-> status, at |-> now]
PurgeRow(k, id) == [op |-> "purge", scope |-> k, id |-> id]
Whole == 0                        \* a purge row without an id
Fragment == [op |-> "fragment"]   \* part of a row, without its newline
Garbage == [op |-> "garbage"]     \* a row that continues a fragment's line

Rows == [op: {"append"}, scope: Scopes, item: Item]
        \cup [op: {"mark"}, scope: Scopes, id: Nat,
              status: Statuses \cup {"expired"}, at: Nat]
        \cup [op: {"purge"}, scope: Scopes, id: Nat]
        \cup {Fragment, Garbage}

Store == [sessions: SessionsOf(Item), nextId: Nat]
EmptyStore == [sessions |-> <<>>, nextId |-> 1]

\* acked: the records all whose calls were answered, with the id they have;
\* decided: those whose last answered mark took them out of the pending set;
\* the rest counts events.
Hist == [acked: SUBSET [content: 1 .. MaxAppends, id: Nat],
         decided: SUBSET (1 .. MaxAppends),
         appends: 0 .. MaxAppends, marks: 0 .. MaxMarks,
         starts: 0 .. MaxStarts, left: [FaultKinds -> Nat],
         threw: BOOLEAN, shorts: Nat]

Init ==
    /\ now = 0 /\ up = FALSE
    /\ store = EmptyStore /\ journal = <<>> /\ answer = "none"
    /\ \E left \in Faults :
         hist = [acked |-> {}, decided |-> {}, appends |-> 0, marks |-> 0,
                 starts |-> 0, left |-> left, threw |-> FALSE, shorts |-> 0]

-----------------------------------------------------------------------------
(* Items *)

PlaceOf(items, id) == SelectInSeq(items, LAMBDA x : x.id = id)

SetStatus(items, id, status, at) ==
    LET p == PlaceOf(items, id)
    IN  [items EXCEPT ![p].status = status, ![p].at = at]

Without(items, id) == Filter(items, {x \in ToSet(items) : x.id # id})
Unexpired(items) == Filter(items, {x \in ToSet(items) : x.status # "expired"})

\* isPendingAt, over a whole store: the contents that await review.
PendingIn(st) ==
    UNION {{x.content : x \in {y \in ToSet(s.items) :
                                  y.status \in Pending /\ y.exp > now}} :
           s \in ToSet(st.sessions)}

WithinReplayBudget(item) == item.size <= MaxContent

-----------------------------------------------------------------------------
(* Transactions *)

\* appendFileSync: what is written after a fragment continues its line.
AddRow(rows, row) ==
    IF rows = <<>> \/ Last(rows) # Fragment THEN Append(rows, row)
    ELSE IF row = Fragment THEN rows ELSE Append(Front(rows), Garbage)

Begin == [st |-> store, rows |-> journal, moments |-> {}]

Moment(t) == [st |-> t.st, rows |-> t.rows]

\* writeWal
Write(t, row) ==
    [st |-> t.st, rows |-> AddRow(t.rows, row), moments |-> t.moments \cup {Moment(t)}]

WithStore(t, st) == [st |-> st, rows |-> t.rows, moments |-> t.moments]
WithSessions(t, S) == WithStore(t, [sessions |-> S, nextId |-> t.st.nextId])

\* purgeExpired on one item, then on one session, then on the map.
Due(item) == item.exp <= now /\ item.status # "expired"

ExpireItem(t, k, id) ==
    LET S == t.st.sessions
        i == At(S, k)
        expired == [S EXCEPT ![i].items = SetStatus(S[i].items, id, "expired", now)]
    IN  Write(WithSessions(t, expired), MarkRow(k, id, "expired"))

ExpireSession(t, k) ==
    LET marked == Fold(LAMBDA u, x : IF Due(x) THEN ExpireItem(u, k, x.id) ELSE u,
                       t, ItemsOf(t.st.sessions, k))
        S == marked.st.sessions
    IN  WithSessions(marked, SetItems(S, At(S, k), Unexpired(ItemsOf(S, k))))

PurgeExpired(t) ==
    Fold(LAMBDA u, s : ExpireSession(u, s.scope), t, t.st.sessions)

\* trimSession: the oldest items of the session just appended to.  Slip: the
\* trimmed items are not journaled.
TrimSession_Slip(t, k) ==
    LET S == t.st.sessions
    IN  WithSessions(t, [S EXCEPT ![At(S, k)].items = Newest(S[At(S, k)].items, MaxPerSession)])

TrimSession(t, k) ==
    LET S == t.st.sessions
        items == S[At(S, k)].items
        kept == Newest(items, MaxPerSession)
        removed == SubSeq(items, 1, Len(items) - Len(kept))
    IN  Fold(LAMBDA u, x : Write(u, PurgeRow(k, x.id)),
             WithSessions(t, [S EXCEPT ![At(S, k)].items = kept]), removed)

\* trimGlobal, one round: shift, journal, and only then drop an empty session.
TrimOldestItem(t) ==
    LET S == t.st.sessions
        o == Oldest(S)
        items == S[o].items
        shifted == WithSessions(t, [S EXCEPT ![o].items = Tail(items)])
    IN  IF items = <<>> THEN WithSessions(t, RemoveAt(S, o))
        ELSE WithSessions(Write(shifted, PurgeRow(S[o].scope, items[1].id)),
                          ShiftOldest(S))

TrimGlobal(t) ==
    While(LAMBDA u : OverGlobal(u.st.sessions), TrimOldestItem, t,
          GlobalCount(t.st.sessions) + Len(t.st.sessions))

\* trimSessions, one round: here the row comes before the deletion.
TrimOldestSession(t) ==
    LET S == t.st.sessions
    IN  WithSessions(Write(t, PurgeRow(S[Oldest(S)].scope, Whole)),
                     DropOldest(S))

\* One round, as if no call before could have left an excess.
TrimSessions_Slip(t) ==
    IF OverSessions(t.st.sessions) THEN TrimOldestSession(t) ELSE t

TrimSessions(t) ==
    While(LAMBDA u : OverSessions(u.st.sessions), TrimOldestSession, t,
          Len(t.st.sessions))

NewItem(t, content, size, status) ==
    [id |-> t.st.nextId, content |-> content, size |-> size,
     status |-> status, at |-> now, exp |-> now + Ttl]

Accept(t, k, item) ==
    WithStore(t, [sessions |-> Push(t.st.sessions, k, item, now),
                  nextId |-> t.st.nextId + 1])

AppendTx(k, size, status) ==
    LET purged == PurgeExpired(Begin)
        item == NewItem(purged, hist.appends + 1, size, status)
        pushed == TrimSession(Accept(purged, k, item), k)
    IN  IF Rejected(size) THEN purged
        ELSE Write(TrimSessions(TrimGlobal(pushed)), AppendRow(k, item))

\* mark: purge the record outright, or record a decision on it.
Found(t, k, id) == PlaceOf(ItemsOf(t.st.sessions, k), id) # 0

\* The purge is not journaled.
PurgeMarked_Slip(t, k, id) ==
    LET S == t.st.sessions
    IN  WithSessions(t, SetItems(S, At(S, k), Without(ItemsOf(S, k), id)))

PurgeMarked(t, k, id) ==
    LET S == t.st.sessions
    IN  Write(WithSessions(t, SetItems(S, At(S, k), Without(ItemsOf(S, k), id))),
              PurgeRow(k, id))

ApplyDecision(t, k, id, status) ==
    LET S == t.st.sessions
        i == At(S, k)
        decided == [S EXCEPT ![i].items = SetStatus(S[i].items, id, status, now),
                             ![i].at = now]
    IN  Write(WithSessions(t, decided), MarkRow(k, id, status))

MarkTx(k, id, status, purge) ==
    LET t == PurgeExpired(Begin)
    IN  IF ~Found(t, k, id) THEN t
        ELSE IF purge THEN PurgeMarked(t, k, id)
        ELSE ApplyDecision(t, k, id, status)

-----------------------------------------------------------------------------
(* Replay *)

\* The id counter is not restored.
ApplyAppend_Slip(st, row) ==
    IF ~WithinReplayBudget(row.item) THEN st
    ELSE [st EXCEPT !.sessions = Push(st.sessions, row.scope, row.item, row.item.at)]

ApplyAppend(st, row) ==
    IF ~WithinReplayBudget(row.item) THEN st
    ELSE [sessions |-> Push(st.sessions, row.scope, row.item, row.item.at),
          nextId |-> IF row.item.id >= st.nextId
                     THEN row.item.id + 1 ELSE st.nextId]

ApplyPurge(st, row) ==
    LET S == st.sessions
        kept == IF row.id = Whole THEN <<>>
                ELSE Without(ItemsOf(S, row.scope), row.id)
    IN  IF At(S, row.scope) = 0 THEN st
        ELSE [sessions |-> SetItems(S, At(S, row.scope), kept), nextId |-> st.nextId]

ApplyMark(st, row) ==
    LET S == st.sessions
        i == At(S, row.scope)
        marked == [S EXCEPT ![i].items = SetStatus(S[i].items, row.id, row.status, row.at),
                            ![i].at = row.at]
    IN  IF PlaceOf(ItemsOf(S, row.scope), row.id) = 0 THEN st
        ELSE [sessions |-> marked, nextId |-> st.nextId]

\* applyWalRecord; a row that does not parse is skipped.
ApplyRow(st, row) ==
    CASE row.op = "append" -> ApplyAppend(st, row)
      [] row.op = "purge" -> ApplyPurge(st, row)
      [] row.op = "mark" -> ApplyMark(st, row)
      [] OTHER -> st

\* The replay stops at the first row that does not parse.
Replay_Slip(rows) ==
    LET bad == SelectInSeq(rows, LAMBDA r : r \in {Fragment, Garbage})
    IN  Fold(ApplyRow, EmptyStore,
             IF bad = 0 THEN rows ELSE SubSeq(rows, 1, bad - 1))

Replay(rows) == Fold(ApplyRow, EmptyStore, rows)

EnforceReplayBudgets(S) ==
    TrimSessionCount(TrimGlobally(
        [i \in DOMAIN S |-> [S[i] EXCEPT !.items = Newest(S[i].items, MaxPerSession)]]))

Load(rows) ==
    LET st == Replay(rows)
    IN  [sessions |-> EnforceReplayBudgets(st.sessions), nextId |-> st.nextId]

Compacted(S) ==
    Fold(LAMBDA rows, s :
            rows \o [i \in DOMAIN s.items |-> AppendRow(s.scope, s.items[i])],
         <<>>, S)

-----------------------------------------------------------------------------
(* Actions *)

Calling ==
    /\ up
    /\ UNCHANGED now

Answered(t, a) ==
    /\ store' = t.st
    /\ journal' = t.rows
    /\ answer' = a
    /\ UNCHANGED up

Fault(kind) == hist.left[kind] > 0

\* A write fails and the call throws; a write cut short leaves a fragment.
Threw(t, h, kind) ==
    /\ Fault(kind)
    /\ \E m \in t.moments :
         /\ store' = m.st
         /\ journal' = IF kind = "short" THEN AddRow(m.rows, Fragment) ELSE m.rows
    /\ answer' = "threw"
    /\ hist' = [h EXCEPT !.left[kind] = @ - 1, !.threw = TRUE,
                         !.shorts = IF kind = "short" THEN @ + 1 ELSE @]
    /\ UNCHANGED up

\* The process dies between two rows, or while it writes one.
Died(t, h) ==
    /\ Fault("crash")
    /\ \/ \E m \in t.moments \cup {Moment(t)} : journal' = m.rows
       \/ \E m \in t.moments : journal' = AddRow(m.rows, Fragment)
    /\ up' = FALSE /\ store' = EmptyStore /\ answer' = "none"
    /\ hist' = [h EXCEPT !.left["crash"] = @ - 1]

Failed(t, h) == Threw(t, h, "throw") \/ Threw(t, h, "short") \/ Died(t, h)

\* append: rejected, accepted, or cut off.
Appending(k, size) ==
    /\ Calling
    /\ hist.appends < MaxAppends

Counted == [hist EXCEPT !.appends = @ + 1]

AppendRejected(k, size, status) ==
    /\ Appending(k, size)
    /\ Rejected(size)
    /\ \/ Answered(AppendTx(k, size, status), "rejected") /\ UNCHANGED hist
       \/ Failed(AppendTx(k, size, status), hist)

AppendAccepted(k, size, status) ==
    /\ Appending(k, size)
    /\ ~Rejected(size)
    /\ Answered(AppendTx(k, size, status), "accepted")
    /\ hist' = [Counted EXCEPT
         !.acked = @ \cup {[content |-> hist.appends + 1, id |-> store.nextId]}]

AppendFailed(k, size, status) ==
    /\ Appending(k, size)
    /\ ~Rejected(size)
    /\ Failed(AppendTx(k, size, status), Counted)

\* mark: the record of the id is looked up after the TTL took its share.
Marked(k, id) ==
    {x.content : x \in {y \in ToSet(ItemsOf(PurgeExpired(Begin).st.sessions, k)) :
                           y.id = id}}

Marking ==
    /\ Calling
    /\ hist.marks < MaxMarks

MarkNotFound(k, id, status, purge) ==
    LET t == MarkTx(k, id, status, purge)
    IN  /\ Marking
        /\ Marked(k, id) = {}
        /\ \/ Answered(t, "not_found") /\ UNCHANGED hist
           \/ Failed(t, hist)

MarkAccepted(k, id, status, purge) ==
    LET c == Marked(k, id)
    IN  /\ Marking
        /\ c # {}
        /\ Answered(MarkTx(k, id, status, purge), "marked")
        /\ hist' = [hist EXCEPT
             !.marks = @ + 1,
             !.decided = IF purge \/ status \notin Pending
                         THEN @ \cup c ELSE @ \ c]

MarkFailed(k, id, status, purge) ==
    /\ Marking
    /\ Marked(k, id) # {}
    /\ Failed(MarkTx(k, id, status, purge),
              [hist EXCEPT !.marks = @ + 1,
                           !.decided = @ \ Marked(k, id),
                           !.acked = {r \in @ : r.content \notin Marked(k, id)}])

\* The constructor: replay, enforce the budgets, compact.
Starting ==
    /\ ~up /\ hist.starts < MaxStarts
    /\ UNCHANGED now

Start ==
    /\ Starting
    /\ up' = TRUE
    /\ store' = Load(journal)
    /\ journal' = Compacted(Load(journal).sessions)
    /\ answer' = "none"
    /\ hist' = [hist EXCEPT !.starts = @ + 1]

\* writeFileSync truncates the file, then writes it: not atomic.
StartDies ==
    LET rows == Compacted(Load(journal).sessions)
    IN  /\ Starting
        /\ Fault("compaction")
        /\ \E n \in 0 .. Len(rows) - 1 :
             \/ journal' = SubSeq(rows, 1, n)
             \/ journal' = Append(SubSeq(rows, 1, n), Fragment)
        /\ hist' = [hist EXCEPT !.starts = @ + 1, !.left["compaction"] = @ - 1]
        /\ UNCHANGED <<up, store, answer>>

Stop ==
    /\ up /\ hist.starts < MaxStarts
    /\ up' = FALSE /\ store' = EmptyStore /\ answer' = "none"
    /\ UNCHANGED <<now, journal, hist>>

Tick == ClockTicks /\ UNCHANGED <<up, store, journal, answer, hist>>

KnownIds == 1 .. store.nextId

Next ==
    \/ \E k \in Scopes, size \in Sizes, status \in NewStatuses :
          \/ AppendRejected(k, size, status)
          \/ AppendAccepted(k, size, status)
          \/ AppendFailed(k, size, status)
    \/ \E k \in Scopes, id \in KnownIds, status \in Statuses, purge \in BOOLEAN :
          \/ MarkNotFound(k, id, status, purge)
          \/ MarkAccepted(k, id, status, purge)
          \/ MarkFailed(k, id, status, purge)
    \/ Start \/ StartDies \/ Stop \/ Tick

Spec == Init /\ [][Next]_wvars

-----------------------------------------------------------------------------
(* Properties *)

\* The ids in memory are distinct, and the counter that a replay restored is
\* past all of them.
IdsUnique ==
    \A i, j \in DOMAIN store.sessions :
        \A x \in DOMAIN store.sessions[i].items,
           y \in DOMAIN store.sessions[j].items :
            LET a == store.sessions[i].items[x]
                b == store.sessions[j].items[y]
            IN  a.id < store.nextId /\ (a.id = b.id => i = j /\ x = y)

\* Sessions, rows, the answer and the history keep their types (sequences are
\* typed by their elements), and a mark can only mean one record, whatever the
\* journal gave back at a start.
TypeOK ==
    /\ now \in 0 .. MaxNow /\ up \in BOOLEAN
    /\ store.nextId \in Nat \ {0}
    /\ \A s \in ToSet(store.sessions) :
          /\ s.scope \in Scopes /\ s.at \in 0 .. now
          /\ ToSet(s.items) \subseteq Item
    /\ ToSet(journal) \subseteq Rows
    /\ answer \in {"none", "rejected", "accepted", "not_found", "marked", "threw"}
    /\ hist \in Hist
    /\ IdsUnique

\* The decision a reviewer was answered survives: whatever process death,
\* torn row, half-written compaction or failed write follows, a record marked
\* out of the pending set or purged is never offered for review again, unless
\* a later mark puts it back or a write was cut short.
DecidedStaysDecided == hist.shorts = 0 => PendingIn(store) \cap hist.decided = {}

\* What a reader of the running store sees is what the rows on disk would
\* give back while no write failed: the same records are pending, although an
\* append journals what its trims shed before its own row.
ReplayAgrees ==
    up /\ ~hist.threw => PendingIn(Replay(journal)) = PendingIn(store)

\* An append is answered only with the store inside every budget, also when
\* an earlier call threw between two trims.
AnsweredWithinBudgets ==
    answer = "accepted" => WithinBudgets(store.sessions)

Lost ==
    ({r.content : r \in hist.acked} \cap PendingIn(store))
        \ PendingIn(Replay(journal))

\* A failing disk costs no more than it must: a write that was cut short
\* takes at most one later, acknowledged record with it.
ShortWriteCostsOne == up => Cardinality(Lost) <= hist.shorts
=============================================================================
