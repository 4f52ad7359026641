------------------------- MODULE RealtimeInvariant -------------------------
(***************************************************************************)
(* The inductive invariants of WorkingSet and RecoveryWal, WsInv and       *)
(* WalInv, and the words in which RealtimeProofs speaks of session maps,   *)
(* of the file and of a call that a fault may end at any row it writes.    *)
(***************************************************************************)
EXTENDS WorkingSet, RecoveryWal

(***************************************************************************)
(* The session map of the working set.                                     *)
(***************************************************************************)
Thing == [id: Nat, exp: Nat] \cup Item

\* The ids of the items of a lane grow.
Sorted(items) == \A i, j \in DOMAIN items : i < j => items[i].id < items[j].id

\* A session has an item.
Lane == {s \in [scope: Scopes, items: Seq(Thing), at: Nat] :
           Len(s.items) > 0 /\ Sorted(s.items)}

ScopesUnique(S) == \A i, j \in DOMAIN S : S[i].scope = S[j].scope => i = j

Map == {S \in Seq(Lane) : ScopesUnique(S)}

\* The map keeps its budgets; no session was touched after t; the ids of the
\* items, of the kind Q, come before n.
Fits(S, t, n, Q) ==
    /\ S \in Map
    /\ GlobalCount(S) <= MaxGlobal /\ Len(S) <= MaxSessions
    /\ \A i \in DOMAIN S :
          /\ Len(S[i].items) <= MaxPerSession /\ S[i].at <= t
          /\ \A x \in ToSet(S[i].items) : x \in Q /\ x.id \in 1 .. n - 1

\* The items of the working set.
Plain == [id: Nat, exp: Nat]

\* The invariant of the working set.
WsInv ==
    /\ now \in 0 .. MaxNow
    /\ nextId \in 1 .. MaxAppends + 1 /\ accepted \in 0 .. MaxAppends
    /\ Fits(sessions, now, nextId, Plain)
    /\ AcceptedIsKept

(***************************************************************************)
(* The recovery store: what its invariant says.                            *)
(***************************************************************************)
Session == [scope: Scopes, items: Seq(Thing), at: Nat]

\* A session map in which a session may be left without items.
Loose == {S \in Seq(Session) :
            ScopesUnique(S) /\ \A i \in DOMAIN S : Sorted(S[i].items)}

\* The items of a scope.
In(S, k) == ToSet(ItemsOf(S, k))

\* A record keeps its scope, id and content wherever it is found.
Paired(S, R) ==
    \A k, l \in Scopes : \A x \in In(S, k), y \in In(R, l) :
        (x.id = y.id \/ x.content = y.content) =>
            k = l /\ x.id = y.id /\ x.content = y.content

\* No record of D is pending.
Firm(S, D) == \A k \in Scopes : \A x \in In(S, k) : x.content \in D => x.status \notin Pending

\* No session was touched after now.
Touched(S) == \A i \in DOMAIN S : S[i].at <= now

\* A record that was not touched after now either.
Entry == {x \in Item : x.at <= now}

\* A map of records with ids below n and contents up to a, touched by now.
Side(S, n, a) ==
    /\ S \in Loose /\ Touched(S)
    /\ \A k \in Scopes : \A x \in In(S, k) :
          x \in Entry /\ x.id \in 1 .. n - 1 /\ x.content <= a /\ x.size <= MaxContent

Short(S) == \A i \in DOMAIN S : Len(S[i].items) <= MaxPerSession

\* What the store holds.
StoreOK(st, a, D, w) ==
    /\ st.nextId \in Nat \ {0}
    /\ Side(st.sessions, st.nextId, a) /\ Short(st.sessions)
    /\ Paired(st.sessions, st.sessions)
    /\ w => Firm(st.sessions, D)

\* What the file gives back.
FileOK(rows, b, a, D, w) ==
    /\ rows \in Seq(Rows)
    /\ Replay(rows).nextId \in Nat \ {0} /\ Replay(rows).nextId <= b
    /\ Replay(rows).sessions \in Map
    /\ Side(Replay(rows).sessions, Replay(rows).nextId, a)
    /\ Paired(Replay(rows).sessions, Replay(rows).sessions)
    /\ w => Firm(Replay(rows).sessions, D)

\* A write that was cut short left the end of the file without its newline.
Torn(rows) == rows # <<>> /\ Last(rows) = Fragment

\* The store and the file are of one history.
Match(st, rows, b, a, c, D, w) ==
    /\ StoreOK(st, a, D, w)
    /\ FileOK(rows, b, c, D, w)
    /\ Paired(st.sessions, Replay(rows).sessions)
    /\ w => ~Torn(rows)

Sound(st, rows, a, D, w) == Match(st, rows, st.nextId, a, a, D, w)

Same(x, y) == x.id = y.id /\ x.content = y.content /\ x.size = y.size /\ x.exp = y.exp
Alike(x, y) == Same(x, y) /\ x.status = y.status

\* What S holds, but for records with the contents E, R holds too.
Shows(S, R, E) ==
    \A k \in Scopes : \A x \in In(S, k) :
        x.status # "expired" /\ x.content \notin E => \E y \in In(R, k) : Alike(x, y)

Within(S) == S \in Map /\ GlobalCount(S) <= MaxGlobal /\ Len(S) <= MaxSessions

\* The s writes that were cut short pay for the contents X, and for the row
\* that is lost next if the file ends with a fragment.
Costs(rows, X, s) == Cardinality(X) + (IF Torn(rows) THEN 1 ELSE 0) <= s

\* The file shows what the store holds, but for the contents E and those that
\* were paid for.
Covered(st, rows, E, s) ==
    \E X \in SUBSET (1 .. MaxAppends) :
        Costs(rows, X, s) /\ Shows(st.sessions, Replay(rows).sessions, E \cup X)

\* The contents whose calls were not all answered.
Unacked(h) == (1 .. MaxAppends) \ {r.content : r \in h.acked}

\* The invariant of the recovery store.
WalInv ==
    /\ now \in 0 .. MaxNow /\ up \in BOOLEAN
    /\ answer \in {"none", "rejected", "accepted", "not_found", "marked", "threw"}
    /\ hist \in Hist
    /\ hist.decided \subseteq 1 .. hist.appends
    /\ \A r \in hist.acked : r.content <= hist.appends
    /\ hist.shorts > 0 => hist.threw
    /\ up => Covered(store, journal, Unacked(hist), hist.shorts)
    /\ up => Sound(store, journal, hist.appends, hist.decided, hist.shorts = 0)
    /\ up /\ ~hist.threw =>
          /\ Within(store.sessions)
          /\ Shows(store.sessions, Replay(journal).sessions, {})
          /\ Shows(Replay(journal).sessions, store.sessions, {})
    /\ ~up => /\ store = EmptyStore
              /\ FileOK(journal, Replay(journal).nextId, hist.appends, hist.decided, hist.shorts = 0)
    /\ answer = "accepted" => up /\ WithinBudgets(store.sessions)

(***************************************************************************)
(* What a step leaves of a session map.                                    *)
(***************************************************************************)
\* Every record of T is one of S, or an expired one.
Fades(T, S) ==
    \A k \in Scopes : \A x \in In(T, k) :
        x \in Entry /\ \E y \in In(S, k) : Same(x, y) /\ x.status \in {y.status, "expired"}

\* Every record of T is one of S, perhaps marked since.
Echoes(T, S) ==
    \A k \in Scopes : \A x \in In(T, k) : x \in Entry /\ \E y \in In(S, k) : Same(x, y)

\* T holds X in the scope k, and elsewhere what S holds.
Holding(S, T, k, X) == \A l : In(T, l) = IF l = k THEN X ELSE In(S, l)

\* What a purge of a record, or of all of them, leaves of X.
Spares(X, id) == {x \in X : id # Whole /\ x.id # id}

\* B holds what S held, but for k, where it may have lost older items to the new one.
Gains(S, B, k, item) ==
    /\ B \in Map
    /\ \A l : l # k => In(B, l) = In(S, l)
    /\ \A x \in In(B, k) : x \in In(S, k) \/ x = item

\* The sessions keep their scopes and the number of their items.
SameShape(S, T) ==
    /\ Len(T) = Len(S)
    /\ \A i \in DOMAIN S : T[i].scope = S[i].scope /\ Len(T[i].items) = Len(S[i].items)

\* Sessions of other scopes are the same.
Elsewhere(S, T, k) == \A i \in DOMAIN S : S[i].scope # k => T[i] = S[i]

\* x, and the records of X, after a mark of the record id.
Restated(x, id, status, at) ==
    IF x.id = id THEN [x EXCEPT !.status = status, !.at = at] ELSE x

RestatedAll(X, id, status, at) == {Restated(x, id, status, at) : x \in X}

\* The items of the session of k are marked.
Marks(S, T, k, id, status) ==
    /\ T \in Loose /\ Touched(T) /\ SameShape(S, T) /\ Elsewhere(S, T, k) /\ Short(T)
    /\ Holding(S, T, k, RestatedAll(In(S, k), id, status, now))

\* No item waits to be swept.
Fresh(S) == \A k \in Scopes : \A x \in In(S, k) : x.status # "expired"

\* The contents that the record id of the scope k has.
Contents(S, k, id) == {x.content : x \in {y \in In(S, k) : y.id = id}}

\* No other record of S has the id or the content of item.
Claims(S, k, item) ==
    \A l \in Scopes : \A x \in In(S, l) :
        (x.id = item.id \/ x.content = item.content) =>
            l = k /\ Same(x, item) /\ x.status \in {item.status, "expired"}

(***************************************************************************)
(* A call as a transaction, and what p says of it: the counters (n, b, a,  *)
(* c), the decisions that stand (D, while w), what store and file may differ *)
(* in (e, while v), the contents nobody is owed at its end (x) and on its  *)
(* way (m), and the number of short writes so far (s).                     *)
(***************************************************************************)
\* Every moment of t is sound, and so is what it has come to.  The file has
\* ids below b and contents up to c.
Kept(t, b, a, c, D, w) ==
    /\ b \in Nat /\ b <= t.st.nextId /\ a \in Nat /\ c \in Nat /\ c <= a
    /\ Match(t.st, t.rows, b, a, c, D, w)
    /\ \A m \in t.moments : Sound(m.st, m.rows, a, D, w)

\* The store and the file agree, but that the file lacks the contents e.
Agree(t, e) ==
    /\ Shows(t.st.sessions, Replay(t.rows).sessions, e)
    /\ Shows(Replay(t.rows).sessions, t.st.sessions, {})

\* The file is to show the store at the end of t, but for the contents p.x,
\* and at every moment of it, but for p.m.
Owed(t, p) ==
    /\ p.x \subseteq p.m /\ p.s \in Nat
    /\ Covered(t.st, t.rows, p.x, p.s)
    /\ \A m \in t.moments : Covered(m.st, m.rows, p.m, p.s)

\* What p says of a transaction: with which counters every moment of it is
\* sound, what it owes and, as long as p.v, that its store and its file agree
\* but for p.e.
Fine(t, p) ==
    /\ Kept(t, p.b, p.a, p.c, p.D, p.w)
    /\ t.st.nextId = p.n
    /\ Owed(t, p)
    /\ p.v => p.w /\ Agree(t, p.e)

\* A call begins with what the invariant says of the store and the file; until
\* it is over nobody is owed the contents C.
Starts(D, C) == [n |-> store.nextId, b |-> store.nextId, a |-> hist.appends, c |-> hist.appends,
                 D |-> D, w |-> hist.shorts = 0, e |-> {}, v |-> ~hist.threw,
                 x |-> Unacked(hist), m |-> Unacked(hist) \cup C, s |-> hist.shorts]

\* What an append makes of p, before it journals its record.
Grown(p, v) == [n |-> p.n + 1, b |-> p.b, a |-> p.a + 1, c |-> p.c, D |-> p.D, w |-> p.w,
                e |-> {p.a + 1}, v |-> v, x |-> p.x, m |-> p.m, s |-> p.s]

\* What the row of the new record makes of p.
Written(p, v) == [n |-> p.n, b |-> p.n, a |-> p.a, c |-> p.a, D |-> p.D, w |-> p.w,
                  e |-> {}, v |-> v, x |-> p.x \ {p.a}, m |-> p.m, s |-> p.s]

\* What an accepted append ends with, and each of its moments on the way.
Appends(D, v) == Written(Grown(Starts(D, {}), v), v)

\* The item is the record appended last, and the file lacks its row.
Numbered(p, item) ==
    /\ p.n = item.id + 1 /\ p.b = item.id
    /\ p.a = item.content /\ p.a = p.c + 1
    /\ p.D \subseteq 1 .. p.c
    /\ p.e = {item.content}

\* While the store and the file agree, the lane of k holds item.
Listed(p, S, k, item) == p.v => item \in In(S, k)
=============================================================================
