------------------------- MODULE RealtimeSessions -------------------------
(***************************************************************************)
(* The session map that the two realtime stores, the working set and the   *)
(* recovery WAL, keep in memory, and the budgets that bound it.  A         *)
(* JavaScript Map is iterated in insertion order, so the map is a sequence *)
(* of sessions: a new key goes to the end, a key that is set again keeps   *)
(* its place.                                                              *)
(*                                                                         *)
(* A definition D_Slip is D with one plausible slip in the code; no action *)
(* uses it.  It serves to see that a property notices the slip.            *)
(***************************************************************************)
EXTENDS Integers, Sequences, SequencesExt

CONSTANTS
    Scopes,         \* exact scopes (the seven coordinates of a lane)
    Ttl,            \* ttl_ms
    MaxContent,     \* max_content_chars
    MaxSessions,    \* max_sessions
    MaxPerSession,  \* max_items_per_session
    MaxGlobal,      \* max_global_items
    Sizes,          \* content lengths of appends
    MaxAppends,     \* bound: accepted appends
    MaxNow          \* bound: the clock

ASSUME BudgetAssumption ==
    /\ Ttl \in Nat \ {0}
    /\ MaxContent \in Nat \ {0}
    /\ MaxSessions \in Nat \ {0}
    /\ MaxPerSession \in Nat \ {0}
    /\ MaxGlobal \in Nat \ {0}
    /\ Sizes \subseteq Nat
    /\ MaxAppends \in Nat /\ MaxNow \in Nat

VARIABLE now  \* Date.now()

ClockTicks ==
    /\ now < MaxNow
    /\ now' = now + 1

SessionsOf(Items) == Seq([scope: Scopes, items: Seq(Items), at: Nat])

\* The place of scope k in the map S, 0 when it has no session.
At(S, k) == SelectInSeq(S, LAMBDA s : s.scope = k)

ItemsOf(S, k) == IF At(S, k) = 0 THEN <<>> ELSE S[At(S, k)].items

\* sessions.get(k) ?? a new session; push the item; touch; sessions.set.
Push(S, k, item, at) ==
    LET i == At(S, k)
    IN  IF i = 0
        THEN Append(S, [scope |-> k, items |-> <<item>>, at |-> at])
        ELSE [S EXCEPT ![i].items = Append(S[i].items, item), ![i].at = at]

\* Replace a session's items; drop the session with its last item.
SetItems(S, i, items) ==
    IF items = <<>> THEN RemoveAt(S, i) ELSE [S EXCEPT ![i].items = items]

\* A loop over s from the value x on.
Fold(Step(_, _), x, s) ==
    LET run[i \in 0 .. Len(s)] == IF i = 0 THEN x ELSE Step(run[i - 1], s[i])
    IN  run[Len(s)]

\* Array.prototype.filter: the elements of s that are in keep.
Filter(s, keep) ==
    Fold(LAMBDA q, x : IF x \in keep THEN Append(q, x) ELSE q, <<>>, s)

GlobalCount(S) == Fold(LAMBDA n, s : n + Len(s.items), 0, S)

\* The first session in map order, as if a set moved its key to the end.
Oldest_Slip(S) == 1

\* The first session, in map order, among those touched longest ago.
Oldest(S) ==
    CHOOSE i \in DOMAIN S : \A j \in DOMAIN S :
        S[i].at < S[j].at \/ (S[i].at = S[j].at /\ i <= j)

Newest(items, n) ==
    IF Len(items) <= n THEN items
    ELSE SubSeq(items, Len(items) - n + 1, Len(items))

\* Apply Step to x until Over is false; rounds bounds the iterations.
While(Over(_), Step(_), x, rounds) ==
    LET run[r \in 0 .. rounds] ==
          IF r = 0 THEN x
          ELSE LET y == run[r - 1] IN IF Over(y) THEN Step(y) ELSE y
    IN  run[rounds]

\* The budget is compared before the item that is about to come.
OverGlobal_Slip(S) == GlobalCount(S) - 1 > MaxGlobal

OverGlobal(S) == GlobalCount(S) > MaxGlobal
OverSessions(S) == Len(S) > MaxSessions

ShiftOldest(S) ==
    LET o == Oldest(S)
    IN  SetItems(S, o, IF S[o].items = <<>> THEN <<>> ELSE Tail(S[o].items))

DropOldest(S) == RemoveAt(S, Oldest(S))

TrimGlobally(S) == While(OverGlobal, ShiftOldest, S, GlobalCount(S) + Len(S))
TrimSessionCount(S) == While(OverSessions, DropOldest, S, Len(S))

WithinBudgets(S) ==
    /\ GlobalCount(S) <= MaxGlobal
    /\ Len(S) <= MaxSessions
    /\ \A i \in DOMAIN S : Len(S[i].items) \in 1 .. MaxPerSession

\* The screening of an append: an empty or oversized content is turned away.
Rejected(size) == size = 0 \/ size > MaxContent
=============================================================================
