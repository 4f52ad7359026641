----------------------------- MODULE WorkingSet -----------------------------
(***************************************************************************)
(* The ephemeral working set: the items of the current turns of each exact *)
(* scope, in memory only.  A call is synchronous, so it is one step.       *)
(*                                                                         *)
(* A definition D_Slip is D with one plausible slip in the code; no action *)
(* uses it.  It serves to see that a property notices the slip.            *)
(***************************************************************************)
EXTENDS RealtimeSessions

VARIABLES
    sessions,  \* the session map
    nextId,    \* the id of the next item
    accepted   \* the id of the item the last call accepted, or 0

wsvars == <<now, sessions, nextId, accepted>>

WsItem == [id: 1 .. MaxAppends, exp: Nat]

WsInit ==
    /\ now = 0
    /\ sessions = <<>> /\ nextId = 1 /\ accepted = 0

Live(items) == Filter(items, {x \in ToSet(items) : x.exp > now})

\* purgeExpired: expired items go, and with its last item a session.
Purged ==
    LET purged == [i \in DOMAIN sessions |->
                     [sessions[i] EXCEPT !.items = Live(sessions[i].items)]]
    IN  Filter(purged, {s \in ToSet(purged) : s.items # <<>>})

\* trimSession: the oldest items of a lane go.
TrimLane(S, k) == [S EXCEPT ![At(S, k)].items = Newest(S[At(S, k)].items, MaxPerSession)]

\* A new session starts untouched.
Appended_Slip(k) ==
    LET S == Purged
        at == IF At(S, k) = 0 THEN 0 ELSE now
        item == [id |-> nextId, exp |-> now + Ttl]
    IN  TrimSessionCount(TrimGlobally(TrimLane(Push(S, k, item, at), k)))

Appended(k) ==
    LET item == [id |-> nextId, exp |-> now + Ttl]
    IN  TrimSessionCount(TrimGlobally(TrimLane(Push(Purged, k, item, now), k)))

AppendItem(k, size) ==
    /\ nextId <= MaxAppends
    /\ IF Rejected(size)
       THEN /\ sessions' = Purged
            /\ accepted' = 0
            /\ UNCHANGED nextId
       ELSE /\ sessions' = Appended(k)
            /\ accepted' = nextId
            /\ nextId' = nextId + 1
    /\ UNCHANGED now

\* buildContextPackFragment purges too.
BuildContextPackFragment ==
    /\ sessions' = Purged /\ accepted' = 0
    /\ UNCHANGED <<now, nextId>>

WsTick == ClockTicks /\ UNCHANGED <<sessions, nextId, accepted>>

WsNext ==
    \/ \E k \in Scopes, size \in Sizes : AppendItem(k, size)
    \/ BuildContextPackFragment
    \/ WsTick

WsSpec == WsInit /\ [][WsNext]_wsvars

-----------------------------------------------------------------------------
(* Properties *)

Ids(S) == UNION {{x.id : x \in ToSet(s.items)} : s \in ToSet(S)}

\* The store keeps its budgets between calls, and its types.
WsTypeOK ==
    /\ now \in 0 .. MaxNow
    /\ nextId \in 1 .. MaxAppends + 1 /\ accepted \in 0 .. MaxAppends
    /\ \A s \in ToSet(sessions) :
          s.scope \in Scopes /\ s.at \in 0 .. now /\ ToSet(s.items) \subseteq WsItem
    /\ WithinBudgets(sessions)

\* "The newest turn context survives": an append that is answered accepted
\* is in the store, whatever the three trims that follow it shed, also when
\* lanes were touched in one millisecond and the map order breaks the tie.
AcceptedIsKept == accepted # 0 => accepted \in Ids(sessions)

\* The budgets shed the lane that was left alone longest: when an append costs
\* an unexpired item, it is one of the lane that now holds the new item, or no
\* lane that keeps items was left alone for longer; and within a lane the items
\* kept are newer.
ShedsLeastRecent ==
    [][\A s \in ToSet(sessions) : \A x \in ToSet(s.items) :
          (x.exp > now' /\ x.id \notin Ids(sessions')) =>
              /\ \A y \in ToSet(ItemsOf(sessions', s.scope)) : y.id > x.id
              /\ \/ \E y \in ToSet(ItemsOf(sessions', s.scope)) : y.id = accepted'
                 \/ \A r \in ToSet(sessions') : r.at >= s.at]_wsvars
=============================================================================
