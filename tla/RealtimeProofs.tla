--------------------------- MODULE RealtimeProofs ---------------------------
(***************************************************************************)
(* Proofs about WorkingSet and RecoveryWal for any scopes, budgets, clock, *)
(* faults and sequence of calls; the invariants are in RealtimeInvariant.  *)
(*                                                                         *)
(* The loops of the code are recursive functions in the model.  What they  *)
(* compute is proved by induction over a set of numbers: Nat is well       *)
(* founded, so a set that has 0 and the successor of each member is Nat.   *)
(*                                                                         *)
(* The working set.  A round of a trim is described by Shed, what both     *)
(* trims leave of a map by Derives and Least, and why the item just        *)
(* accepted is not among what they shed by Spared.                         *)
(*                                                                         *)
(* The recovery store.  Its invariant is WalInv: what the store holds and  *)
(* what a replay of the file would give are Sound together, and, while no  *)
(* call threw, each Shows what the other holds.  A call is a transaction:  *)
(* a fault may leave it at any row it writes, so every moment of it must   *)
(* be sound (Kept) and, up to the record being appended, store and file    *)
(* must agree when it is over (Fine).                                      *)
(*                                                                         *)
(* With writes cut short, the file shows what the store holds but for      *)
(* records whose call was never answered and for a set of contents no      *)
(* larger than the number of short writes; while a half-written line ends  *)
(* the file, one more is set aside (Costs, Covered).  The row that         *)
(* continues that line spends it; a compaction starts again from what the  *)
(* replay gave.  Owed says so of every moment of a transaction.            *)
(***************************************************************************)
EXTENDS RealtimeInvariant, FiniteSetTheorems, NaturalsInduction,
        WellFoundedInduction, SequenceTheorems, TLAPS

(***************************************************************************)
(* Induction and recursion.                                                *)
(***************************************************************************)
LEMMA SetInduction ==
  ASSUME NEW T, 0 \in T, \A n \in Nat : n \in T => n + 1 \in T
  PROVE  Nat \subseteq T
<1> DEFINE R == OpToRel(<, Nat)
<1>1. IsWellFoundedOn(R, Nat) BY NatLessThanWellFounded
<1>2. \A x, y \in Nat : x < y => <<x, y>> \in R BY DEF OpToRel
<1> HIDE DEF R
<1> SUFFICES ASSUME Nat \ T # {} PROVE FALSE OBVIOUS
<1>3. PICK m \in Nat \ T : \A k \in Nat \ T : <<k, m>> \notin R
  BY <1>1, WFMin
<1>4. m - 1 \in Nat /\ m - 1 < m BY <1>3
<1>5. m - 1 \in T BY <1>2, <1>3, <1>4
<1> QED BY <1>3, <1>4, <1>5

LEMMA UpTo ==
  ASSUME NEW N \in Nat, NEW T, 0 \in T, \A n \in 0 .. N - 1 : n \in T => n + 1 \in T
  PROVE  \A n \in 0 .. N : n \in T
<1> DEFINE R == {n \in Nat : n <= N => n \in T}
<1>1. 0 \in R OBVIOUS
<1>2. \A n \in Nat : n \in R => n + 1 \in R OBVIOUS
<1>3. Nat \subseteq R
  <2> HIDE DEF R
  <2> QED BY <1>1, <1>2, SetInduction
<1> QED BY <1>3

\* g is f with one more value, z.
Longer(g, f, n, z) ==
    /\ g = [i \in 0 .. n + 1 |-> g[i]]
    /\ g[n + 1] = z /\ g[n] = f[n]
    /\ \A i \in 0 .. n : g[i] = f[i] /\ (i # 0 => i - 1 \in 0 .. n /\ g[i - 1] = f[i - 1])

LEMMA LongerExists ==
  ASSUME NEW f, NEW n \in Nat, NEW z
  PROVE  \E g : Longer(g, f, n, z)
<1> DEFINE g == [i \in 0 .. n + 1 |-> IF i = n + 1 THEN z ELSE f[i]]
<1>1. Longer(g, f, n, z) BY DEF Longer
<1> QED BY <1>1

LEMMA LeastMember ==
  ASSUME NEW S \in SUBSET Nat, S # {}
  PROVE  \E m \in S : \A k \in S : m <= k
<1> DEFINE R == OpToRel(<, Nat)
<1>1. IsWellFoundedOn(R, Nat) BY NatLessThanWellFounded
<1>2. \A x, y \in Nat : x < y => <<x, y>> \in R BY DEF OpToRel
<1> HIDE DEF R
<1>3. PICK m \in S : \A k \in S : <<k, m>> \notin R BY <1>1, WFMin
<1>4. m \in Nat /\ \A k \in S : k \in Nat /\ ~(k < m) BY <1>2, <1>3
<1>5. \A k \in S : m <= k BY <1>4
<1> QED BY <1>5

\* f starts at x0, and G[i] leads from one value to the next, up to n.
Follows(f, G, x0, n) == f[0] = x0 /\ \A i \in 1 .. n : f[i] = G[i][f[i - 1]]

LEMMA Recursion ==
  ASSUME NEW X, NEW x0 \in X, NEW G \in [Nat -> [X -> X]], NEW N \in Nat
  PROVE  \E f \in [0 .. N -> X] : Follows(f, G, x0, N)
<1> USE DEF Follows
<1> DEFINE Is(n, f) == Follows(f, G, x0, n)
           T == {n \in Nat : \E f \in [0 .. n -> X] : Is(n, f)}
<1>1. 0 \in T
  <2>1. [i \in 0 .. 0 |-> x0] \in [0 .. 0 -> X] /\ Is(0, [i \in 0 .. 0 |-> x0]) OBVIOUS
  <2> QED BY <2>1
<1>2. ASSUME NEW n \in Nat, n \in T PROVE n + 1 \in T
  <2>1. PICK f \in [0 .. n -> X] : Is(n, f) BY <1>2
  <2> DEFINE g == [i \in 0 .. n + 1 |-> IF i = n + 1 THEN G[n + 1][f[n]] ELSE f[i]]
  <2>2. g \in [0 .. n + 1 -> X] OBVIOUS
  <2>3. g[0] = x0 BY <2>1
  <2>4. \A i \in 1 .. n + 1 : g[i] = G[i][g[i - 1]]
    <3>1. ASSUME NEW i \in 1 .. n PROVE g[i] = G[i][g[i - 1]] BY <2>1
    <3>2. g[n + 1] = G[n + 1][g[n]] /\ (n + 1) - 1 = n OBVIOUS
    <3>3. \A i \in 1 .. n + 1 : i \in 1 .. n \/ i = n + 1 OBVIOUS
    <3> HIDE DEF g
    <3> QED BY <3>1, <3>2, <3>3
  <2>5. Is(n + 1, g) BY <2>3, <2>4
  <2>6. \E h \in [0 .. n + 1 -> X] : Is(n + 1, h)
    <3> HIDE DEF g, Is
    <3> QED BY <2>2, <2>5
  <2> QED BY <2>6
<1>3. N \in T
  <2> HIDE DEF T
  <2> QED BY <1>1, <1>2, SetInduction
<1> QED BY <1>3

(***************************************************************************)
(* The session map.                                                        *)
(***************************************************************************)
LEMMA LaneFacts ==
  ASSUME NEW s \in Lane
  PROVE  /\ s \in [scope: Scopes, items: Seq(Thing), at: Nat]
         /\ s.scope \in Scopes /\ s.items \in Seq(Thing) /\ s.at \in Nat
         /\ Len(s.items) \in Nat \ {0} /\ Sorted(s.items)
BY DEF Lane

LEMMA MapFacts ==
  ASSUME NEW S \in Map
  PROVE  /\ S \in Seq(Lane) /\ Len(S) \in Nat /\ DOMAIN S = 1 .. Len(S)
         /\ \A i \in DOMAIN S : S[i] \in Lane /\ Len(S[i].items) \in Nat \ {0}
         /\ ScopesUnique(S)
<1>1. S \in Seq(Lane) /\ ScopesUnique(S) BY DEF Map
<1>2. \A i \in DOMAIN S : S[i] \in Lane BY <1>1
<1> QED BY <1>1, <1>2, LaneFacts

\* The running count of the items.
Counts(S, c) ==
    /\ c \in [0 .. Len(S) -> Nat] /\ c[0] = 0
    /\ \A i \in 1 .. Len(S) : c[i] = c[i - 1] + Len(S[i].items)

LEMMA CountIs ==
  ASSUME NEW S \in Seq(Lane)
  PROVE  \E c : Counts(S, c) /\ GlobalCount(S) = c[Len(S)]
<1>0. Len(S) \in Nat /\ \A i \in 1 .. Len(S) : Len(S[i].items) \in Nat
  BY LaneFacts
<1> DEFINE Is(f) == f = [i \in 0 .. Len(S) |-> IF i = 0 THEN 0
                                               ELSE f[i - 1] + Len(S[i].items)]
           c == CHOOSE f : Is(f)
<1>1. \E f : Is(f)
  <2> DEFINE G == [i \in Nat |-> [n \in Nat |-> IF i \in 1 .. Len(S)
                                               THEN n + Len(S[i].items) ELSE n]]
  <2>1. G \in [Nat -> [Nat -> Nat]] BY <1>0
  <2>2. \A i \in 1 .. Len(S), n \in Nat : G[i][n] = n + Len(S[i].items) BY <1>0
  <2> HIDE DEF G
  <2>3. \E f \in [0 .. Len(S) -> Nat] : Follows(f, G, 0, Len(S)) BY <1>0, <2>1, Recursion
  <2>4. PICK f \in [0 .. Len(S) -> Nat] : Follows(f, G, 0, Len(S)) BY <2>3
  <2>5. f = [i \in 0 .. Len(S) |-> f[i]] OBVIOUS
  <2>6. \A i \in 0 .. Len(S) : f[i] = IF i = 0 THEN 0 ELSE f[i - 1] + Len(S[i].items)
    <3>1. f[0] = 0 BY <2>4 DEF Follows
    <3>2. ASSUME NEW i \in 1 .. Len(S) PROVE f[i] = f[i - 1] + Len(S[i].items)
      <4>1. i - 1 \in 0 .. Len(S) BY <1>0
      <4> QED BY <2>2, <2>4, <4>1 DEF Follows
    <3> QED BY <1>0, <3>1, <3>2
  <2>7. Is(f) BY <2>5, <2>6
  <2> QED BY <2>7
<1>2. Is(c)
  <2> HIDE DEF Is
  <2> QED BY <1>1
<1>3. GlobalCount(S) = c[Len(S)] BY DEF GlobalCount, Fold
<1> HIDE DEF c
<1>4. /\ c[0] = 0
      /\ \A i \in 1 .. Len(S) : c[i] = c[i - 1] + Len(S[i].items)
      /\ c = [i \in 0 .. Len(S) |-> c[i]]
  BY <1>0, <1>2
<1>5. \A i \in 0 .. Len(S) : c[i] \in Nat
  <2> DEFINE T == {n \in Nat : c[n] \in Nat}
  <2>1. 0 \in T BY <1>4
  <2>2. ASSUME NEW n \in 0 .. Len(S) - 1, n \in T PROVE n + 1 \in T
    <3>1. n + 1 \in 1 .. Len(S) /\ (n + 1) - 1 = n /\ c[n] \in Nat BY <1>0, <2>2
    <3>2. c[n + 1] = c[n] + Len(S[n + 1].items) BY <1>4, <3>1
    <3>3. Len(S[n + 1].items) \in Nat BY <1>0, <3>1
    <3> QED BY <3>1, <3>2, <3>3
  <2>3. \A n \in 0 .. Len(S) : n \in T
    <3> HIDE DEF T
    <3> QED BY <1>0, <2>1, <2>2, UpTo
  <2> QED BY <2>3
<1>6. c \in [0 .. Len(S) -> Nat] BY <1>4, <1>5
<1>7. Counts(S, c) BY <1>4, <1>6 DEF Counts
<1> QED BY <1>3, <1>7

LEMMA CountIsNatural ==
  ASSUME NEW S \in Seq(Lane)
  PROVE  GlobalCount(S) \in Nat
<1>1. PICK c : Counts(S, c) /\ GlobalCount(S) = c[Len(S)] BY CountIs
<1>2. Len(S) \in 0 .. Len(S) OBVIOUS
<1> QED BY <1>1, <1>2 DEF Counts

LEMMA CountOfNone == GlobalCount(<<>>) = 0
<1>1. <<>> \in Seq(Lane) /\ Len(<<>>) = 0 OBVIOUS
<1>2. PICK c : Counts(<<>>, c) /\ GlobalCount(<<>>) = c[Len(<<>>)] BY <1>1, CountIs
<1> QED BY <1>1, <1>2 DEF Counts

LEMMA CountAppended ==
  ASSUME NEW S \in Seq(Lane), NEW s \in Lane
  PROVE  GlobalCount(Append(S, s)) = GlobalCount(S) + Len(s.items)
<1> DEFINE T == Append(S, s)
<1>1. /\ T \in Seq(Lane) /\ Len(T) = Len(S) + 1 /\ Len(S) \in Nat
      /\ T[Len(S) + 1] = s /\ \A i \in 1 .. Len(S) : T[i] = S[i]
  OBVIOUS
<1> HIDE DEF T
<1>2. PICK c : Counts(S, c) /\ GlobalCount(S) = c[Len(S)] BY CountIs
<1>3. PICK d : Counts(T, d) /\ GlobalCount(T) = d[Len(T)] BY <1>1, CountIs
<1>4. \A n \in 0 .. Len(S) : d[n] = c[n]
  <2> DEFINE R == {n \in Nat : d[n] = c[n]}
  <2>1. 0 \in R BY <1>2, <1>3 DEF Counts
  <2>2. ASSUME NEW n \in 0 .. Len(S) - 1, n \in R PROVE n + 1 \in R
    <3>1. n + 1 \in 1 .. Len(S) /\ n + 1 \in 1 .. Len(T) /\ (n + 1) - 1 = n BY <1>1
    <3>2. c[n + 1] = c[n] + Len(S[n + 1].items) BY <1>2, <3>1 DEF Counts
    <3>3. d[n + 1] = d[n] + Len(T[n + 1].items) BY <1>3, <3>1 DEF Counts
    <3> QED BY <1>1, <2>2, <3>1, <3>2, <3>3
  <2>3. \A n \in 0 .. Len(S) : n \in R
    <3> HIDE DEF R
    <3> QED BY <1>1, <2>1, <2>2, UpTo
  <2> QED BY <2>3
<1>5. Len(T) \in 1 .. Len(T) /\ Len(T) - 1 = Len(S) /\ Len(S) \in 0 .. Len(S) BY <1>1
<1>6. d[Len(T)] = d[Len(S)] + Len(s.items) BY <1>1, <1>3, <1>5 DEF Counts
<1> QED BY <1>2, <1>3, <1>4, <1>5, <1>6 DEF T

LEMMA Removed ==
  ASSUME NEW X, NEW p \in Seq(X), NEW i \in DOMAIN p
  PROVE  /\ RemoveAt(p, i) \in Seq(X) /\ Len(RemoveAt(p, i)) = Len(p) - 1
         /\ \A j \in 1 .. Len(p) - 1 : RemoveAt(p, i)[j] = IF j < i THEN p[j] ELSE p[j + 1]
<1> DEFINE a == SubSeq(p, 1, i - 1)
           b == SubSeq(p, i + 1, Len(p))
           q == RemoveAt(p, i)
<1>1. i \in 1 .. Len(p) /\ Len(p) \in Nat OBVIOUS
<1>2. a \in Seq(X) /\ Len(a) = i - 1 /\ \A j \in 1 .. i - 1 : a[j] = p[j] BY <1>1
<1>3. b \in Seq(X) /\ Len(b) = Len(p) - i /\ \A j \in 1 .. Len(p) - i : b[j] = p[j + i]
  BY <1>1
<1>4. q = a \o b BY DEF RemoveAt
<1> HIDE DEF a, b, q
<1>5. q \in Seq(X) /\ Len(q) = Len(p) - 1 BY <1>1, <1>2, <1>3, <1>4
<1>6. \A j \in 1 .. Len(a) + Len(b) : q[j] = IF j <= Len(a) THEN a[j] ELSE b[j - Len(a)]
  <2>1. a \in Seq(X) /\ b \in Seq(X) BY <1>2, <1>3
  <2> QED BY <1>4, <2>1, ConcatProperties
<1>7. ASSUME NEW j \in 1 .. Len(p) - 1 PROVE q[j] = IF j < i THEN p[j] ELSE p[j + 1]
  <2>1. j \in 1 .. Len(a) + Len(b) BY <1>1, <1>2, <1>3
  <2>2. CASE j < i
    <3>1. j <= Len(a) /\ j \in 1 .. i - 1 BY <1>1, <1>2, <2>2
    <3> QED BY <1>2, <1>6, <2>1, <2>2, <3>1
  <2>3. CASE ~(j < i)
    <3>1. ~(j <= Len(a)) /\ j - Len(a) \in 1 .. Len(p) - i /\ (j - Len(a)) + i = j + 1
      BY <1>1, <1>2, <2>3
    <3> QED BY <1>3, <1>6, <2>1, <2>3, <3>1
  <2> QED BY <2>2, <2>3
<1> QED BY <1>5, <1>7 DEF q

LEMMA CountRemoved ==
  ASSUME NEW S \in Seq(Lane), NEW i \in DOMAIN S
  PROVE  GlobalCount(S) = GlobalCount(RemoveAt(S, i)) + Len(S[i].items)
<1> DEFINE T == RemoveAt(S, i)
<1>0. /\ T \in Seq(Lane) /\ Len(T) = Len(S) - 1 /\ i \in 1 .. Len(S) /\ Len(S) \in Nat
      /\ \A j \in 1 .. Len(S) - 1 : T[j] = IF j < i THEN S[j] ELSE S[j + 1]
      /\ \A j \in 1 .. Len(S) : Len(S[j].items) \in Nat
  BY Removed, LaneFacts
<1> HIDE DEF T
<1>1. PICK c : Counts(S, c) /\ GlobalCount(S) = c[Len(S)] BY CountIs
<1>2. PICK d : Counts(T, d) /\ GlobalCount(T) = d[Len(T)] BY <1>0, CountIs
<1>3. \A n \in 0 .. Len(T) : d[n] = IF n < i THEN c[n] ELSE c[n + 1] - Len(S[i].items)
  <2> DEFINE R == {n \in Nat : d[n] = IF n < i THEN c[n] ELSE c[n + 1] - Len(S[i].items)}
  <2>1. 0 \in R
    <3>1. 0 < i BY <1>0
    <3> QED BY <1>1, <1>2, <3>1 DEF Counts
  <2>2. ASSUME NEW n \in 0 .. Len(T) - 1, n \in R PROVE n + 1 \in R
    <3>1. /\ n + 1 \in 1 .. Len(T) /\ (n + 1) - 1 = n /\ n + 1 \in 1 .. Len(S)
          /\ n + 2 \in 1 .. Len(S) /\ (n + 2) - 1 = n + 1 /\ (n + 1) + 1 = n + 2
          /\ n \in 0 .. Len(S) /\ n + 1 \in 0 .. Len(S) /\ n + 2 \in 0 .. Len(S)
      BY <1>0
    <3>2. d[n + 1] = d[n] + Len(T[n + 1].items) BY <1>2, <3>1 DEF Counts
    <3>3. c[n + 1] = c[n] + Len(S[n + 1].items) BY <1>1, <3>1 DEF Counts
    <3>4. c[n + 2] = c[n + 1] + Len(S[n + 2].items) BY <1>1, <3>1 DEF Counts
    <3>5. c[n] \in Nat /\ c[n + 1] \in Nat /\ c[n + 2] \in Nat BY <1>0, <1>1, <3>1 DEF Counts
    <3>6. Len(S[n + 1].items) \in Nat /\ Len(S[n + 2].items) \in Nat /\ Len(S[i].items) \in Nat
      BY <1>0, <3>1
    <3>7. CASE n + 1 < i
      <4>1. T[n + 1] = S[n + 1] /\ d[n] = c[n] BY <1>0, <2>2, <3>1, <3>7
      <4> QED BY <3>1, <3>2, <3>3, <3>7, <4>1
    <3>8. CASE n + 1 = i
      <4>1. T[n + 1] = S[n + 2] /\ d[n] = c[n] BY <1>0, <2>2, <3>1, <3>8
      <4>3. S[n + 1] = S[i] BY <3>8
      <4>4. c[n + 2] = (c[n] + Len(S[i].items)) + Len(S[n + 2].items)
        BY <3>3, <3>4, <4>3
      <4>5. d[n + 1] = c[n] + Len(S[n + 2].items) BY <3>2, <4>1
      <4>2. d[n + 1] = c[n + 2] - Len(S[i].items)
        <5> DEFINE u == c[n]
                   v == Len(S[i].items)
                   w == Len(S[n + 2].items)
                   x == c[n + 2]
                   y == d[n + 1]
        <5>1. u \in Nat /\ v \in Nat /\ w \in Nat BY <3>5, <3>6
        <5>2. x = (u + v) + w /\ y = u + w BY <4>4, <4>5
        <5> HIDE DEF u, v, w, x, y
        <5>3. y = x - v BY <5>1, <5>2
        <5> QED BY <5>3 DEF x, y, v
      <4> QED BY <3>1, <3>8, <4>2
    <3>9. CASE n + 1 > i
      <4>1. T[n + 1] = S[n + 2] /\ d[n] = c[n + 1] - Len(S[i].items)
        BY <1>0, <2>2, <3>1, <3>9
      <4>3. d[n + 1] = (c[n + 1] - Len(S[i].items)) + Len(S[n + 2].items) BY <3>2, <4>1
      <4>2. d[n + 1] = c[n + 2] - Len(S[i].items)
        <5> DEFINE u == c[n + 1]
                   v == Len(S[i].items)
                   w == Len(S[n + 2].items)
                   x == c[n + 2]
                   y == d[n + 1]
        <5>1. u \in Nat /\ v \in Nat /\ w \in Nat BY <3>5, <3>6
        <5>2. x = u + w /\ y = (u - v) + w BY <3>4, <4>3
        <5> HIDE DEF u, v, w, x, y
        <5>3. y = x - v BY <5>1, <5>2
        <5> QED BY <5>3 DEF x, y, v
      <4> QED BY <3>1, <3>9, <4>2
    <3> QED BY <1>0, <3>7, <3>8, <3>9
  <2>3. \A n \in 0 .. Len(T) : n \in R
    <3>1. Len(T) \in Nat BY <1>0
    <3> HIDE DEF R
    <3> QED BY <2>1, <2>2, <3>1, UpTo
  <2> QED BY <2>3
<1>4. /\ Len(T) \in 0 .. Len(T) /\ Len(T) + 1 = Len(S) /\ Len(S) \in 1 .. Len(S)
      /\ Len(T) < i => i = Len(S)
      /\ Len(S) - 1 = Len(T)
      /\ Len(T) \in 0 .. Len(S) /\ Len(S) \in 0 .. Len(S)
  BY <1>0
<1>5. c[Len(S)] = c[Len(T)] + Len(S[Len(S)].items) BY <1>1, <1>4 DEF Counts
<1>6. c[Len(S)] \in Nat /\ c[Len(T)] \in Nat /\ Len(S[i].items) \in Nat
  BY <1>0, <1>1, <1>4 DEF Counts
<1>7. d[Len(T)] = IF Len(T) < i THEN c[Len(T)] ELSE c[Len(S)] - Len(S[i].items)
  BY <1>3, <1>4
<1>8. c[Len(S)] = d[Len(T)] + Len(S[i].items) BY <1>4, <1>5, <1>6, <1>7
<1> QED BY <1>1, <1>2, <1>8 DEF T

LEMMA CountReplaced ==
  ASSUME NEW S \in Seq(Lane), NEW i \in DOMAIN S, NEW s \in Lane
  PROVE  GlobalCount([S EXCEPT ![i] = s]) = (GlobalCount(S) - Len(S[i].items)) + Len(s.items)
<1> DEFINE T == [S EXCEPT ![i] = s]
<1>0. /\ T \in Seq(Lane) /\ Len(T) = Len(S) /\ i \in 1 .. Len(S) /\ Len(S) \in Nat
      /\ \A j \in 1 .. Len(S) : T[j] = IF j = i THEN s ELSE S[j]
      /\ \A j \in 1 .. Len(S) : Len(S[j].items) \in Nat
      /\ Len(s.items) \in Nat
  BY LaneFacts
<1> HIDE DEF T
<1>1. PICK c : Counts(S, c) /\ GlobalCount(S) = c[Len(S)] BY CountIs
<1>2. PICK d : Counts(T, d) /\ GlobalCount(T) = d[Len(T)] BY <1>0, CountIs
<1>3. \A n \in 0 .. Len(S) :
        d[n] = IF n < i THEN c[n] ELSE (c[n] - Len(S[i].items)) + Len(s.items)
  <2> DEFINE R == {n \in Nat :
                     d[n] = IF n < i THEN c[n] ELSE (c[n] - Len(S[i].items)) + Len(s.items)}
  <2>1. 0 \in R
    <3>1. 0 < i BY <1>0
    <3> QED BY <1>1, <1>2, <3>1 DEF Counts
  <2>2. ASSUME NEW n \in 0 .. Len(S) - 1, n \in R PROVE n + 1 \in R
    <3>1. /\ n + 1 \in 1 .. Len(S) /\ n + 1 \in 1 .. Len(T) /\ (n + 1) - 1 = n
          /\ n \in 0 .. Len(S)
      BY <1>0
    <3>2. d[n + 1] = d[n] + Len(T[n + 1].items) BY <1>2, <3>1 DEF Counts
    <3>3. c[n + 1] = c[n] + Len(S[n + 1].items) BY <1>1, <3>1 DEF Counts
    <3>4. c[n] \in Nat /\ Len(S[n + 1].items) \in Nat /\ Len(S[i].items) \in Nat
      BY <1>0, <1>1, <3>1 DEF Counts
    <3>5. T[n + 1] = IF n + 1 = i THEN s ELSE S[n + 1] BY <1>0, <3>1
    <3>6. d[n] = IF n < i THEN c[n] ELSE (c[n] - Len(S[i].items)) + Len(s.items) BY <2>2
    <3>7. CASE n + 1 < i
      <4>1. n < i /\ T[n + 1] = S[n + 1] BY <1>0, <3>5, <3>7
      <4> QED BY <3>1, <3>2, <3>3, <3>6, <3>7, <4>1
    <3>8. CASE n + 1 = i
      <4>1. n < i /\ T[n + 1] = s BY <1>0, <3>5, <3>8
      <4>2. d[n + 1] = (c[n + 1] - Len(S[i].items)) + Len(s.items)
        BY <1>0, <3>2, <3>3, <3>4, <3>6, <3>8, <4>1
      <4> QED BY <3>1, <3>8, <4>2
    <3>9. CASE n + 1 > i
      <4>1. ~(n < i) /\ T[n + 1] = S[n + 1] BY <1>0, <3>5, <3>9
      <4>3. d[n + 1] = ((c[n] - Len(S[i].items)) + Len(s.items)) + Len(S[n + 1].items)
        BY <3>2, <3>6, <4>1
      <4>4. Len(S[i].items) \in Nat /\ Len(s.items) \in Nat BY <1>0
      <4>2. d[n + 1] = (c[n + 1] - Len(S[i].items)) + Len(s.items)
        <5> DEFINE u == c[n]
                   v == Len(S[i].items)
                   w == Len(s.items)
                   z == Len(S[n + 1].items)
                   x == c[n + 1]
                   y == d[n + 1]
        <5>1. u \in Nat /\ v \in Nat /\ w \in Nat /\ z \in Nat BY <3>4, <4>4
        <5>2. x = u + z /\ y = ((u - v) + w) + z BY <3>3, <4>3
        <5> HIDE DEF u, v, w, x, y, z
        <5>3. y = (x - v) + w BY <5>1, <5>2
        <5> QED BY <5>3 DEF x, y, v, w
      <4> QED BY <3>1, <3>9, <4>2
    <3> QED BY <1>0, <3>7, <3>8, <3>9
  <2>3. \A n \in 0 .. Len(S) : n \in R
    <3> HIDE DEF R
    <3> QED BY <1>0, <2>1, <2>2, UpTo
  <2> QED BY <2>3
<1>4. Len(S) \in 0 .. Len(S) /\ ~(Len(S) < i) BY <1>0
<1> QED BY <1>0, <1>1, <1>2, <1>3, <1>4 DEF T

LEMMA CountOfOne ==
  ASSUME NEW S \in Seq(Lane), Len(S) = 1
  PROVE  GlobalCount(S) = Len(S[1].items)
<1>1. PICK c : Counts(S, c) /\ GlobalCount(S) = c[Len(S)] BY CountIs
<1>2. 1 \in 1 .. Len(S) /\ 1 - 1 = 0 /\ 1 \in DOMAIN S OBVIOUS
<1>3. S[1] \in Lane BY <1>2
<1>4. Len(S[1].items) \in Nat BY <1>3, LaneFacts
<1>5. c[1] = c[0] + Len(S[1].items) /\ c[0] = 0 BY <1>1, <1>2 DEF Counts
<1> QED BY <1>1, <1>4, <1>5

(***************************************************************************)
(* Places in the map.                                                      *)
(***************************************************************************)
LEMMA MapMembers ==
  ASSUME NEW S, NEW s
  PROVE  s \in ToSet(S) <=> \E i \in DOMAIN S : S[i] = s
BY DEF ToSet

\* At finds the session of a scope.
LEMMA AtFacts ==
  ASSUME NEW S \in Map, NEW k
  PROVE  /\ At(S, k) \in 0 .. Len(S)
         /\ At(S, k) # 0 => At(S, k) \in DOMAIN S /\ S[At(S, k)].scope = k
         /\ \A i \in DOMAIN S : S[i].scope = k => At(S, k) = i
<1> DEFINE I == {i \in 1 .. Len(S) : S[i].scope = k}
<1>0. Len(S) \in Nat /\ DOMAIN S = 1 .. Len(S) /\ ScopesUnique(S) BY MapFacts
<1>1. At(S, k) = IF I = {} THEN 0 ELSE Min(I)
  BY DEF At, SelectInSeq
<1>2. CASE I = {} BY <1>0, <1>1, <1>2
<1>3. CASE I # {}
  <2>1. PICK i \in I : TRUE BY <1>3
  <2>2. \A j \in I : j = i BY <1>0, <2>1 DEF ScopesUnique
  <2>3. I = {i} BY <2>1, <2>2
  <2>4. Min(I) = i
    <3>1. \A x \in I : x <= i /\ i <= x BY <1>0, <2>1, <2>3
    <3> HIDE DEF I
    <3>2. \E x \in I : \A y \in I : x <= y BY <2>1, <3>1
    <3>3. Min(I) \in I BY <3>2 DEF Min
    <3> QED BY <2>3, <3>3
  <2>5. At(S, k) = i BY <1>1, <1>3, <2>4
  <2>6. i \in 1 .. Len(S) /\ S[i].scope = k BY <2>1
  <2>7. \A j \in DOMAIN S : S[j].scope = k => i = j BY <1>0, <2>2
  <2> HIDE DEF I
  <2> QED BY <1>0, <2>5, <2>6, <2>7
<1> QED BY <1>2, <1>3

\* Oldest is a session that was touched no later than any other, and of those
\* touched with it the first.
LEMMA OldestFacts ==
  ASSUME NEW S \in Map, S # <<>>
  PROVE  /\ Oldest(S) \in DOMAIN S
         /\ \A j \in DOMAIN S : S[Oldest(S)].at <= S[j].at
         /\ \A j \in DOMAIN S : S[Oldest(S)].at = S[j].at => Oldest(S) <= j
<1>0. /\ Len(S) \in Nat /\ DOMAIN S = 1 .. Len(S) /\ S \in Seq(Lane)
      /\ \A i \in DOMAIN S : S[i].at \in Nat
  BY MapFacts, LaneFacts
<1>1. 1 \in DOMAIN S
  <2>1. Len(S) # 0 BY <1>0, EmptySeq
  <2> QED BY <1>0, <2>1
<1> DEFINE A == {S[i].at : i \in DOMAIN S}
<1>2. A \in SUBSET Nat /\ A # {} BY <1>0, <1>1
<1>3. PICK a \in A : \A b \in A : a <= b
  <2> HIDE DEF A
  <2> QED BY <1>2, LeastMember
<1> DEFINE I == {i \in DOMAIN S : S[i].at = a}
<1>4. I \in SUBSET Nat /\ I # {} BY <1>0, <1>3
<1>5. PICK o \in I : \A i \in I : o <= i
  <2> HIDE DEF I
  <2> QED BY <1>4, LeastMember
<1>6. o \in DOMAIN S /\ S[o].at = a BY <1>5
<1>7. \A j \in DOMAIN S : S[o].at < S[j].at \/ (S[o].at = S[j].at /\ o <= j)
  <2> SUFFICES ASSUME NEW j \in DOMAIN S
               PROVE  S[o].at < S[j].at \/ (S[o].at = S[j].at /\ o <= j)
    OBVIOUS
  <2>1. a <= S[j].at /\ a \in Nat /\ S[j].at \in Nat BY <1>0, <1>2, <1>3
  <2>2. CASE S[j].at = a BY <1>5, <1>6, <2>2
  <2>3. CASE S[j].at # a BY <1>6, <2>1, <2>3
  <2> QED BY <2>2, <2>3
<1> DEFINE Good(i) == \A j \in DOMAIN S :
                        S[i].at < S[j].at \/ (S[i].at = S[j].at /\ i <= j)
<1>8. Oldest(S) \in DOMAIN S /\ Good(Oldest(S))
  <2>1. Oldest(S) = CHOOSE i \in DOMAIN S : Good(i) BY DEF Oldest
  <2>2. Good(o) BY <1>7
  <2> HIDE DEF Good
  <2> QED BY <1>6, <2>1, <2>2
<1>9. \A j \in DOMAIN S : S[Oldest(S)].at \in Nat /\ S[j].at \in Nat BY <1>0, <1>8
<1> QED BY <1>8, <1>9

(***************************************************************************)
(* One round of a trim.                                                    *)
(***************************************************************************)
\* From Y to T only the oldest session lost: its first item, or itself.  The
\* last session stays the last.
Shed(Y, T) ==
    /\ \A t \in DOMAIN T : \E y \in DOMAIN Y :
          /\ T[t].scope = Y[y].scope /\ T[t].at = Y[y].at
          /\ \/ T[t] = Y[y]
             \/ /\ y = Oldest(Y) /\ Len(Y[y].items) > 1
                /\ T[t].items = Tail(Y[y].items)
    /\ \A y \in DOMAIN Y : y # Oldest(Y) => \E t \in DOMAIN T : T[t] = Y[y]
    /\ Oldest(Y) # Len(Y) => Len(T) \in DOMAIN T /\ T[Len(T)] = Y[Len(Y)]

LEMMA TailIsLane ==
  ASSUME NEW s \in Lane, Len(s.items) > 1
  PROVE  /\ [s EXCEPT !.items = Tail(s.items)] \in Lane
         /\ Len(Tail(s.items)) = Len(s.items) - 1
         /\ \A i \in 1 .. Len(s.items) - 1 : Tail(s.items)[i] = s.items[i + 1]
<1> DEFINE q == Tail(s.items)
<1>1. s.items \in Seq(Thing) /\ Len(s.items) \in Nat /\ Sorted(s.items) /\ s.items # <<>>
  BY LaneFacts, EmptySeq
<1>2. /\ q \in Seq(Thing) /\ Len(q) = Len(s.items) - 1
      /\ \A i \in 1 .. Len(q) : q[i] = s.items[i + 1]
  BY <1>1, HeadTailProperties
<1> HIDE DEF q
<1>3. DOMAIN q = 1 .. Len(q) /\ DOMAIN s.items = 1 .. Len(s.items)
  BY <1>1, <1>2, LenProperties
<1>4. Sorted(q)
  <2> SUFFICES ASSUME NEW i \in DOMAIN q, NEW j \in DOMAIN q, i < j
               PROVE  q[i].id < q[j].id
    BY DEF Sorted
  <2>1. /\ i + 1 \in DOMAIN s.items /\ j + 1 \in DOMAIN s.items /\ i + 1 < j + 1
        /\ q[i] = s.items[i + 1] /\ q[j] = s.items[j + 1]
    BY <1>1, <1>2, <1>3
  <2> QED BY <1>1, <2>1 DEF Sorted
<1>5. [s EXCEPT !.items = q] \in Lane
  <2>1. s \in [scope: Scopes, items: Seq(Thing), at: Nat] BY LaneFacts
  <2> DEFINE r == [s EXCEPT !.items = q]
  <2>2. r \in [scope: Scopes, items: Seq(Thing), at: Nat] /\ r.items = q BY <1>2, <2>1
  <2>3. Len(q) > 0 BY <1>1, <1>2
  <2> HIDE DEF r
  <2>4. r \in Lane BY <1>4, <2>2, <2>3 DEF Lane
  <2> QED BY <2>4 DEF r
<1> QED BY <1>2, <1>5 DEF q

LEMMA RemovedFromMap ==
  ASSUME NEW Y \in Map, NEW o \in DOMAIN Y
  PROVE  /\ RemoveAt(Y, o) \in Map /\ Len(RemoveAt(Y, o)) = Len(Y) - 1
         /\ GlobalCount(Y) = GlobalCount(RemoveAt(Y, o)) + Len(Y[o].items)
         /\ \A t \in DOMAIN RemoveAt(Y, o) : \E y \in DOMAIN Y :
              y # o /\ RemoveAt(Y, o)[t] = Y[y]
         /\ \A y \in DOMAIN Y : y # o => \E t \in DOMAIN RemoveAt(Y, o) :
              RemoveAt(Y, o)[t] = Y[y]
         /\ o # Len(Y) => /\ Len(RemoveAt(Y, o)) \in DOMAIN RemoveAt(Y, o)
                          /\ RemoveAt(Y, o)[Len(RemoveAt(Y, o))] = Y[Len(Y)]
<1> DEFINE T == RemoveAt(Y, o)
<1>0. Y \in Seq(Lane) /\ Len(Y) \in Nat /\ DOMAIN Y = 1 .. Len(Y) /\ ScopesUnique(Y) BY MapFacts
<1>1. /\ T \in Seq(Lane) /\ Len(T) = Len(Y) - 1
      /\ \A j \in 1 .. Len(Y) - 1 : T[j] = IF j < o THEN Y[j] ELSE Y[j + 1]
  BY <1>0, Removed
<1>2. GlobalCount(Y) = GlobalCount(T) + Len(Y[o].items) BY <1>0, CountRemoved
<1> HIDE DEF T
<1>3. DOMAIN T = 1 .. Len(T) BY <1>1, LenProperties
<1>4. \A t \in DOMAIN T : \E y \in DOMAIN Y : y # o /\ T[t] = Y[y]
  <2> SUFFICES ASSUME NEW t \in DOMAIN T PROVE \E y \in DOMAIN Y : y # o /\ T[t] = Y[y]
    OBVIOUS
  <2>1. t \in DOMAIN Y /\ t + 1 \in DOMAIN Y /\ t \in 1 .. Len(Y) - 1 BY <1>0, <1>1, <1>3
  <2>2. CASE t < o
    <3>1. t # o /\ T[t] = Y[t] BY <1>0, <1>1, <2>1, <2>2
    <3> QED BY <2>1, <3>1
  <2>3. CASE ~(t < o)
    <3>1. t + 1 # o /\ T[t] = Y[t + 1] BY <1>0, <1>1, <2>1, <2>3
    <3> QED BY <2>1, <3>1
  <2> QED BY <2>2, <2>3
<1>5. \A y \in DOMAIN Y : y # o => \E t \in DOMAIN T : T[t] = Y[y]
  <2> SUFFICES ASSUME NEW y \in DOMAIN Y, y # o PROVE \E t \in DOMAIN T : T[t] = Y[y]
    OBVIOUS
  <2>1. CASE y < o
    <3>1. y \in 1 .. Len(Y) - 1 BY <1>0, <2>1
    <3>2. T[y] = Y[y] /\ y \in DOMAIN T BY <1>1, <1>3, <2>1, <3>1
    <3> QED BY <3>2
  <2>2. CASE y > o
    <3>1. y - 1 \in 1 .. Len(Y) - 1 /\ ~(y - 1 < o) /\ (y - 1) + 1 = y BY <1>0, <2>2
    <3>2. T[y - 1] = Y[y] /\ y - 1 \in DOMAIN T BY <1>1, <1>3, <3>1
    <3> QED BY <3>2
  <2> QED BY <1>0, <2>1, <2>2
<1>6. ScopesUnique(T)
  <2> SUFFICES ASSUME NEW i \in DOMAIN T, NEW j \in DOMAIN T, T[i].scope = T[j].scope
               PROVE  i = j
    BY DEF ScopesUnique
  <2> DEFINE place(n) == IF n < o THEN n ELSE n + 1
  <2>1. /\ place(i) \in DOMAIN Y /\ T[i] = Y[place(i)] /\ i \in Nat
        /\ place(j) \in DOMAIN Y /\ T[j] = Y[place(j)] /\ j \in Nat
    BY <1>0, <1>1, <1>3
  <2> HIDE DEF place
  <2>2. place(i) = place(j) BY <1>0, <2>1 DEF ScopesUnique
  <2> QED BY <1>0, <2>1, <2>2 DEF place
<1>7. T \in Map BY <1>1, <1>6 DEF Map
<1>8. ASSUME o # Len(Y) PROVE Len(T) \in DOMAIN T /\ T[Len(T)] = Y[Len(Y)]
  <2>1. Len(T) \in 1 .. Len(Y) - 1 /\ ~(Len(T) < o) /\ Len(T) + 1 = Len(Y)
    BY <1>0, <1>1, <1>8
  <2> QED BY <1>1, <1>3, <2>1
<1> QED BY <1>1, <1>2, <1>4, <1>5, <1>7, <1>8 DEF T

LEMMA ReplacedInMap ==
  ASSUME NEW Y \in Map, NEW o \in DOMAIN Y, NEW s \in Lane, s.scope = Y[o].scope
  PROVE  /\ [Y EXCEPT ![o] = s] \in Map /\ Len([Y EXCEPT ![o] = s]) = Len(Y)
         /\ DOMAIN [Y EXCEPT ![o] = s] = DOMAIN Y
         /\ GlobalCount([Y EXCEPT ![o] = s]) = (GlobalCount(Y) - Len(Y[o].items)) + Len(s.items)
         /\ \A j \in DOMAIN Y : [Y EXCEPT ![o] = s][j] = IF j = o THEN s ELSE Y[j]
<1> DEFINE T == [Y EXCEPT ![o] = s]
<1>0. Y \in Seq(Lane) /\ DOMAIN Y = 1 .. Len(Y) /\ ScopesUnique(Y) BY MapFacts
<1>1. /\ T \in Seq(Lane) /\ Len(T) = Len(Y)
      /\ \A j \in 1 .. Len(Y) : T[j] = IF j = o THEN s ELSE Y[j]
  BY <1>0, ExceptSeq
<1>2. GlobalCount(T) = (GlobalCount(Y) - Len(Y[o].items)) + Len(s.items)
  BY <1>0, CountReplaced
<1> HIDE DEF T
<1>3. DOMAIN T = DOMAIN Y BY <1>0, <1>1, LenProperties
<1>4. \A j \in DOMAIN Y : T[j].scope = Y[j].scope BY <1>0, <1>1
<1>5. ScopesUnique(T) BY <1>0, <1>3, <1>4 DEF ScopesUnique
<1>6. T \in Map BY <1>1, <1>5 DEF Map
<1> QED BY <1>0, <1>1, <1>2, <1>3, <1>6 DEF T

LEMMA ShiftFacts ==
  ASSUME NEW Y \in Map, Y # <<>>
  PROVE  /\ ShiftOldest(Y) \in Map /\ Shed(Y, ShiftOldest(Y))
         /\ Len(ShiftOldest(Y)) <= Len(Y)
         /\ GlobalCount(ShiftOldest(Y)) + Len(ShiftOldest(Y)) < GlobalCount(Y) + Len(Y)
         /\ GlobalCount(ShiftOldest(Y)) < GlobalCount(Y)
         /\ Len(Y[Oldest(Y)].items) > 1 => \E t \in DOMAIN ShiftOldest(Y) :
              /\ ShiftOldest(Y)[t].scope = Y[Oldest(Y)].scope
              /\ ShiftOldest(Y)[t].at = Y[Oldest(Y)].at
              /\ ShiftOldest(Y)[t].items = Tail(Y[Oldest(Y)].items)
<1> DEFINE o == Oldest(Y)
           q == Tail(Y[o].items)
           T == ShiftOldest(Y)
<1>0. o \in DOMAIN Y BY OldestFacts
<1>1. Y[o] \in Lane /\ Len(Y[o].items) \in Nat \ {0} /\ Len(Y) \in Nat /\ Y \in Seq(Lane)
  BY <1>0, MapFacts
<1>2. Y[o].items \in Seq(Thing) /\ Y[o].items # <<>> BY <1>1, LaneFacts, EmptySeq
<1>3. q \in Seq(Thing) /\ Len(q) = Len(Y[o].items) - 1 BY <1>2, HeadTailProperties
<1>4. T = SetItems(Y, o, q) BY <1>2 DEF ShiftOldest
<1>5. GlobalCount(Y) \in Nat /\ T = T BY <1>1, CountIsNatural
<1>6. CASE Len(Y[o].items) = 1
  <2>1. q = <<>>
    <3> HIDE DEF o, q
    <3>1. Len(q) = 0 BY <1>3, <1>6
    <3> QED BY <1>3, <3>1, EmptySeq
  <2>2. T = RemoveAt(Y, o) BY <1>4, <2>1 DEF SetItems
  <2> HIDE DEF o, q, T
  <2>3. /\ T \in Map /\ Len(T) = Len(Y) - 1
        /\ GlobalCount(Y) = GlobalCount(T) + Len(Y[o].items)
        /\ \A t \in DOMAIN T : \E y \in DOMAIN Y : y # o /\ T[t] = Y[y]
        /\ \A y \in DOMAIN Y : y # o => \E t \in DOMAIN T : T[t] = Y[y]
        /\ o # Len(Y) => Len(T) \in DOMAIN T /\ T[Len(T)] = Y[Len(Y)]
    BY <1>0, <2>2, RemovedFromMap
  <2>4. Shed(Y, T)
    <3>1. /\ \A y \in DOMAIN Y : y # Oldest(Y) => \E t \in DOMAIN T : T[t] = Y[y]
          /\ Oldest(Y) # Len(Y) => Len(T) \in DOMAIN T /\ T[Len(T)] = Y[Len(Y)]
      BY <2>3 DEF o
    <3> QED BY <2>3, <3>1 DEF Shed
  <2>5. GlobalCount(T) \in Nat BY <2>3, MapFacts, CountIsNatural
  <2>6. /\ Len(T) <= Len(Y) /\ GlobalCount(T) + Len(T) < GlobalCount(Y) + Len(Y)
        /\ GlobalCount(T) < GlobalCount(Y)
    <3> DEFINE lY == Len(Y)
               lT == Len(T)
               gY == GlobalCount(Y)
               gT == GlobalCount(T)
    <3>1. lY \in Nat /\ lT = lY - 1 /\ gT \in Nat /\ gY = gT + 1 BY <1>1, <1>6, <2>3, <2>5
    <3> HIDE DEF lY, lT, gY, gT
    <3>2. lT <= lY /\ gT + lT < gY + lY /\ gT < gY BY <3>1
    <3> QED BY <3>2 DEF lY, lT, gY, gT
  <2> QED BY <1>6, <2>3, <2>4, <2>6 DEF o, T
<1>7. CASE Len(Y[o].items) # 1
  <2> DEFINE s == [Y[o] EXCEPT !.items = q]
  <2>1. Len(Y[o].items) > 1 /\ Len(q) > 0
    <3> HIDE DEF o, q
    <3> DEFINE m == Len(Y[o].items)
    <3>1. m \in Nat \ {0} /\ m # 1 /\ Len(q) = m - 1 BY <1>1, <1>3, <1>7
    <3> HIDE DEF m
    <3>2. m > 1 /\ Len(q) > 0 BY <3>1
    <3> QED BY <3>2 DEF m
  <2>2. q # <<>>
    <3> HIDE DEF o, q
    <3> QED BY <1>3, <2>1, EmptySeq
  <2>3. T = [Y EXCEPT ![o] = s] BY <1>4, <2>2 DEF SetItems
  <2>4. s \in Lane BY <1>1, <2>1, TailIsLane
  <2>5. s.scope = Y[o].scope /\ s.at = Y[o].at /\ s.items = q
    BY <1>1, LaneFacts
  <2> HIDE DEF o, q, T, s
  <2>6. /\ T \in Map /\ Len(T) = Len(Y) /\ DOMAIN T = DOMAIN Y
        /\ GlobalCount(T) = (GlobalCount(Y) - Len(Y[o].items)) + Len(s.items)
        /\ \A j \in DOMAIN Y : T[j] = IF j = o THEN s ELSE Y[j]
    BY <1>0, <2>3, <2>4, <2>5, ReplacedInMap
  <2>7. T[o].scope = Y[o].scope /\ T[o].at = Y[o].at /\ T[o].items = q /\ o \in DOMAIN T
    BY <1>0, <2>5, <2>6
  <2>8. Shed(Y, T)
    <3>1. ASSUME NEW t \in DOMAIN T
          PROVE  \E y \in DOMAIN Y :
                   /\ T[t].scope = Y[y].scope /\ T[t].at = Y[y].at
                   /\ \/ T[t] = Y[y]
                      \/ /\ y = Oldest(Y) /\ Len(Y[y].items) > 1
                         /\ T[t].items = Tail(Y[y].items)
      <4>1. CASE t = o
        <5>1. t = Oldest(Y) /\ T[t].items = Tail(Y[t].items) BY <2>7, <4>1 DEF o, q
        <5> QED BY <2>1, <2>6, <2>7, <4>1, <5>1
      <4>2. CASE t # o BY <2>6, <4>2
      <4> QED BY <4>1, <4>2
    <3>2. \A y \in DOMAIN Y : y # Oldest(Y) => \E t \in DOMAIN T : T[t] = Y[y]
      BY <2>6 DEF o
    <3>3. ASSUME Oldest(Y) # Len(Y) PROVE Len(T) \in DOMAIN T /\ T[Len(T)] = Y[Len(Y)]
      <4>1. Len(Y) \in DOMAIN Y
        <5>1. DOMAIN Y = 1 .. Len(Y) BY MapFacts
        <5> QED BY <1>0, <1>1, <5>1
      <4> QED BY <2>6, <3>3, <4>1 DEF o
    <3> QED BY <3>1, <3>2, <3>3 DEF Shed
  <2>9. /\ Len(T) <= Len(Y) /\ GlobalCount(T) + Len(T) < GlobalCount(Y) + Len(Y)
        /\ GlobalCount(T) < GlobalCount(Y)
    BY <1>1, <1>3, <1>5, <2>5, <2>6
  <2> QED BY <2>6, <2>7, <2>8, <2>9 DEF o, T, q
<1> QED BY <1>6, <1>7

LEMMA DropFacts ==
  ASSUME NEW Y \in Map, Y # <<>>
  PROVE  /\ DropOldest(Y) \in Map /\ Shed(Y, DropOldest(Y))
         /\ Len(DropOldest(Y)) = Len(Y) - 1
         /\ GlobalCount(DropOldest(Y)) <= GlobalCount(Y)
<1> DEFINE o == Oldest(Y)
           T == DropOldest(Y)
<1>0. o \in DOMAIN Y BY OldestFacts
<1>1. Len(Y[o].items) \in Nat BY <1>0, MapFacts
<1>2. T = RemoveAt(Y, o) BY DEF DropOldest
<1> HIDE DEF o, T
<1>3. /\ T \in Map /\ Len(T) = Len(Y) - 1
      /\ GlobalCount(Y) = GlobalCount(T) + Len(Y[o].items)
      /\ \A t \in DOMAIN T : \E y \in DOMAIN Y : y # o /\ T[t] = Y[y]
      /\ \A y \in DOMAIN Y : y # o => \E t \in DOMAIN T : T[t] = Y[y]
      /\ o # Len(Y) => Len(T) \in DOMAIN T /\ T[Len(T)] = Y[Len(Y)]
  BY <1>0, <1>2, RemovedFromMap
<1>4. GlobalCount(T) \in Nat /\ GlobalCount(Y) \in Nat BY <1>3, MapFacts, CountIsNatural
<1>5. /\ \A y \in DOMAIN Y : y # Oldest(Y) => \E t \in DOMAIN T : T[t] = Y[y]
      /\ Oldest(Y) # Len(Y) => Len(T) \in DOMAIN T /\ T[Len(T)] = Y[Len(Y)]
  BY <1>3 DEF o
<1>6. Shed(Y, T) BY <1>3, <1>5 DEF Shed
<1>7. GlobalCount(T) <= GlobalCount(Y) BY <1>1, <1>3, <1>4
<1> QED BY <1>3, <1>6, <1>7 DEF T

(***************************************************************************)
(* The two loops: they end, and keep what each round keeps.                *)
(***************************************************************************)

LEMMA TrimGloballyEnds ==
  ASSUME NEW J \in SUBSET Map, NEW S \in J,
         \A y \in J : OverGlobal(y) => ShiftOldest(y) \in J
  PROVE  TrimGlobally(S) \in J /\ ~OverGlobal(TrimGlobally(S))
<1> DEFINE r == GlobalCount(S) + Len(S)
           Is(f) == f = [i \in 0 .. r |-> IF i = 0 THEN S
                          ELSE IF OverGlobal(f[i - 1]) THEN ShiftOldest(f[i - 1])
                          ELSE f[i - 1]]
           c == CHOOSE f : Is(f)
<1>0. r \in Nat BY MapFacts, CountIsNatural
<1>1. TrimGlobally(S) = c[r] BY DEF TrimGlobally, While
<1>2. \E f : Is(f)
  <2> DEFINE g == [y \in J |-> IF OverGlobal(y) THEN ShiftOldest(y) ELSE y]
             G == [i \in Nat |-> g]
  <2>1. g \in [J -> J] /\ \A y \in J : g[y] = IF OverGlobal(y) THEN ShiftOldest(y) ELSE y
    OBVIOUS
  <2>2. G \in [Nat -> [J -> J]] /\ \A i \in Nat : G[i] = g
    <3> HIDE DEF g
    <3> QED BY <2>1
  <2> HIDE DEF g, G, r
  <2>3. \E f \in [0 .. r -> J] : Follows(f, G, S, r) BY <1>0, <2>2, Recursion
  <2>4. PICK f \in [0 .. r -> J] : Follows(f, G, S, r) BY <2>3
  <2>5. f = [i \in 0 .. r |-> f[i]] OBVIOUS
  <2>6. ASSUME NEW i \in 0 .. r
        PROVE  f[i] = IF i = 0 THEN S
                      ELSE IF OverGlobal(f[i - 1]) THEN ShiftOldest(f[i - 1]) ELSE f[i - 1]
    <3>1. CASE i = 0 BY <2>4, <3>1 DEF Follows
    <3>2. CASE i # 0
      <4>1. i \in 1 .. r /\ i - 1 \in 0 .. r /\ i \in Nat BY <1>0, <3>2
      <4>2. f[i] = G[i][f[i - 1]] BY <2>4, <4>1 DEF Follows
      <4>3. f[i - 1] \in J BY <4>1
      <4>4. f[i] = g[f[i - 1]] BY <2>2, <4>1, <4>2
      <4> QED BY <2>1, <3>2, <4>3, <4>4
    <3> QED BY <3>1, <3>2
  <2>7. Is(f) BY <2>5, <2>6, Zenon
  <2> QED BY <2>7
<1>3. Is(c)
  <2> HIDE DEF Is
  <2> QED BY <1>2
<1> HIDE DEF c, r
<1>4. c[0] = S BY <1>0, <1>3
<1>5. \A i \in 1 .. r : c[i] = IF OverGlobal(c[i - 1]) THEN ShiftOldest(c[i - 1]) ELSE c[i - 1]
  BY <1>0, <1>3
<1> DEFINE M(y) == GlobalCount(y) + Len(y)
           Q == {n \in Nat : c[n] \in J /\ (OverGlobal(c[n]) => M(c[n]) <= r - n)}
<1>6. 0 \in Q BY <1>0, <1>4 DEF r
<1>7. ASSUME NEW n \in 0 .. r - 1, n \in Q PROVE n + 1 \in Q
  <2>1. n + 1 \in 1 .. r /\ (n + 1) - 1 = n /\ n + 1 \in Nat BY <1>0
  <2>2. c[n] \in J /\ (OverGlobal(c[n]) => M(c[n]) <= r - n) BY <1>7
  <2>3. c[n + 1] = IF OverGlobal(c[n]) THEN ShiftOldest(c[n]) ELSE c[n] BY <1>5, <2>1
  <2>4. CASE ~OverGlobal(c[n]) BY <2>1, <2>2, <2>3, <2>4
  <2>5. CASE OverGlobal(c[n])
    <3> DEFINE y == c[n]
               z == c[n + 1]
    <3>1. z = ShiftOldest(y) /\ z \in J /\ y \in J /\ M(y) <= r - n BY <2>2, <2>3, <2>5
    <3> HIDE DEF y, z
    <3>2. y # <<>>
      <4>1. GlobalCount(y) # 0
        <5>1. OverGlobal(y) BY <2>5 DEF y
        <5>2. GlobalCount(y) \in Nat BY <3>1, MapFacts, CountIsNatural
        <5> QED BY <5>1, <5>2, BudgetAssumption DEF OverGlobal
      <4> QED BY <4>1, CountOfNone
    <3>3. z \in Map /\ M(z) < M(y)
      <4>1. y \in Map /\ z \in Map BY <3>1
      <4> QED BY <3>1, <3>2, <4>1, ShiftFacts
    <3>4. M(z) \in Nat /\ M(y) \in Nat BY <3>1, MapFacts, CountIsNatural
    <3> HIDE DEF M
    <3>5. M(z) <= r - (n + 1) BY <1>0, <3>1, <3>3, <3>4
    <3>6. c[n + 1] \in J /\ M(c[n + 1]) <= r - (n + 1) BY <3>1, <3>5 DEF z
    <3> QED BY <2>1, <3>6
  <2> QED BY <2>4, <2>5
<1>8. \A n \in 0 .. r : n \in Q
  <2> HIDE DEF Q
  <2> QED BY <1>0, <1>6, <1>7, UpTo
<1>9. c[r] \in J /\ (OverGlobal(c[r]) => M(c[r]) <= 0) BY <1>0, <1>8
<1>10. ~OverGlobal(c[r])
  <2>1. c[r] \in Map /\ Len(c[r]) \in Nat /\ GlobalCount(c[r]) \in Nat
    BY <1>9, MapFacts, CountIsNatural
  <2> QED BY <1>9, <2>1, BudgetAssumption DEF OverGlobal
<1> QED BY <1>1, <1>9, <1>10

LEMMA TrimSessionCountEnds ==
  ASSUME NEW J \in SUBSET Map, NEW S \in J,
         \A y \in J : OverSessions(y) => DropOldest(y) \in J
  PROVE  TrimSessionCount(S) \in J /\ ~OverSessions(TrimSessionCount(S))
<1> DEFINE r == Len(S)
           Is(f) == f = [i \in 0 .. r |-> IF i = 0 THEN S
                          ELSE IF OverSessions(f[i - 1]) THEN DropOldest(f[i - 1])
                          ELSE f[i - 1]]
           c == CHOOSE f : Is(f)
<1>0. r \in Nat BY MapFacts, CountIsNatural
<1>1. TrimSessionCount(S) = c[r] BY DEF TrimSessionCount, While
<1>2. \E f : Is(f)
  <2> DEFINE g == [y \in J |-> IF OverSessions(y) THEN DropOldest(y) ELSE y]
             G == [i \in Nat |-> g]
  <2>1. g \in [J -> J] /\ \A y \in J : g[y] = IF OverSessions(y) THEN DropOldest(y) ELSE y
    OBVIOUS
  <2>2. G \in [Nat -> [J -> J]] /\ \A i \in Nat : G[i] = g
    <3> HIDE DEF g
    <3> QED BY <2>1
  <2> HIDE DEF g, G, r
  <2>3. \E f \in [0 .. r -> J] : Follows(f, G, S, r) BY <1>0, <2>2, Recursion
  <2>4. PICK f \in [0 .. r -> J] : Follows(f, G, S, r) BY <2>3
  <2>5. f = [i \in 0 .. r |-> f[i]] OBVIOUS
  <2>6. ASSUME NEW i \in 0 .. r
        PROVE  f[i] = IF i = 0 THEN S
                      ELSE IF OverSessions(f[i - 1]) THEN DropOldest(f[i - 1]) ELSE f[i - 1]
    <3>1. CASE i = 0 BY <2>4, <3>1 DEF Follows
    <3>2. CASE i # 0
      <4>1. i \in 1 .. r /\ i - 1 \in 0 .. r /\ i \in Nat BY <1>0, <3>2
      <4>2. f[i] = G[i][f[i - 1]] BY <2>4, <4>1 DEF Follows
      <4>3. f[i - 1] \in J BY <4>1
      <4>4. f[i] = g[f[i - 1]] BY <2>2, <4>1, <4>2
      <4> QED BY <2>1, <3>2, <4>3, <4>4
    <3> QED BY <3>1, <3>2
  <2>7. Is(f) BY <2>5, <2>6, Zenon
  <2> QED BY <2>7
<1>3. Is(c)
  <2> HIDE DEF Is
  <2> QED BY <1>2
<1> HIDE DEF c, r
<1>4. c[0] = S BY <1>0, <1>3
<1>5. \A i \in 1 .. r : c[i] = IF OverSessions(c[i - 1]) THEN DropOldest(c[i - 1]) ELSE c[i - 1]
  BY <1>0, <1>3
<1> DEFINE M(y) == Len(y)
           Q == {n \in Nat : c[n] \in J /\ (OverSessions(c[n]) => M(c[n]) <= r - n)}
<1>6. 0 \in Q BY <1>0, <1>4 DEF r
<1>7. ASSUME NEW n \in 0 .. r - 1, n \in Q PROVE n + 1 \in Q
  <2>1. n + 1 \in 1 .. r /\ (n + 1) - 1 = n /\ n + 1 \in Nat BY <1>0
  <2>2. c[n] \in J /\ (OverSessions(c[n]) => M(c[n]) <= r - n) BY <1>7
  <2>3. c[n + 1] = IF OverSessions(c[n]) THEN DropOldest(c[n]) ELSE c[n] BY <1>5, <2>1
  <2>4. CASE ~OverSessions(c[n]) BY <2>1, <2>2, <2>3, <2>4
  <2>5. CASE OverSessions(c[n])
    <3> DEFINE y == c[n]
               z == c[n + 1]
    <3>1. z = DropOldest(y) /\ z \in J /\ y \in J /\ M(y) <= r - n BY <2>2, <2>3, <2>5
    <3> HIDE DEF y, z
    <3>2. y # <<>>
      <4>1. OverSessions(y) BY <2>5 DEF y
      <4>2. Len(y) # 0 /\ Len(<<>>) = 0 BY <4>1, BudgetAssumption DEF OverSessions
      <4> QED BY <4>2
    <3>3. z \in Map /\ M(z) < M(y)
      <4>1. y \in Map /\ z \in Map /\ Len(y) \in Nat BY <3>1, MapFacts
      <4>2. Len(z) = Len(y) - 1 BY <3>1, <3>2, <4>1, DropFacts
      <4> QED BY <4>1, <4>2
    <3>4. M(z) \in Nat /\ M(y) \in Nat BY <3>1, MapFacts, CountIsNatural
    <3> HIDE DEF M
    <3>5. M(z) <= r - (n + 1) BY <1>0, <3>1, <3>3, <3>4
    <3>6. c[n + 1] \in J /\ M(c[n + 1]) <= r - (n + 1) BY <3>1, <3>5 DEF z
    <3> QED BY <2>1, <3>6
  <2> QED BY <2>4, <2>5
<1>8. \A n \in 0 .. r : n \in Q
  <2> HIDE DEF Q
  <2> QED BY <1>0, <1>6, <1>7, UpTo
<1>9. c[r] \in J /\ (OverSessions(c[r]) => M(c[r]) <= 0) BY <1>0, <1>8
<1>10. ~OverSessions(c[r])
  <2>1. c[r] \in Map /\ Len(c[r]) \in Nat /\ GlobalCount(c[r]) \in Nat
    BY <1>9, MapFacts, CountIsNatural
  <2> QED BY <1>9, <2>1, BudgetAssumption DEF OverSessions
<1> QED BY <1>1, <1>9, <1>10

(***************************************************************************)
(* What the two trims leave of a map B.                                    *)
(***************************************************************************)
\* a is what is left of b when items went from its front.
Suffix(a, b) == \E d \in Nat : /\ Len(b) = Len(a) + d
                               /\ \A i \in 1 .. Len(a) : a[i] = b[i + d]

\* Every session of T is one of B with items gone from its front.
Derives(B, T) == \A t \in DOMAIN T : \E b \in DOMAIN B :
    T[t].scope = B[b].scope /\ T[t].at = B[b].at /\ Suffix(T[t].items, B[b].items)

\* No session of T with scope k has the item x.
Gone(k, x, T) == \A t \in DOMAIN T : T[t].scope = k => x \notin ToSet(T[t].items)

\* A session of B that lost an item was touched no later than those that are left.
Least(B, T) == \A b \in DOMAIN B : \A x \in ToSet(B[b].items) :
    Gone(B[b].scope, x, T) => \A t \in DOMAIN T : B[b].at <= T[t].at

LEMMA SuffixOfItself ==
  ASSUME NEW X, NEW a \in Seq(X)
  PROVE  Suffix(a, a)
<1>1. Len(a) = Len(a) + 0 /\ \A i \in 1 .. Len(a) : a[i] = a[i + 0] OBVIOUS
<1> QED BY <1>1 DEF Suffix

LEMMA SuffixTail ==
  ASSUME NEW X, NEW a \in Seq(X), NEW b \in Seq(X), a # <<>>, Suffix(a, b)
  PROVE  Suffix(Tail(a), b)
<1>1. PICK d \in Nat : Len(b) = Len(a) + d /\ \A i \in 1 .. Len(a) : a[i] = b[i + d]
  BY DEF Suffix
<1> DEFINE q == Tail(a)
<1>2. q \in Seq(X) /\ Len(q) = Len(a) - 1 /\ \A i \in 1 .. Len(q) : q[i] = a[i + 1]
  BY HeadTailProperties
<1>3. Len(a) \in Nat \ {0} BY EmptySeq
<1> HIDE DEF q
<1>4. Len(b) = Len(q) + (d + 1) BY <1>1, <1>2, <1>3
<1>5. \A i \in 1 .. Len(q) : q[i] = b[i + (d + 1)]
  <2> SUFFICES ASSUME NEW i \in 1 .. Len(q) PROVE q[i] = b[i + (d + 1)] OBVIOUS
  <2>1. i + 1 \in 1 .. Len(a) /\ (i + 1) + d = i + (d + 1) BY <1>2, <1>3
  <2>2. q[i] = a[i + 1] BY <1>2
  <2>3. a[i + 1] = b[(i + 1) + d] BY <1>1, <2>1
  <2> QED BY <2>1, <2>2, <2>3
<1>6. Suffix(q, b)
  <2> DEFINE e == d + 1
  <2>1. e \in Nat /\ Len(b) = Len(q) + e /\ \A i \in 1 .. Len(q) : q[i] = b[i + e]
    BY <1>4, <1>5
  <2> HIDE DEF e
  <2> QED BY <2>1 DEF Suffix
<1> QED BY <1>6 DEF q

\* What went from a sorted lane is older than what is left.
LEMMA SuffixKeepsNewer ==
  ASSUME NEW a \in Seq(Thing), NEW b \in Seq(Thing), Sorted(b), Suffix(a, b),
         NEW x \in ToSet(b), x \notin ToSet(a)
  PROVE  \A y \in ToSet(a) : y \in ToSet(b) /\ y.id > x.id
<1>1. PICK d \in Nat : Len(b) = Len(a) + d /\ \A i \in 1 .. Len(a) : a[i] = b[i + d]
  BY DEF Suffix
<1>2. DOMAIN a = 1 .. Len(a) /\ DOMAIN b = 1 .. Len(b) /\ Len(a) \in Nat BY LenProperties
<1>3. PICK j \in 1 .. Len(b) : b[j] = x BY <1>2 DEF ToSet
<1>4. j <= d
  <2> SUFFICES ASSUME j > d PROVE FALSE OBVIOUS
  <2>1. j - d \in 1 .. Len(a) /\ (j - d) + d = j BY <1>1, <1>2
  <2>2. a[j - d] = x BY <1>1, <1>3, <2>1
  <2> QED BY <1>2, <2>1, <2>2 DEF ToSet
<1> SUFFICES ASSUME NEW y \in ToSet(a) PROVE y \in ToSet(b) /\ y.id > x.id OBVIOUS
<1>5. PICK i \in 1 .. Len(a) : a[i] = y BY <1>2 DEF ToSet
<1>6. i + d \in 1 .. Len(b) /\ b[i + d] = y /\ j < i + d BY <1>1, <1>2, <1>4, <1>5
<1>7. y \in ToSet(b) BY <1>2, <1>6 DEF ToSet
<1>8. b[j].id < b[i + d].id BY <1>2, <1>6 DEF Sorted
<1>9. b[j] \in Thing /\ b[i + d] \in Thing BY <1>2, <1>6
<1>10. x.id \in Nat /\ y.id \in Nat BY <1>3, <1>6, <1>9 DEF Thing, Item
<1> QED BY <1>3, <1>6, <1>7, <1>8, <1>10

LEMMA SuffixMembers ==
  ASSUME NEW X, NEW a \in Seq(X), NEW b \in Seq(X), Suffix(a, b)
  PROVE  ToSet(a) \subseteq ToSet(b) /\ Len(a) <= Len(b)
<1>1. PICK d \in Nat : Len(b) = Len(a) + d /\ \A i \in 1 .. Len(a) : a[i] = b[i + d]
  BY DEF Suffix
<1>2. DOMAIN a = 1 .. Len(a) /\ DOMAIN b = 1 .. Len(b) /\ Len(a) \in Nat BY LenProperties
<1>3. \A i \in 1 .. Len(a) : i + d \in 1 .. Len(b) BY <1>1, <1>2
<1>4. ToSet(a) \subseteq ToSet(b) BY <1>1, <1>2, <1>3 DEF ToSet
<1> QED BY <1>1, <1>2, <1>4

LEMMA DerivesStep ==
  ASSUME NEW B \in Map, NEW Y \in Map, NEW T \in Map, Derives(B, Y), Shed(Y, T)
  PROVE  Derives(B, T)
<1> SUFFICES ASSUME NEW t \in DOMAIN T
             PROVE  \E b \in DOMAIN B : /\ T[t].scope = B[b].scope /\ T[t].at = B[b].at
                                        /\ Suffix(T[t].items, B[b].items)
  BY DEF Derives
<1>1. PICK y \in DOMAIN Y :
        /\ T[t].scope = Y[y].scope /\ T[t].at = Y[y].at
        /\ \/ T[t] = Y[y]
           \/ Len(Y[y].items) > 1 /\ T[t].items = Tail(Y[y].items)
  BY DEF Shed
<1>2. PICK b \in DOMAIN B : /\ Y[y].scope = B[b].scope /\ Y[y].at = B[b].at
                            /\ Suffix(Y[y].items, B[b].items)
  BY DEF Derives
<1>3. CASE T[t] = Y[y] BY <1>1, <1>2, <1>3
<1>4. CASE Len(Y[y].items) > 1 /\ T[t].items = Tail(Y[y].items)
  <2>1. Y[y] \in Lane /\ B[b] \in Lane BY MapFacts
  <2>2. Y[y].items \in Seq(Thing) /\ B[b].items \in Seq(Thing) BY <2>1, LaneFacts
  <2>3. Y[y].items # <<>>
    <3>1. Len(<<>>) = 0 OBVIOUS
    <3> QED BY <1>4, <3>1
  <2>4. Suffix(Tail(Y[y].items), B[b].items) BY <1>2, <2>2, <2>3, SuffixTail
  <2> QED BY <1>1, <1>2, <1>4, <2>4
<1> QED BY <1>1, <1>3, <1>4

LEMMA LeastStep ==
  ASSUME NEW B \in Map, NEW Y \in Map, NEW T \in Map, Y # <<>>,
         Derives(B, Y), Least(B, Y), Shed(Y, T)
  PROVE  Least(B, T)
<1> SUFFICES ASSUME NEW b \in DOMAIN B, NEW x \in ToSet(B[b].items), Gone(B[b].scope, x, T),
                    NEW t \in DOMAIN T
             PROVE  B[b].at <= T[t].at
  BY DEF Least
<1>1. PICK u \in DOMAIN Y : T[t].at = Y[u].at BY DEF Shed
<1>2. CASE Gone(B[b].scope, x, Y) BY <1>1, <1>2 DEF Least
<1>3. CASE ~Gone(B[b].scope, x, Y)
  <2>1. PICK y \in DOMAIN Y : Y[y].scope = B[b].scope /\ x \in ToSet(Y[y].items)
    BY <1>3 DEF Gone
  <2>2. y = Oldest(Y)
    <3> SUFFICES ASSUME y # Oldest(Y) PROVE FALSE OBVIOUS
    <3>1. PICK v \in DOMAIN T : T[v] = Y[y] BY DEF Shed
    <3> QED BY <2>1, <3>1 DEF Gone
  <2>3. PICK c \in DOMAIN B : Y[y].scope = B[c].scope /\ Y[y].at = B[c].at BY DEF Derives
  <2>4. ScopesUnique(B) BY MapFacts
  <2>5. c = b BY <2>1, <2>3, <2>4 DEF ScopesUnique
  <2>6. Y[Oldest(Y)].at <= Y[u].at BY OldestFacts
  <2> QED BY <1>1, <2>2, <2>3, <2>5, <2>6
<1> QED BY <1>2, <1>3

LEMMA OverIsNotEmpty ==
  ASSUME NEW y \in Map, OverGlobal(y) \/ OverSessions(y)
  PROVE  y # <<>>
<1>1. Len(y) \in Nat /\ GlobalCount(y) \in Nat BY MapFacts, CountIsNatural
<1>2. CASE OverGlobal(y)
  <2>1. GlobalCount(y) # 0 BY <1>1, <1>2, BudgetAssumption DEF OverGlobal
  <2> QED BY <2>1, CountOfNone
<1>3. CASE OverSessions(y)
  <2>1. Len(y) # 0 /\ Len(<<>>) = 0 BY <1>1, <1>3, BudgetAssumption DEF OverSessions
  <2> QED BY <2>1
<1> QED BY <1>2, <1>3

\* The lane p of the call in T: touched now, with the item it appended last.
Holds(T, k, item, at, p) ==
    /\ p \in DOMAIN T /\ T[p].scope = k /\ T[p].at = at
    /\ T[p].items[Len(T[p].items)] = item
    /\ \A q \in DOMAIN T : T[q].at <= at

\* It is not the next to go: a new lane stands last in the map, so that the
\* ties with it go first; any other lane added no session, and an item to spare.
Spared(T, p) ==
    \/ p = Len(T)
    \/ /\ Len(T) <= MaxSessions
       /\ \/ GlobalCount(T) <= MaxGlobal
          \/ GlobalCount(T) <= MaxGlobal + 1 /\ Len(T[p].items) > 1

LEMMA HoldsStep ==
  ASSUME NEW Y \in Map, NEW T \in Map, NEW k, NEW at, NEW item, NEW p, Shed(Y, T),
         Holds(Y, k, item, at, p), NEW v \in DOMAIN T,
         T[v].scope = Y[p].scope, T[v].at = Y[p].at,
         T[v].items[Len(T[v].items)] = item
  PROVE  Holds(T, k, item, at, v)
<1>1. ASSUME NEW q \in DOMAIN T PROVE T[q].at <= at
  <2>1. PICK y \in DOMAIN Y : T[q].at = Y[y].at BY DEF Shed
  <2> QED BY <2>1 DEF Holds
<1> QED BY <1>1 DEF Holds

\* If the last lane, touched now, is the oldest, it is the only one.
LEMMA LastIsOldest ==
  ASSUME NEW Y \in Map, NEW k, NEW at \in Nat, NEW item,
         Holds(Y, k, item, at, Len(Y)), Oldest(Y) = Len(Y)
  PROVE  Len(Y) = 1
<1>1. Len(Y) \in Nat /\ DOMAIN Y = 1 .. Len(Y) /\ Len(Y) \in DOMAIN Y /\ Y[Len(Y)].at = at
  BY MapFacts DEF Holds
<1>2. Y # <<>> BY <1>1
<1>3. 1 \in DOMAIN Y BY <1>1
<1>4. at <= Y[1].at /\ Y[1].at <= at /\ Y[1].at \in Nat
  BY <1>1, <1>2, <1>3, OldestFacts, MapFacts, LaneFacts DEF Holds
<1>5. Y[1].at = at BY <1>4
<1>6. Len(Y) <= 1 BY <1>1, <1>2, <1>3, <1>5, OldestFacts
<1> QED BY <1>1, <1>6

\* A lane that lost its first item and has more keeps the last.
LEMMA HoldsTail ==
  ASSUME NEW Y \in Map, NEW k, NEW at \in Nat, NEW item, Y # <<>>,
         Holds(Y, k, item, at, Oldest(Y)), Len(Y[Oldest(Y)].items) > 1
  PROVE  \E v : Holds(ShiftOldest(Y), k, item, at, v)
<1> DEFINE T == ShiftOldest(Y)
           p == Oldest(Y)
           m == Len(Y[p].items)
<1>1. T \in Map /\ Shed(Y, T) BY ShiftFacts
<1>2. Y[p] \in Lane /\ Y[p].items[m] = item BY MapFacts DEF Holds
<1>3. PICK v \in DOMAIN T : /\ T[v].scope = Y[p].scope /\ T[v].at = Y[p].at
                            /\ T[v].items = Tail(Y[p].items)
  BY ShiftFacts
<1>4. /\ Len(Tail(Y[p].items)) = m - 1
      /\ \A i \in 1 .. m - 1 : Tail(Y[p].items)[i] = Y[p].items[i + 1]
  BY <1>2, TailIsLane
<1>5. m \in Nat /\ m > 1 BY <1>2, LaneFacts
<1> HIDE DEF T, m
<1>6. T[v].items[Len(T[v].items)] = item
  <2>1. m - 1 \in 1 .. m - 1 /\ (m - 1) + 1 = m BY <1>5
  <2>2. Tail(Y[p].items)[m - 1] = Y[p].items[(m - 1) + 1] BY <1>4, <2>1
  <2> QED BY <1>2, <1>3, <1>4, <2>1, <2>2
<1>7. Holds(T, k, item, at, v)
  <2> HIDE DEF p
  <2>1. Holds(Y, k, item, at, p) BY DEF p
  <2> QED BY <1>1, <1>3, <1>6, <2>1, HoldsStep
<1> QED BY <1>7 DEF T

LEMMA KeepsShift ==
  ASSUME NEW Y \in Map, NEW k, NEW at \in Nat, NEW item, NEW p,
         Holds(Y, k, item, at, p), Spared(Y, p), OverGlobal(Y)
  PROVE  \E v : Holds(ShiftOldest(Y), k, item, at, v) /\ Spared(ShiftOldest(Y), v)
<1> DEFINE T == ShiftOldest(Y)
<1>0. /\ p \in DOMAIN Y /\ Y[p].items[Len(Y[p].items)] = item /\ Y # <<>>
      /\ Len(Y) \in Nat /\ DOMAIN Y = 1 .. Len(Y) /\ Y \in Seq(Lane) /\ Y[p] \in Lane
  BY OverIsNotEmpty, MapFacts DEF Holds
<1>1. /\ T \in Map /\ Shed(Y, T) /\ Len(T) <= Len(Y)
      /\ GlobalCount(T) < GlobalCount(Y)
  BY <1>0, ShiftFacts
<1>2. /\ GlobalCount(T) \in Nat /\ GlobalCount(Y) \in Nat /\ GlobalCount(Y) > MaxGlobal
      /\ Len(T) \in Nat /\ DOMAIN T = 1 .. Len(T) /\ MaxGlobal \in Nat \ {0}
      /\ MaxSessions \in Nat
  BY <1>1, MapFacts, CountIsNatural, BudgetAssumption DEF OverGlobal
<1>3. CASE p = Len(Y) /\ Oldest(Y) # p
  <2> HIDE DEF T
  <2>1. Len(T) \in DOMAIN T /\ T[Len(T)] = Y[p] BY <1>1, <1>3 DEF Shed
  <2>2. Holds(T, k, item, at, Len(T)) BY <1>0, <1>1, <2>1, HoldsStep
  <2>3. Spared(T, Len(T)) BY DEF Spared
  <2> QED BY <2>2, <2>3 DEF T
<1>4. CASE p = Len(Y) /\ Oldest(Y) = p
  <2>1. Len(Y) = 1 /\ p = 1 BY <1>4, LastIsOldest
  <2>2. GlobalCount(Y) = Len(Y[p].items) BY <1>0, <2>1, CountOfOne
  <2>3. Len(Y[p].items) > 1 BY <1>2, <2>2
  <2>4. PICK v : Holds(T, k, item, at, v) BY <1>0, <1>4, <2>3, HoldsTail
  <2> HIDE DEF T
  <2>5. v \in 1 .. Len(T) BY <1>2, <2>4 DEF Holds
  <2>6. v = Len(T)
    <3> DEFINE n == Len(T)
    <3>1. n \in Nat /\ n <= 1 /\ v \in 1 .. n BY <1>1, <1>2, <2>1, <2>5
    <3> HIDE DEF n
    <3>2. v = n BY <3>1
    <3> QED BY <3>2 DEF n
  <2>7. Spared(T, v) BY <2>6 DEF Spared
  <2> QED BY <2>4, <2>7 DEF T
<1>5. CASE p # Len(Y)
  <2>1. /\ Len(Y) <= MaxSessions /\ GlobalCount(Y) <= MaxGlobal + 1
        /\ Len(Y[p].items) > 1
    BY <1>2, <1>5 DEF Spared
  <2>2. Len(T) <= MaxSessions /\ GlobalCount(T) <= MaxGlobal
    <3> HIDE DEF T
    <3> QED BY <1>0, <1>1, <1>2, <2>1
  <2>3. PICK v : Holds(T, k, item, at, v)
    <3>1. CASE Oldest(Y) = p BY <1>0, <2>1, <3>1, HoldsTail
    <3>2. CASE Oldest(Y) # p
      <4> HIDE DEF T
      <4>1. PICK v \in DOMAIN T : T[v] = Y[p] BY <1>0, <1>1, <3>2 DEF Shed
      <4> QED BY <1>0, <1>1, <4>1, HoldsStep
    <3> QED BY <3>1, <3>2
  <2>4. Spared(T, v) BY <2>2 DEF Spared
  <2> QED BY <2>3, <2>4
<1> QED BY <1>3, <1>4, <1>5

LEMMA KeepsDrop ==
  ASSUME NEW Y \in Map, NEW k, NEW at \in Nat, NEW item, NEW p,
         Holds(Y, k, item, at, p), Spared(Y, p), OverSessions(Y)
  PROVE  \E v : Holds(DropOldest(Y), k, item, at, v) /\ Spared(DropOldest(Y), v)
<1> DEFINE T == DropOldest(Y)
           m == Len(Y)
           l == MaxSessions
<1>0. Y # <<>> BY OverIsNotEmpty
<1>1. T \in Map /\ Shed(Y, T) BY <1>0, DropFacts
<1>2. m \in Nat /\ l \in Nat \ {0} /\ m > l BY MapFacts, BudgetAssumption DEF OverSessions
<1>3. ~(m <= l) /\ m # 1
  <2> HIDE DEF m, l
  <2> QED BY <1>2
<1>4. p = Len(Y) /\ Y[p].items[Len(Y[p].items)] = item BY <1>3 DEF Spared, Holds
<1>5. Oldest(Y) # Len(Y) BY <1>3, <1>4, LastIsOldest
<1> HIDE DEF T
<1>6. Len(T) \in DOMAIN T /\ T[Len(T)] = Y[p] BY <1>1, <1>4, <1>5 DEF Shed
<1>7. Holds(T, k, item, at, Len(T)) BY <1>1, <1>4, <1>6, HoldsStep
<1>8. Spared(T, Len(T)) BY DEF Spared
<1> QED BY <1>7, <1>8 DEF T

\* The two trims together.
Trimmed(B) == TrimSessionCount(TrimGlobally(B))

LEMMA TrimmedIn ==
  ASSUME NEW J \in SUBSET Map, NEW B \in J,
         \A y \in J : OverGlobal(y) => ShiftOldest(y) \in J,
         \A y \in J : OverSessions(y) => DropOldest(y) \in J
  PROVE  /\ Trimmed(B) \in J
         /\ GlobalCount(Trimmed(B)) <= MaxGlobal /\ Len(Trimmed(B)) <= MaxSessions
<1> DEFINE K == {y \in J : GlobalCount(y) <= MaxGlobal}
           G == TrimGlobally(B)
           T == TrimSessionCount(G)
<1>1. G \in J /\ ~OverGlobal(G) BY TrimGloballyEnds
<1>2. G \in K
  <2>1. GlobalCount(G) \in Nat BY <1>1, MapFacts, CountIsNatural
  <2>2. GlobalCount(G) <= MaxGlobal BY <1>1, <2>1, BudgetAssumption DEF OverGlobal
  <2> QED BY <1>1, <2>2
<1>3. ASSUME NEW y \in K, OverSessions(y) PROVE DropOldest(y) \in K
  <2> DEFINE z == DropOldest(y)
  <2>1. y \in J /\ y \in Map /\ GlobalCount(y) <= MaxGlobal /\ z \in J BY <1>3
  <2>2. y # <<>>
    <3>1. Len(y) \in Nat /\ Len(<<>>) = 0 BY <2>1, MapFacts
    <3> QED BY <1>3, <3>1, BudgetAssumption DEF OverSessions
  <2>3. GlobalCount(z) <= GlobalCount(y) BY <2>1, <2>2, DropFacts
  <2>4. GlobalCount(z) \in Nat /\ GlobalCount(y) \in Nat BY <2>1, MapFacts, CountIsNatural
  <2> HIDE DEF z
  <2>5. z \in K BY <2>1, <2>3, <2>4, BudgetAssumption
  <2> QED BY <2>5 DEF z
<1>4. K \in SUBSET Map OBVIOUS
<1>5. T \in K /\ ~OverSessions(T)
  <2> HIDE DEF K, G
  <2> QED BY <1>2, <1>3, <1>4, TrimSessionCountEnds
<1>6. Len(T) \in Nat BY <1>4, <1>5, MapFacts
<1>7. Len(T) <= MaxSessions BY <1>5, <1>6, BudgetAssumption DEF OverSessions
<1> QED BY <1>5, <1>7 DEF Trimmed

LEMMA TrimmedFacts ==
  ASSUME NEW B \in Map
  PROVE  /\ Trimmed(B) \in Map /\ Derives(B, Trimmed(B)) /\ Least(B, Trimmed(B))
         /\ GlobalCount(Trimmed(B)) <= MaxGlobal /\ Len(Trimmed(B)) <= MaxSessions
<1> DEFINE J == {y \in Map : Derives(B, y) /\ Least(B, y)}
<1>1. J \in SUBSET Map OBVIOUS
<1>2. B \in J
  <2>1. ASSUME NEW b \in DOMAIN B PROVE Suffix(B[b].items, B[b].items)
    <3>1. B[b].items \in Seq(Thing) BY MapFacts, LaneFacts
    <3> QED BY <3>1, SuffixOfItself
  <2>2. Derives(B, B) BY <2>1 DEF Derives
  <2>3. Least(B, B) BY DEF Least, Gone
  <2> QED BY <2>2, <2>3
<1>3. ASSUME NEW y \in J, NEW z \in Map, y # <<>>, Shed(y, z) PROVE z \in J
  <2>1. y \in Map /\ Derives(B, y) /\ Least(B, y) OBVIOUS
  <2>2. Derives(B, z) BY <1>3, <2>1, DerivesStep
  <2>3. Least(B, z) BY <1>3, <2>1, LeastStep
  <2> QED BY <2>2, <2>3
<1>4. ASSUME NEW y \in J, OverGlobal(y) PROVE ShiftOldest(y) \in J
  <2>1. y \in Map OBVIOUS
  <2> HIDE DEF J
  <2>2. y # <<>> BY <1>4, <2>1, OverIsNotEmpty
  <2> QED BY <1>3, <2>1, <2>2, ShiftFacts
<1>5. ASSUME NEW y \in J, OverSessions(y) PROVE DropOldest(y) \in J
  <2>1. y \in Map OBVIOUS
  <2> HIDE DEF J
  <2>2. y # <<>> BY <1>5, <2>1, OverIsNotEmpty
  <2> QED BY <1>3, <2>1, <2>2, DropFacts
<1>6. /\ Trimmed(B) \in J
      /\ GlobalCount(Trimmed(B)) <= MaxGlobal /\ Len(Trimmed(B)) <= MaxSessions
  <2> HIDE DEF J
  <2> QED BY <1>1, <1>2, <1>4, <1>5, TrimmedIn
<1> QED BY <1>6

LEMMA TrimmedKeeps ==
  ASSUME NEW B \in Map, NEW k, NEW at \in Nat, NEW item, NEW p,
         Holds(B, k, item, at, p), Spared(B, p)
  PROVE  \E v : Holds(Trimmed(B), k, item, at, v)
<1> DEFINE J == {y \in Map : \E v : Holds(y, k, item, at, v) /\ Spared(y, v)}
<1>1. J \in SUBSET Map /\ B \in J OBVIOUS
<1>2. ASSUME NEW y \in J, OverGlobal(y) PROVE ShiftOldest(y) \in J
  <2>1. PICK v : Holds(y, k, item, at, v) /\ Spared(y, v) OBVIOUS
  <2>2. y \in Map OBVIOUS
  <2>3. ShiftOldest(y) \in Map BY <1>2, <2>2, OverIsNotEmpty, ShiftFacts
  <2>4. \E w : Holds(ShiftOldest(y), k, item, at, w) /\ Spared(ShiftOldest(y), w)
    BY <1>2, <2>1, <2>2, KeepsShift
  <2> QED BY <2>3, <2>4
<1>3. ASSUME NEW y \in J, OverSessions(y) PROVE DropOldest(y) \in J
  <2>1. PICK v : Holds(y, k, item, at, v) /\ Spared(y, v) OBVIOUS
  <2>2. y \in Map OBVIOUS
  <2>3. DropOldest(y) \in Map BY <1>3, <2>2, OverIsNotEmpty, DropFacts
  <2>4. \E w : Holds(DropOldest(y), k, item, at, w) /\ Spared(DropOldest(y), w)
    BY <1>3, <2>1, <2>2, KeepsDrop
  <2> QED BY <2>3, <2>4
<1>4. Trimmed(B) \in J
  <2> HIDE DEF J
  <2> QED BY <1>1, <1>2, <1>3, TrimmedIn
<1> QED BY <1>4

(***************************************************************************)
(* The purge.                                                              *)
(***************************************************************************)
\* k[n] is what a filter by the set P kept of the first n elements of s.
Filters(s, P, k) ==
    /\ k[0] = <<>>
    /\ \A i \in 1 .. Len(s) : k[i] = IF s[i] \in P THEN Append(k[i - 1], s[i]) ELSE k[i - 1]

\* q has, in order, the elements of s up to n that are in P: q[m] is s[e[m]].
Picks(s, P, n, q, e) ==
    /\ e \in [1 .. Len(q) -> 1 .. n]
    /\ \A l, m \in 1 .. Len(q) : l < m => e[l] < e[m]
    /\ \A m \in 1 .. Len(q) : q[m] = s[e[m]] /\ s[e[m]] \in P
    /\ \A i \in 1 .. n : s[i] \in P => \E m \in 1 .. Len(q) : e[m] = i

LEMMA PicksAppend ==
  ASSUME NEW X, NEW s \in Seq(X), NEW P, NEW n \in 0 .. Len(s) - 1, NEW q \in Seq(X), NEW e,
         Picks(s, P, n, q, e), s[n + 1] \in P
  PROVE  \E f : Picks(s, P, n + 1, Append(q, s[n + 1]), f)
<1> DEFINE x == s[n + 1]
           r == Append(q, x)
           f == [m \in 1 .. Len(q) + 1 |-> IF m = Len(q) + 1 THEN n + 1 ELSE e[m]]
<1>0. n \in Nat /\ Len(s) \in Nat /\ n + 1 \in 1 .. Len(s) BY LenProperties
<1>1. x \in X BY <1>0, ElementOfSeq
<1>2. /\ r \in Seq(X) /\ Len(r) = Len(q) + 1 /\ Len(q) \in Nat
      /\ \A i \in 1 .. Len(q) : r[i] = q[i]
      /\ r[Len(q) + 1] = x
  BY <1>1, AppendProperties, LenProperties
<1>3. /\ e \in [1 .. Len(q) -> 1 .. n]
      /\ \A l, m \in 1 .. Len(q) : l < m => e[l] < e[m]
      /\ \A m \in 1 .. Len(q) : q[m] = s[e[m]] /\ s[e[m]] \in P
      /\ \A i \in 1 .. n : s[i] \in P => \E m \in 1 .. Len(q) : e[m] = i
  BY DEF Picks
<1>4. /\ f \in [1 .. Len(q) + 1 -> 1 .. n + 1] /\ f[Len(q) + 1] = n + 1
      /\ \A m \in 1 .. Len(q) : f[m] = e[m] /\ e[m] \in 1 .. n
  BY <1>0, <1>2, <1>3
<1>5. \A m \in 1 .. Len(q) + 1 : m \in 1 .. Len(q) \/ m = Len(q) + 1 BY <1>2
<1> HIDE DEF r, f
<1>6. \A l, m \in 1 .. Len(r) : l < m => f[l] < f[m]
  <2> SUFFICES ASSUME NEW l \in 1 .. Len(r), NEW m \in 1 .. Len(r), l < m PROVE f[l] < f[m]
    OBVIOUS
  <2>1. l \in 1 .. Len(q) BY <1>2
  <2>2. CASE m \in 1 .. Len(q) BY <1>3, <1>4, <2>1, <2>2
  <2>3. CASE m = Len(q) + 1 BY <1>0, <1>4, <2>1, <2>3
  <2> QED BY <1>2, <1>5, <2>2, <2>3
<1>7. \A m \in 1 .. Len(r) : r[m] = s[f[m]] /\ s[f[m]] \in P
  <2> SUFFICES ASSUME NEW m \in 1 .. Len(r) PROVE r[m] = s[f[m]] /\ s[f[m]] \in P
    OBVIOUS
  <2>1. CASE m \in 1 .. Len(q) BY <1>2, <1>3, <1>4, <2>1
  <2>2. CASE m = Len(q) + 1 BY <1>2, <1>4, <2>2
  <2> QED BY <1>2, <1>5, <2>1, <2>2
<1>8. \A i \in 1 .. n + 1 : s[i] \in P => \E m \in 1 .. Len(r) : f[m] = i
  <2> SUFFICES ASSUME NEW i \in 1 .. n + 1, s[i] \in P PROVE \E m \in 1 .. Len(r) : f[m] = i
    OBVIOUS
  <2>1. CASE i = n + 1
    <3>1. Len(q) + 1 \in 1 .. Len(r) BY <1>2
    <3> QED BY <1>4, <2>1, <3>1
  <2>2. CASE i # n + 1
    <3>1. i \in 1 .. n BY <1>0, <2>2
    <3>2. PICK m \in 1 .. Len(q) : e[m] = i BY <1>3, <3>1
    <3>3. m \in 1 .. Len(r) BY <1>2
    <3> QED BY <1>4, <3>2, <3>3
  <2> QED BY <2>1, <2>2
<1>9. Picks(s, P, n + 1, r, f) BY <1>2, <1>4, <1>6, <1>7, <1>8 DEF Picks
<1> QED BY <1>9 DEF r

LEMMA PicksOn ==
  ASSUME NEW s, NEW P, NEW n \in Nat, NEW q, NEW e,
         Picks(s, P, n, q, e), s[n + 1] \notin P
  PROVE  Picks(s, P, n + 1, q, e)
<1>1. /\ e \in [1 .. Len(q) -> 1 .. n]
      /\ \A l, m \in 1 .. Len(q) : l < m => e[l] < e[m]
      /\ \A m \in 1 .. Len(q) : q[m] = s[e[m]] /\ s[e[m]] \in P
      /\ \A i \in 1 .. n : s[i] \in P => \E m \in 1 .. Len(q) : e[m] = i
  BY DEF Picks
<1>2. e \in [1 .. Len(q) -> 1 .. n + 1] BY <1>1
<1>3. \A i \in 1 .. n + 1 : i \in 1 .. n \/ i = n + 1 OBVIOUS
<1>4. \A i \in 1 .. n + 1 : s[i] \in P => \E m \in 1 .. Len(q) : e[m] = i
  BY <1>1, <1>3
<1> QED BY <1>1, <1>2, <1>4 DEF Picks

\* What a filter computes.
LEMMA FilterPicks ==
  ASSUME NEW X, NEW s \in Seq(X), NEW P, NEW k, Filters(s, P, k)
  PROVE  \A n \in 0 .. Len(s) :
           k[n] \in Seq(X) /\ Len(k[n]) <= n /\ \E e : Picks(s, P, n, k[n], e)
<1> DEFINE T == {n \in Nat :
                   k[n] \in Seq(X) /\ Len(k[n]) <= n /\ \E e : Picks(s, P, n, k[n], e)}
<1>0. Len(s) \in Nat BY LenProperties
<1>1. 0 \in T
  <2>1. k[0] = <<>> BY DEF Filters
  <2>2. Picks(s, P, 0, <<>>, <<>>) BY DEF Picks
  <2>3. <<>> \in Seq(X) /\ Len(<<>>) = 0 OBVIOUS
  <2>4. k[0] \in Seq(X) /\ Len(k[0]) <= 0 BY <2>1, <2>3
  <2>5. \E e : Picks(s, P, 0, k[0], e) BY <2>1, <2>2
  <2> QED BY <2>4, <2>5
<1>2. ASSUME NEW n \in 0 .. Len(s) - 1, n \in T PROVE n + 1 \in T
  <2>1. n \in Nat /\ n + 1 \in 1 .. Len(s) /\ (n + 1) - 1 = n /\ n + 1 \in Nat BY <1>0
  <2>2. k[n] \in Seq(X) /\ Len(k[n]) <= n BY <1>2
  <2>3. PICK e : Picks(s, P, n, k[n], e) BY <1>2
  <2>4. k[n + 1] = IF s[n + 1] \in P THEN Append(k[n], s[n + 1]) ELSE k[n]
    BY <2>1 DEF Filters
  <2>5. Len(k[n]) \in Nat BY <2>2, LenProperties
  <2>6. CASE s[n + 1] \in P
    <3>1. s[n + 1] \in X BY <2>1, ElementOfSeq
    <3>2. k[n + 1] = Append(k[n], s[n + 1]) BY <2>4, <2>6
    <3>3. Append(k[n], s[n + 1]) \in Seq(X) /\ Len(Append(k[n], s[n + 1])) = Len(k[n]) + 1
      BY <2>2, <3>1, AppendProperties
    <3>4. \E f : Picks(s, P, n + 1, Append(k[n], s[n + 1]), f)
      BY <2>2, <2>3, <2>6, PicksAppend
    <3>5. Len(k[n]) + 1 <= n + 1 BY <2>1, <2>2, <2>5
    <3> QED BY <2>1, <3>2, <3>3, <3>4, <3>5
  <2>7. CASE s[n + 1] \notin P
    <3>1. k[n + 1] = k[n] BY <2>4, <2>7
    <3>2. Picks(s, P, n + 1, k[n], e) BY <2>1, <2>3, <2>7, PicksOn
    <3>3. Len(k[n]) <= n + 1 BY <2>1, <2>2, <2>5
    <3> QED BY <2>1, <2>2, <3>1, <3>2, <3>3
  <2> QED BY <2>6, <2>7
<1>3. \A n \in 0 .. Len(s) : n \in T
  <2> HIDE DEF T
  <2> QED BY <1>0, <1>1, <1>2, UpTo
<1> QED BY <1>3

LEMMA FilterRuns ==
  ASSUME NEW X, NEW s \in Seq(X), NEW P
  PROVE  \E k : Filters(s, P, k) /\ Filter(s, P) = k[Len(s)]
<1> DEFINE Step(y, i) == IF s[i] \in P THEN Append(y, s[i]) ELSE y
           Is(n, f) == f = [i \in 0 .. n |-> IF i = 0 THEN <<>> ELSE Step(f[i - 1], i)]
           T == {n \in Nat : \E f : Is(n, f)}
           k == CHOOSE f : Is(Len(s), f)
<1>0. Len(s) \in Nat BY LenProperties
<1>1. 0 \in T
  <2>1. Is(0, [i \in 0 .. 0 |-> <<>>]) OBVIOUS
  <2> QED BY <2>1
<1>2. ASSUME NEW n \in Nat, n \in T PROVE n + 1 \in T
  <2>1. PICK f : Is(n, f) BY <1>2
  <2> HIDE DEF Step
  <2>2. PICK g : Longer(g, f, n, Step(f[n], n + 1)) BY LongerExists
  <2>3. ASSUME NEW i \in 0 .. n + 1 PROVE g[i] = IF i = 0 THEN <<>> ELSE Step(g[i - 1], i)
    <3>1. CASE i \in 0 .. n
      <4>1. f[i] = IF i = 0 THEN <<>> ELSE Step(f[i - 1], i) BY <2>1, <3>1
      <4> QED BY <2>2, <3>1, <4>1 DEF Longer
    <3>2. CASE i = n + 1 BY <2>2, <3>2 DEF Longer
    <3> QED BY <3>1, <3>2
  <2>4. Is(n + 1, g) BY <2>2, <2>3, Zenon DEF Longer
  <2> QED BY <2>4
<1>3. Len(s) \in T
  <2> HIDE DEF T
  <2> QED BY <1>0, <1>1, <1>2, SetInduction
<1>4. Is(Len(s), k)
  <2>1. \E f : Is(Len(s), f) BY <1>3
  <2> HIDE DEF Is
  <2> QED BY <2>1
<1>5. Filter(s, P) = k[Len(s)] BY DEF Filter, Fold
<1> HIDE DEF k
<1>6. ASSUME NEW i \in 0 .. Len(s) PROVE k[i] = IF i = 0 THEN <<>> ELSE Step(k[i - 1], i)
  <2>1. k = [l \in 0 .. Len(s) |-> IF l = 0 THEN <<>> ELSE Step(k[l - 1], l)] BY <1>4
  <2> HIDE DEF Step
  <2> DEFINE F(l) == IF l = 0 THEN <<>> ELSE Step(k[l - 1], l)
  <2>2. k = [l \in 0 .. Len(s) |-> F(l)] BY <2>1
  <2> HIDE DEF F
  <2>3. k[i] = F(i) BY <2>2
  <2> QED BY <2>3 DEF F
<1>7. k[0] = <<>> BY <1>0, <1>6
<1>8. ASSUME NEW i \in 1 .. Len(s) PROVE k[i] = Step(k[i - 1], i)
  BY <1>0, <1>6
<1>9. Filters(s, P, k) BY <1>7, <1>8 DEF Filters
<1> QED BY <1>5, <1>9

\* The items of a lane that a filter keeps, in their order.
LEMMA FilterFacts ==
  ASSUME NEW items \in Seq(Thing), Sorted(items), NEW P
  PROVE  /\ Filter(items, P) \in Seq(Thing) /\ Sorted(Filter(items, P))
         /\ Len(Filter(items, P)) <= Len(items)
         /\ ToSet(Filter(items, P)) = ToSet(items) \cap P
<1> DEFINE q == Filter(items, P)
<1>0. Len(items) \in Nat /\ DOMAIN items = 1 .. Len(items) BY LenProperties
<1>1. PICK k : Filters(items, P, k) /\ q = k[Len(items)] BY FilterRuns
<1> HIDE DEF q
<1>5. q \in Seq(Thing) /\ Len(q) <= Len(items) /\ \E e : Picks(items, P, Len(items), q, e)
  <2>1. Len(items) \in 0 .. Len(items) BY <1>0
  <2> QED BY <1>1, <2>1, FilterPicks
<1>6. PICK e : Picks(items, P, Len(items), q, e) BY <1>5
<1>7. /\ e \in [1 .. Len(q) -> 1 .. Len(items)]
      /\ \A l, m \in 1 .. Len(q) : l < m => e[l] < e[m]
      /\ \A m \in 1 .. Len(q) : q[m] = items[e[m]] /\ items[e[m]] \in P
      /\ \A i \in 1 .. Len(items) : items[i] \in P => \E m \in 1 .. Len(q) : e[m] = i
  BY <1>6 DEF Picks
<1>8. DOMAIN q = 1 .. Len(q) BY <1>5, LenProperties
<1>9. Sorted(q)
  <2> SUFFICES ASSUME NEW i \in DOMAIN q, NEW j \in DOMAIN q, i < j PROVE q[i].id < q[j].id
    BY DEF Sorted
  <2>1. e[i] \in DOMAIN items /\ e[j] \in DOMAIN items /\ e[i] < e[j]
    BY <1>0, <1>7, <1>8
  <2>2. q[i] = items[e[i]] /\ q[j] = items[e[j]] BY <1>7, <1>8
  <2> QED BY <2>1, <2>2 DEF Sorted
<1>10. ToSet(q) = ToSet(items) \cap P
  <2>1. ASSUME NEW x \in ToSet(q) PROVE x \in ToSet(items) /\ x \in P
    <3>1. PICK m \in 1 .. Len(q) : q[m] = x BY <1>8 DEF ToSet
    <3>2. e[m] \in DOMAIN items /\ items[e[m]] = x /\ x \in P BY <1>0, <1>7, <3>1
    <3> QED BY <3>2 DEF ToSet
  <2>2. ASSUME NEW x \in ToSet(items), x \in P PROVE x \in ToSet(q)
    <3>1. PICK i \in 1 .. Len(items) : items[i] = x BY <1>0 DEF ToSet
    <3>2. items[i] \in P BY <2>2, <3>1
    <3>3. PICK m \in 1 .. Len(q) : e[m] = i BY <1>7, <3>2
    <3>4. q[m] = x BY <1>7, <3>1, <3>3
    <3> QED BY <1>8, <3>4 DEF ToSet
  <2> QED BY <2>1, <2>2
<1> QED BY <1>5, <1>9, <1>10 DEF q

LEMMA LiveFacts ==
  ASSUME NEW items \in Seq(Thing), Sorted(items), now \in Nat
  PROVE  /\ Live(items) \in Seq(Thing) /\ Sorted(Live(items)) /\ Len(Live(items)) <= Len(items)
         /\ ToSet(Live(items)) = {x \in ToSet(items) : x.exp > now}
BY FilterFacts DEF Live

\* A filter that keeps lanes no larger than those of S counts no more items.
LEMMA FilterCount ==
  ASSUME NEW S \in Seq(Lane), NEW U, Len(U) = Len(S), NEW k, Filters(U, Lane, k),
         \A i \in 1 .. Len(S) : U[i] \in Lane => Len(U[i].items) <= Len(S[i].items)
  PROVE  k[Len(S)] \in Seq(Lane) /\ GlobalCount(k[Len(S)]) <= GlobalCount(S)
<1>0. /\ Len(S) \in Nat /\ Len(S) \in 0 .. Len(S)
      /\ \A i \in 1 .. Len(S) : Len(S[i].items) \in Nat
  BY LaneFacts
<1>1. PICK c : Counts(S, c) /\ GlobalCount(S) = c[Len(S)] BY CountIs
<1> DEFINE T == {n \in Nat : k[n] \in Seq(Lane) /\ GlobalCount(k[n]) <= c[n]}
<1>2. 0 \in T
  <2>1. k[0] = <<>> BY DEF Filters
  <2>2. k[0] \in Seq(Lane) BY <2>1
  <2>3. GlobalCount(k[0]) = 0 /\ c[0] = 0 BY <1>1, <2>1, CountOfNone DEF Counts
  <2> QED BY <2>2, <2>3
<1>3. ASSUME NEW n \in 0 .. Len(S) - 1, n \in T PROVE n + 1 \in T
  <2>1. /\ n + 1 \in 1 .. Len(S) /\ (n + 1) - 1 = n /\ n + 1 \in Nat /\ n \in 0 .. Len(S)
        /\ n + 1 \in 0 .. Len(S)
    BY <1>0
  <2>2. k[n] \in Seq(Lane) /\ GlobalCount(k[n]) <= c[n] BY <1>3
  <2>3. k[n + 1] = IF U[n + 1] \in Lane THEN Append(k[n], U[n + 1]) ELSE k[n]
    BY <2>1 DEF Filters
  <2>4. c[n + 1] = c[n] + Len(S[n + 1].items) BY <1>1, <2>1 DEF Counts
  <2>5. c[n] \in Nat /\ Len(S[n + 1].items) \in Nat /\ GlobalCount(k[n]) \in Nat
    BY <1>0, <1>1, <2>1, <2>2, CountIsNatural DEF Counts
  <2>6. CASE U[n + 1] \in Lane
    <3>1. k[n + 1] \in Seq(Lane) BY <2>2, <2>3, <2>6, AppendProperties
    <3>2. GlobalCount(k[n + 1]) = GlobalCount(k[n]) + Len(U[n + 1].items)
      BY <2>2, <2>3, <2>6, CountAppended
    <3>3. Len(U[n + 1].items) \in Nat /\ Len(U[n + 1].items) <= Len(S[n + 1].items)
      BY <2>1, <2>6, LaneFacts
    <3>4. GlobalCount(k[n + 1]) <= c[n + 1]
      <4> DEFINE v == Len(U[n + 1].items)
                 w == Len(S[n + 1].items)
                 x == GlobalCount(k[n])
                 y == c[n]
                 z == c[n + 1]
                 g == GlobalCount(k[n + 1])
      <4>1. /\ v \in Nat /\ w \in Nat /\ x \in Nat /\ y \in Nat
            /\ v <= w /\ x <= y /\ z = y + w /\ g = x + v
        BY <2>2, <2>4, <2>5, <3>2, <3>3
      <4> HIDE DEF v, w, x, y, z, g
      <4>2. g <= z BY <4>1
      <4> QED BY <4>2 DEF g, z
    <3> QED BY <2>1, <3>1, <3>4
  <2>7. CASE U[n + 1] \notin Lane
    <3>1. k[n + 1] = k[n] BY <2>3, <2>7
    <3>2. c[n] <= c[n + 1] BY <2>4, <2>5
    <3>3. GlobalCount(k[n]) <= c[n + 1] BY <2>2, <2>4, <2>5
    <3> QED BY <2>1, <2>2, <3>1, <3>3
  <2> QED BY <2>6, <2>7
<1>4. \A n \in 0 .. Len(S) : n \in T
  <2> HIDE DEF T
  <2> QED BY <1>0, <1>2, <1>3, UpTo
<1> QED BY <1>0, <1>1, <1>4

\* p is what the purge leaves of the session s.
Purges(p, s) == p.scope = s.scope /\ p.at = s.at /\ p.items = Live(s.items)

LEMMA PurgedFacts ==
  ASSUME sessions \in Map, now \in Nat
  PROVE  /\ Purged \in Map /\ Len(Purged) <= Len(sessions)
         /\ GlobalCount(Purged) <= GlobalCount(sessions)
         /\ \A p \in DOMAIN Purged : \E s \in DOMAIN sessions : Purges(Purged[p], sessions[s])
         /\ \A s \in DOMAIN sessions : Live(sessions[s].items) # <<>> =>
              \E p \in DOMAIN Purged : Purges(Purged[p], sessions[s])
<1> DEFINE U == [i \in DOMAIN sessions |->
                   [sessions[i] EXCEPT !.items = Live(sessions[i].items)]]
           n == Len(U)
           P == {u \in ToSet(U) : u.items # <<>>}
           q == Purged
<1>0. /\ sessions \in Seq(Lane) /\ Len(sessions) \in Nat /\ DOMAIN sessions = 1 .. Len(sessions)
      /\ \A i \in DOMAIN sessions : sessions[i] \in Lane
      /\ ScopesUnique(sessions)
  BY MapFacts
<1>1. q = Filter(U, P) BY DEF Purged
<1>2. ASSUME NEW i \in DOMAIN sessions
      PROVE  /\ U[i] \in Session /\ Purges(U[i], sessions[i])
             /\ U[i] \in Lane <=> U[i].items # <<>>
             /\ Len(U[i].items) <= Len(sessions[i].items)
  <2> DEFINE s == sessions[i]
             l == Live(s.items)
  <2>1. s \in Session /\ s.items \in Seq(Thing) /\ Sorted(s.items) BY <1>0, LaneFacts DEF Session
  <2>2. l \in Seq(Thing) /\ Sorted(l) /\ Len(l) <= Len(s.items) BY <2>1, LiveFacts
  <2>3. U[i] = [s EXCEPT !.items = l] OBVIOUS
  <2> HIDE DEF U, s
  <2>4. U[i] \in Session /\ U[i].scope = s.scope /\ U[i].at = s.at /\ U[i].items = l
    <3> HIDE DEF l
    <3> QED BY <2>1, <2>2, <2>3 DEF Session
  <2>5. Purges(U[i], s) BY <2>4 DEF Purges
  <2>6. U[i] \in Lane <=> l # <<>>
    <3> HIDE DEF l
    <3>1. l # <<>> <=> Len(l) > 0 BY <2>2, EmptySeq
    <3> QED BY <2>2, <2>4, <3>1 DEF Lane, Session
  <2> QED BY <2>2, <2>4, <2>5, <2>6 DEF s
<1>3. U \in Seq(Session) /\ n = Len(sessions) /\ n \in Nat /\ DOMAIN sessions = 1 .. n
  <2>1. DOMAIN U = 1 .. Len(sessions) BY <1>0
  <2>2. U \in [1 .. Len(sessions) -> Session] BY <1>0, <1>2, <2>1
  <2> HIDE DEF U
  <2> QED BY <1>0, <2>2
<1> HIDE DEF U, n
<1>4. PICK k : Filters(U, P, k) /\ q = k[n]
  <2> HIDE DEF q
  <2> QED BY <1>1, <1>3, FilterRuns DEF n
<1> HIDE DEF q, P
<1>6. Filters(U, Lane, k)
  <2>1. ASSUME NEW i \in 1 .. Len(U) PROVE U[i] \in P <=> U[i] \in Lane
    <3>1. i \in DOMAIN sessions BY <1>3 DEF n
    <3>2. i \in DOMAIN U BY <1>3
    <3>3. U[i] \in ToSet(U) BY <3>2 DEF ToSet
    <3> QED BY <1>2, <3>1, <3>3 DEF P
  <2> QED BY <1>4, <2>1 DEF Filters
<1>7. q \in Seq(Lane) /\ GlobalCount(q) <= GlobalCount(sessions)
  <2>1. Len(U) = Len(sessions) BY <1>3 DEF n
  <2>2. \A i \in 1 .. Len(sessions) : U[i] \in Lane => Len(U[i].items) <= Len(sessions[i].items)
    BY <1>0, <1>2
  <2>3. k[Len(sessions)] \in Seq(Lane) /\ GlobalCount(k[Len(sessions)]) <= GlobalCount(sessions)
    BY <1>0, <1>6, <2>1, <2>2, FilterCount
  <2> QED BY <1>3, <1>4, <2>3
<1>8. Len(q) <= Len(sessions) /\ \E e : Picks(U, Lane, n, q, e)
  <2>1. n \in 0 .. Len(U) BY <1>3 DEF n
  <2>2. Len(k[n]) <= n /\ \E e : Picks(U, Lane, n, k[n], e) BY <1>3, <1>6, <2>1, FilterPicks
  <2> QED BY <1>3, <1>4, <2>2
<1>9. PICK e : Picks(U, Lane, n, q, e) BY <1>8
<1>10. /\ e \in [1 .. Len(q) -> 1 .. n]
       /\ \A l, m \in 1 .. Len(q) : l < m => e[l] < e[m]
       /\ \A m \in 1 .. Len(q) : q[m] = U[e[m]] /\ U[e[m]] \in Lane
       /\ \A i \in 1 .. n : U[i] \in Lane => \E m \in 1 .. Len(q) : e[m] = i
  BY <1>9 DEF Picks
<1>11. DOMAIN q = 1 .. Len(q) /\ Len(q) \in Nat BY <1>7, LenProperties
<1>12. ASSUME NEW p \in DOMAIN q
       PROVE  e[p] \in DOMAIN sessions /\ Purges(q[p], sessions[e[p]])
  BY <1>2, <1>3, <1>10, <1>11
<1>13. ASSUME NEW s \in DOMAIN sessions, Live(sessions[s].items) # <<>>
       PROVE  \E p \in DOMAIN q : Purges(q[p], sessions[s])
  <2>1. U[s] \in Lane BY <1>2, <1>13 DEF Purges
  <2>2. PICK m \in 1 .. Len(q) : e[m] = s BY <1>3, <1>10, <2>1
  <2> QED BY <1>11, <1>12, <2>2
<1>14. q \in Map
  <2>1. ASSUME NEW i \in DOMAIN q, NEW j \in DOMAIN q, q[i].scope = q[j].scope PROVE i = j
    <3>1. e[i] = e[j]
      <4>1. sessions[e[i]].scope = sessions[e[j]].scope BY <1>12, <2>1 DEF Purges
      <4> QED BY <1>0, <1>12, <4>1 DEF ScopesUnique
    <3>2. i \in 1 .. Len(q) /\ j \in 1 .. Len(q) /\ i \in Nat /\ j \in Nat /\ e[i] \in Nat
      BY <1>10, <1>11
    <3>3. ~(i < j) /\ ~(j < i) BY <1>10, <3>1, <3>2
    <3> QED BY <3>2, <3>3
  <2> QED BY <1>7, <2>1 DEF Map, ScopesUnique
<1> QED BY <1>7, <1>8, <1>12, <1>13, <1>14 DEF q

(***************************************************************************)
(* The append.                                                             *)
(***************************************************************************)
LEMMA SuffixOfSorted ==
  ASSUME NEW a \in Seq(Thing), NEW b \in Seq(Thing), Sorted(b), Suffix(a, b)
  PROVE  Sorted(a) /\ (Len(a) > 0 => a[Len(a)] = b[Len(b)])
<1>1. PICK d \in Nat : Len(b) = Len(a) + d /\ \A i \in 1 .. Len(a) : a[i] = b[i + d]
  BY DEF Suffix
<1>2. DOMAIN a = 1 .. Len(a) /\ DOMAIN b = 1 .. Len(b) /\ Len(a) \in Nat BY LenProperties
<1>3. Sorted(a)
  <2> SUFFICES ASSUME NEW i \in DOMAIN a, NEW j \in DOMAIN a, i < j PROVE a[i].id < a[j].id
    BY DEF Sorted
  <2>1. /\ i + d \in DOMAIN b /\ j + d \in DOMAIN b /\ i + d < j + d
        /\ a[i] = b[i + d] /\ a[j] = b[j + d]
    BY <1>1, <1>2
  <2> QED BY <2>1 DEF Sorted
<1>4. ASSUME Len(a) > 0 PROVE a[Len(a)] = b[Len(b)]
  <2>1. Len(a) \in 1 .. Len(a) BY <1>2, <1>4
  <2> QED BY <1>1, <2>1
<1> QED BY <1>3, <1>4

LEMMA NewestFacts ==
  ASSUME NEW items \in Seq(Thing), Len(items) > 0, NEW n \in Nat \ {0}
  PROVE  /\ Newest(items, n) \in Seq(Thing) /\ Suffix(Newest(items, n), items)
         /\ Len(Newest(items, n)) \in 1 .. n
<1> DEFINE m == Len(items)
           q == Newest(items, n)
<1>0. m \in Nat BY LenProperties
<1>1. CASE m <= n
  <2>1. q = items BY <1>1 DEF Newest
  <2> QED BY <1>0, <1>1, <2>1, SuffixOfItself
<1>2. CASE ~(m <= n)
  <2>1. q = SubSeq(items, m - n + 1, m) BY <1>2 DEF Newest
  <2>2. /\ m - n + 1 \in Int /\ m \in Int /\ m - n + 1 \in 1 .. m
        /\ m - (m - n + 1) + 1 = n /\ m - n \in Nat
    BY <1>0, <1>2
  <2>3. \A i \in m - n + 1 .. m : items[i] \in Thing
    <3>1. \A i \in m - n + 1 .. m : i \in 1 .. m BY <1>0, <2>2
    <3> QED BY <3>1, ElementOfSeq
  <2>4. /\ q \in Seq(Thing) /\ Len(q) = n
        /\ \A i \in 1 .. n : q[i] = items[(m - n + 1) + i - 1]
    <3> HIDE DEF m, q
    <3>1. /\ SubSeq(items, m - n + 1, m) \in Seq(Thing)
          /\ Len(SubSeq(items, m - n + 1, m)) = m - (m - n + 1) + 1
          /\ \A i \in 1 .. m - (m - n + 1) + 1 :
               SubSeq(items, m - n + 1, m)[i] = items[(m - n + 1) + i - 1]
      BY <2>2, <2>3, SubSeqProperties
    <3> QED BY <2>1, <2>2, <3>1
  <2> DEFINE d == m - n
  <2>5. d \in Nat /\ m = n + d BY <1>0, <2>2
  <2> HIDE DEF q
  <2>6. \A i \in 1 .. Len(q) : q[i] = items[i + d]
    <3>1. \A i \in 1 .. n : (m - n + 1) + i - 1 = i + d BY <1>0
    <3> QED BY <2>4, <3>1
  <2>7. Len(items) = Len(q) + d BY <2>4, <2>5
  <2>8. Suffix(q, items)
    <3> HIDE DEF d
    <3> QED BY <2>5, <2>6, <2>7 DEF Suffix
  <2>9. Len(q) \in 1 .. n BY <2>4
  <2> QED BY <2>4, <2>8, <2>9 DEF q
<1> QED BY <1>1, <1>2

LEMMA AppendSorted ==
  ASSUME NEW items \in Seq(Thing), Sorted(items), NEW item \in Thing,
         \A x \in ToSet(items) : x.id < item.id
  PROVE  /\ Append(items, item) \in Seq(Thing) /\ Sorted(Append(items, item))
         /\ Len(Append(items, item)) = Len(items) + 1 /\ Len(items) \in Nat
         /\ Append(items, item)[Len(items) + 1] = item
         /\ ToSet(Append(items, item)) = ToSet(items) \cup {item}
<1> DEFINE q == Append(items, item)
<1>1. /\ q \in Seq(Thing) /\ Len(q) = Len(items) + 1 /\ Len(items) \in Nat
      /\ \A i \in 1 .. Len(items) : q[i] = items[i]
      /\ q[Len(items) + 1] = item
  BY AppendProperties, LenProperties
<1> HIDE DEF q
<1>2. DOMAIN q = 1 .. Len(items) + 1 /\ DOMAIN items = 1 .. Len(items)
  BY <1>1, LenProperties
<1>3. \A i \in DOMAIN q : i \in 1 .. Len(items) \/ i = Len(items) + 1 BY <1>1, <1>2
<1>4. Sorted(q)
  <2> SUFFICES ASSUME NEW i \in DOMAIN q, NEW j \in DOMAIN q, i < j PROVE q[i].id < q[j].id
    BY DEF Sorted
  <2>1. i \in DOMAIN items /\ q[i] = items[i] BY <1>1, <1>2
  <2>2. CASE j \in 1 .. Len(items)
    <3>1. items[i].id < items[j].id BY <1>2, <2>1, <2>2 DEF Sorted
    <3> QED BY <1>1, <2>1, <2>2, <3>1
  <2>3. CASE j = Len(items) + 1
    <3>1. items[i] \in ToSet(items) BY <2>1 DEF ToSet
    <3> QED BY <1>1, <2>1, <2>3, <3>1
  <2> QED BY <1>3, <2>2, <2>3
<1>5. ToSet(q) = ToSet(items) \cup {item}
  <2>1. ASSUME NEW x \in ToSet(q) PROVE x \in ToSet(items) \cup {item}
    <3>1. PICK i \in DOMAIN q : q[i] = x BY DEF ToSet
    <3>2. CASE i \in 1 .. Len(items) BY <1>1, <1>2, <3>1, <3>2 DEF ToSet
    <3>3. CASE i = Len(items) + 1 BY <1>1, <3>1, <3>3
    <3> QED BY <1>3, <3>2, <3>3
  <2>2. ASSUME NEW x \in ToSet(items) PROVE x \in ToSet(q)
    <3>1. PICK i \in DOMAIN items : items[i] = x BY DEF ToSet
    <3>2. i \in DOMAIN q /\ q[i] = x BY <1>1, <1>2, <3>1
    <3> QED BY <3>2 DEF ToSet
  <2>3. item \in ToSet(q)
    <3>1. Len(items) + 1 \in DOMAIN q BY <1>1, <1>2
    <3> QED BY <1>1, <3>1 DEF ToSet
  <2> QED BY <2>1, <2>2, <2>3
<1> QED BY <1>1, <1>4, <1>5 DEF q

\* P is S after an append of item to the lane k, its place j.
Pushes(S, P, k, item, at, j) ==
    /\ P \in Map /\ j \in DOMAIN P
    /\ P[j].scope = k /\ P[j].at = at /\ P[j].items = Append(ItemsOf(S, k), item)
    /\ \A b \in DOMAIN P : b # j => \E s \in DOMAIN S : P[b] = S[s]
    /\ \A s \in DOMAIN S : S[s].scope # k => \E b \in DOMAIN P : b # j /\ P[b] = S[s]
    /\ \/ j = Len(P)
       \/ /\ Len(P) = Len(S) /\ GlobalCount(P) = GlobalCount(S) + 1
          /\ Len(P[j].items) > 1

LEMMA PushFacts ==
  ASSUME NEW S \in Map, NEW k \in Scopes, NEW item \in Thing, NEW at \in Nat,
         \A s \in DOMAIN S : \A x \in ToSet(S[s].items) : x.id < item.id
  PROVE  \E j : Pushes(S, Push(S, k, item, at), k, item, at, j)
<1> DEFINE P == Push(S, k, item, at)
<1>0. /\ S \in Seq(Lane) /\ Len(S) \in Nat /\ DOMAIN S = 1 .. Len(S) /\ ScopesUnique(S)
      /\ \A s \in DOMAIN S : S[s] \in Lane
  BY MapFacts
<1>1. /\ At(S, k) # 0 => At(S, k) \in DOMAIN S /\ S[At(S, k)].scope = k
      /\ \A i \in DOMAIN S : S[i].scope = k => At(S, k) = i
  BY AtFacts
<1>2. CASE At(S, k) = 0
  <2> DEFINE l == [scope |-> k, items |-> <<item>>, at |-> at]
             j == Len(S) + 1
  <2>1. P = Append(S, l) BY <1>2 DEF Push
  <2>2. ItemsOf(S, k) = <<>> BY <1>2 DEF ItemsOf
  <2>3. <<item>> = Append(<<>>, item) /\ <<item>> \in Seq(Thing) /\ Len(<<item>>) = 1
    OBVIOUS
  <2>4. Sorted(<<item>>) BY DEF Sorted
  <2>6. l.scope = k /\ l.at = at /\ l.items = Append(<<>>, item) BY <2>3
  <2>5. l \in Lane
    <3>1. l \in [scope: Scopes, items: Seq(Thing), at: Nat] BY <2>3
    <3>2. l.items = <<item>> OBVIOUS
    <3>3. Len(l.items) > 0 /\ Sorted(l.items) BY <2>3, <2>4, <3>2
    <3> HIDE DEF l
    <3> QED BY <3>1, <3>3 DEF Lane
  <2> HIDE DEF l, P
  <2>7. /\ P \in Seq(Lane) /\ Len(P) = Len(S) + 1
        /\ \A i \in 1 .. Len(S) : P[i] = S[i]
        /\ P[j] = l
    BY <1>0, <2>1, <2>5, AppendProperties
  <2>8. DOMAIN P = 1 .. Len(S) + 1 BY <2>7, LenProperties
  <2>9. /\ j \in DOMAIN P /\ \A b \in DOMAIN P : b # j => b \in DOMAIN S /\ P[b] = S[b]
        /\ \A s \in DOMAIN S : s \in DOMAIN P /\ s # j
    BY <1>0, <2>7, <2>8
  <2> HIDE DEF j
  <2>10. \A s \in DOMAIN S : S[s].scope # k
    <3>1. 0 \notin DOMAIN S BY <1>0
    <3> QED BY <1>1, <1>2, <3>1
  <2>11. ScopesUnique(P)
    <3> SUFFICES ASSUME NEW a \in DOMAIN P, NEW b \in DOMAIN P, P[a].scope = P[b].scope
                 PROVE  a = b
      BY DEF ScopesUnique
    <3>1. CASE a = j /\ b = j BY <3>1
    <3>2. CASE a = j /\ b # j BY <2>6, <2>7, <2>9, <2>10, <3>2
    <3>3. CASE a # j /\ b = j BY <2>6, <2>7, <2>9, <2>10, <3>3
    <3>4. CASE a # j /\ b # j BY <1>0, <2>9, <3>4 DEF ScopesUnique
    <3> QED BY <3>1, <3>2, <3>3, <3>4
  <2>12. P \in Map BY <2>7, <2>11 DEF Map
  <2>13. \A s \in DOMAIN S : \E b \in DOMAIN P : b # j /\ P[b] = S[s] BY <2>9
  <2>14. j = Len(P) BY <2>7 DEF j
  <2>15. Pushes(S, P, k, item, at, j)
    BY <2>2, <2>6, <2>7, <2>9, <2>12, <2>13, <2>14 DEF Pushes
  <2> QED BY <2>15 DEF P
<1>3. CASE At(S, k) # 0
  <2> DEFINE j == At(S, k)
             l == [S[j] EXCEPT !.items = Append(S[j].items, item), !.at = at]
  <2>1. P = [S EXCEPT ![j] = l]
    <3>1. P = [S EXCEPT ![At(S, k)].items = Append(S[At(S, k)].items, item),
                        ![At(S, k)].at = at]
      BY <1>3 DEF Push
    <3> HIDE DEF P
    <3> QED BY <3>1
  <2>2. j \in DOMAIN S /\ S[j].scope = k /\ S[j] \in Lane BY <1>0, <1>1, <1>3
  <2>3. ItemsOf(S, k) = S[j].items BY <1>3 DEF ItemsOf
  <2>4. /\ S[j] \in [scope: Scopes, items: Seq(Thing), at: Nat]
        /\ S[j].items \in Seq(Thing) /\ Sorted(S[j].items)
    BY <2>2, LaneFacts
  <2> DEFINE q == Append(S[j].items, item)
  <2>5. q \in Seq(Thing) /\ Sorted(q) /\ Len(q) = Len(S[j].items) + 1 /\ Len(S[j].items) \in Nat
    BY <2>2, <2>4, AppendSorted
  <2>6. Len(q) > 0 BY <2>5
  <2>7. l = [S[j] EXCEPT !.items = q, !.at = at] OBVIOUS
  <2> HIDE DEF q, l, j, P
  <2>8. /\ l \in [scope: Scopes, items: Seq(Thing), at: Nat]
        /\ l.scope = S[j].scope /\ l.items = q /\ l.at = at
    BY <2>4, <2>5, <2>7
  <2>9. l \in Lane BY <2>5, <2>6, <2>8 DEF Lane
  <2>10. /\ P \in Map /\ DOMAIN P = DOMAIN S /\ Len(P) = Len(S)
         /\ GlobalCount(P) = (GlobalCount(S) - Len(S[j].items)) + Len(l.items)
         /\ \A i \in DOMAIN S : P[i] = IF i = j THEN l ELSE S[i]
    BY <2>1, <2>2, <2>8, <2>9, ReplacedInMap
  <2>11. \A s \in DOMAIN S : S[s].scope # k => s # j /\ s \in DOMAIN P /\ P[s] = S[s]
    BY <2>2, <2>10
  <2>12. j \in DOMAIN P /\ P[j] = l BY <2>2, <2>10
  <2>13. \A b \in DOMAIN P : b # j => \E s \in DOMAIN S : P[b] = S[s] BY <2>10
  <2>14. \A s \in DOMAIN S : S[s].scope # k => \E b \in DOMAIN P : b # j /\ P[b] = S[s]
    BY <2>11
  <2>15. P[j].items = Append(ItemsOf(S, k), item) BY <2>3, <2>8, <2>12 DEF q
  <2>16. GlobalCount(P) = GlobalCount(S) + 1 /\ Len(P[j].items) > 1
    <3>1. Len(S[j].items) \in Nat \ {0} BY <2>2, LaneFacts
    <3>2. GlobalCount(S) \in Nat BY <1>0, CountIsNatural
    <3> DEFINE m == Len(S[j].items)
    <3>3. m \in Nat \ {0} /\ Len(q) = m + 1 BY <2>5, <3>1
    <3>4. GlobalCount(P) = (GlobalCount(S) - m) + Len(q) BY <2>8, <2>10
    <3>5. Len(P[j].items) = Len(q) BY <2>8, <2>12
    <3> HIDE DEF m
    <3> QED BY <3>2, <3>3, <3>4, <3>5
  <2>17. Pushes(S, P, k, item, at, j)
    BY <2>2, <2>8, <2>10, <2>12, <2>13, <2>14, <2>15, <2>16 DEF Pushes
  <2> QED BY <2>17 DEF P
<1> QED BY <1>2, <1>3

LEMMA SuffixOfSuffix ==
  ASSUME NEW X, NEW a \in Seq(X), NEW b \in Seq(X), NEW c \in Seq(X),
         Suffix(a, b), Suffix(b, c)
  PROVE  Suffix(a, c)
<1>1. PICK d \in Nat : Len(b) = Len(a) + d /\ \A i \in 1 .. Len(a) : a[i] = b[i + d]
  BY DEF Suffix
<1>2. PICK e \in Nat : Len(c) = Len(b) + e /\ \A i \in 1 .. Len(b) : b[i] = c[i + e]
  BY DEF Suffix
<1>3. Len(a) \in Nat /\ Len(b) \in Nat BY LenProperties
<1> DEFINE g == d + e
<1>4. g \in Nat /\ Len(c) = Len(a) + g BY <1>1, <1>2, <1>3
<1>5. \A i \in 1 .. Len(a) : a[i] = c[i + g]
  <2> SUFFICES ASSUME NEW i \in 1 .. Len(a) PROVE a[i] = c[i + g] OBVIOUS
  <2>1. i + d \in 1 .. Len(b) /\ (i + d) + e = i + g BY <1>1, <1>3
  <2>2. b[i + d] = c[(i + d) + e] BY <1>2, <2>1
  <2> QED BY <1>1, <2>1, <2>2
<1> HIDE DEF g
<1> QED BY <1>4, <1>5 DEF Suffix

\* B is S after an append of item to the lane k, trimmed to its budget.
Grows(S, B, k, item, at, j) ==
    /\ B \in Map /\ j \in DOMAIN B
    /\ B[j].scope = k /\ B[j].at = at /\ B[j].items[Len(B[j].items)] = item
    /\ Len(B[j].items) <= MaxPerSession
    /\ Suffix(B[j].items, Append(ItemsOf(S, k), item))
    /\ \A b \in DOMAIN B : b # j => B[b].scope # k /\ \E s \in DOMAIN S : B[b] = S[s]
    /\ \A s \in DOMAIN S : S[s].scope # k => \E b \in DOMAIN B : B[b] = S[s]
    /\ \/ j = Len(B)
       \/ /\ Len(B) = Len(S)
          /\ \/ GlobalCount(B) <= GlobalCount(S)
             \/ GlobalCount(B) <= GlobalCount(S) + 1 /\ Len(B[j].items) > 1

LEMMA ItemsOfFacts ==
  ASSUME NEW S \in Map, NEW k
  PROVE  /\ ItemsOf(S, k) \in Seq(Thing) /\ Sorted(ItemsOf(S, k))
         /\ \/ ItemsOf(S, k) = <<>> /\ \A i \in DOMAIN S : S[i].scope # k
            \/ \E i \in DOMAIN S : S[i].scope = k /\ ItemsOf(S, k) = S[i].items
<1>1. DOMAIN S = 1 .. Len(S) BY MapFacts
<1>2. CASE At(S, k) = 0
  <2>1. ItemsOf(S, k) = <<>> BY <1>2 DEF ItemsOf
  <2>2. \A i \in DOMAIN S : S[i].scope # k
    <3>1. 0 \notin DOMAIN S BY <1>1, MapFacts
    <3> QED BY <1>2, <3>1, AtFacts
  <2>3. <<>> \in Seq(Thing) /\ Sorted(<<>>) BY DEF Sorted
  <2> QED BY <2>1, <2>2, <2>3
<1>3. CASE At(S, k) # 0
  <2>1. At(S, k) \in DOMAIN S /\ S[At(S, k)].scope = k BY <1>3, AtFacts
  <2>2. ItemsOf(S, k) = S[At(S, k)].items BY <1>3 DEF ItemsOf
  <2>3. S[At(S, k)] \in Lane BY <2>1, MapFacts
  <2>4. S[At(S, k)].items \in Seq(Thing) /\ Sorted(S[At(S, k)].items) BY <2>3, LaneFacts
  <2> QED BY <2>1, <2>2, <2>4
<1> QED BY <1>2, <1>3

LEMMA GrowsFacts ==
  ASSUME NEW S \in Map, NEW k \in Scopes, NEW item \in Thing, NEW at \in Nat,
         \A s \in DOMAIN S : \A x \in ToSet(S[s].items) : x.id < item.id
  PROVE  /\ \E j : Grows(S, TrimLane(Push(S, k, item, at), k), k, item, at, j)
         /\ Append(ItemsOf(S, k), item) \in Seq(Thing)
         /\ Sorted(Append(ItemsOf(S, k), item))
         /\ ToSet(Append(ItemsOf(S, k), item)) = ToSet(ItemsOf(S, k)) \cup {item}
<1> DEFINE P == Push(S, k, item, at)
           B == TrimLane(P, k)
           L == Append(ItemsOf(S, k), item)
<1>1. PICK j : Pushes(S, P, k, item, at, j) BY PushFacts
<1>2. /\ P \in Map /\ j \in DOMAIN P
      /\ P[j].scope = k /\ P[j].at = at /\ P[j].items = L
      /\ \A b \in DOMAIN P : b # j => \E s \in DOMAIN S : P[b] = S[s]
      /\ \A s \in DOMAIN S : S[s].scope # k => \E b \in DOMAIN P : b # j /\ P[b] = S[s]
      /\ \/ j = Len(P)
         \/ Len(P) = Len(S) /\ GlobalCount(P) = GlobalCount(S) + 1 /\ Len(P[j].items) > 1
  BY <1>1 DEF Pushes
<1>3. ItemsOf(S, k) \in Seq(Thing) /\ Sorted(ItemsOf(S, k))
      /\ \A x \in ToSet(ItemsOf(S, k)) : x.id < item.id
  <2>1. ItemsOf(S, k) \in Seq(Thing) /\ Sorted(ItemsOf(S, k)) BY ItemsOfFacts
  <2>2. ToSet(<<>>) = {} BY DEF ToSet
  <2>3. \A x \in ToSet(ItemsOf(S, k)) : x.id < item.id BY <2>2, ItemsOfFacts
  <2> QED BY <2>1, <2>3
<1>4. /\ L \in Seq(Thing) /\ Sorted(L) /\ Len(L) = Len(ItemsOf(S, k)) + 1
      /\ Len(ItemsOf(S, k)) \in Nat /\ L[Len(ItemsOf(S, k)) + 1] = item
      /\ ToSet(L) = ToSet(ItemsOf(S, k)) \cup {item}
  BY <1>3, AppendSorted
<1> HIDE DEF P, L
<1>5. Len(L) > 0 /\ L[Len(L)] = item BY <1>4
<1> DEFINE q == Newest(L, MaxPerSession)
           l == [P[j] EXCEPT !.items = q]
<1>6. q \in Seq(Thing) /\ Suffix(q, L) /\ Len(q) \in 1 .. MaxPerSession
  BY <1>4, <1>5, BudgetAssumption, NewestFacts
<1>7. Sorted(q) /\ Len(q) > 0 /\ Len(q) <= MaxPerSession /\ q[Len(q)] = item
  <2>1. Len(q) > 0 /\ Len(q) <= MaxPerSession BY <1>6, BudgetAssumption
  <2> HIDE DEF q
  <2> QED BY <1>4, <1>5, <1>6, <2>1, SuffixOfSorted
<1>8. At(P, k) = j BY <1>2, AtFacts
<1>9. B = [P EXCEPT ![j] = l] BY <1>2, <1>8 DEF TrimLane
<1> HIDE DEF B, q
<1>10. l \in Lane /\ l.scope = k /\ l.at = at /\ l.items = q
  <2>1. P[j] \in Lane BY <1>2, MapFacts
  <2>2. P[j] \in [scope: Scopes, items: Seq(Thing), at: Nat] BY <2>1, LaneFacts
  <2>3. l \in [scope: Scopes, items: Seq(Thing), at: Nat] /\ l.items = q
        /\ l.scope = k /\ l.at = at
    BY <1>2, <1>6, <2>2
  <2> HIDE DEF l
  <2> QED BY <1>7, <2>3 DEF Lane
<1> HIDE DEF l
<1>11. /\ B \in Map /\ DOMAIN B = DOMAIN P /\ Len(B) = Len(P)
       /\ GlobalCount(B) = (GlobalCount(P) - Len(P[j].items)) + Len(l.items)
       /\ \A i \in DOMAIN P : B[i] = IF i = j THEN l ELSE P[i]
  BY <1>2, <1>9, <1>10, ReplacedInMap
<1>12. j \in DOMAIN B /\ B[j] = l BY <1>2, <1>11
<1>13. ASSUME NEW b \in DOMAIN B, b # j
       PROVE  B[b].scope # k /\ \E s \in DOMAIN S : B[b] = S[s]
  <2>1. ScopesUnique(B) BY <1>11, MapFacts
  <2>2. B[b].scope # k BY <1>10, <1>12, <1>13, <2>1 DEF ScopesUnique
  <2>3. B[b] = P[b] /\ b \in DOMAIN P BY <1>11, <1>13
  <2>4. \E s \in DOMAIN S : P[b] = S[s] BY <1>2, <1>13, <2>3
  <2> QED BY <2>2, <2>3, <2>4
<1>14. ASSUME NEW s \in DOMAIN S, S[s].scope # k PROVE \E b \in DOMAIN B : B[b] = S[s]
  <2>1. PICK b \in DOMAIN P : b # j /\ P[b] = S[s] BY <1>2, <1>14
  <2> QED BY <1>11, <2>1
<1>15. \/ j = Len(B)
       \/ /\ Len(B) = Len(S)
          /\ \/ GlobalCount(B) <= GlobalCount(S)
             \/ GlobalCount(B) <= GlobalCount(S) + 1 /\ Len(B[j].items) > 1
  <2>1. CASE j = Len(P) BY <1>11, <2>1
  <2>2. CASE j # Len(P)
    <3> DEFINE m == Len(L)
               n == Len(q)
    <3>1. Len(P) = Len(S) /\ GlobalCount(P) = GlobalCount(S) + 1 /\ m > 1
      BY <1>2, <2>2
    <3>2. GlobalCount(B) = (GlobalCount(P) - m) + n /\ Len(B[j].items) = n
      BY <1>2, <1>10, <1>11, <1>12
    <3>3. m \in Nat /\ n \in Nat /\ GlobalCount(S) \in Nat
      BY <1>4, <1>6, CountIsNatural, MapFacts, LenProperties
    <3>4. m <= MaxPerSession => n = m BY DEF Newest, q
    <3>5. n <= MaxPerSession /\ MaxPerSession \in Nat BY <1>7, BudgetAssumption
    <3> HIDE DEF m, n
    <3>6. \/ GlobalCount(B) <= GlobalCount(S)
          \/ GlobalCount(B) <= GlobalCount(S) + 1 /\ n > 1
      BY <3>1, <3>2, <3>3, <3>4, <3>5
    <3> QED BY <1>11, <3>1, <3>2, <3>6
  <2> QED BY <2>1, <2>2
<1>16. Grows(S, B, k, item, at, j)
  BY <1>6, <1>7, <1>10, <1>11, <1>12, <1>13, <1>14, <1>15 DEF Grows, L
<1> QED BY <1>4, <1>16 DEF B, P, L

(***************************************************************************)
(* The invariant.                                                          *)
(***************************************************************************)
LEMMA PurgedFits ==
  ASSUME now \in Nat, NEW n \in Nat, NEW Q, Fits(sessions, now, n, Q)
  PROVE  Fits(Purged, now, n, Q)
<1>1. /\ Purged \in Map /\ Len(Purged) <= Len(sessions)
      /\ GlobalCount(Purged) <= GlobalCount(sessions)
      /\ \A p \in DOMAIN Purged : \E s \in DOMAIN sessions : Purges(Purged[p], sessions[s])
  BY PurgedFacts DEF Fits
<1>2. /\ sessions \in Map /\ Len(sessions) \in Nat /\ Len(Purged) \in Nat
      /\ GlobalCount(sessions) \in Nat /\ GlobalCount(Purged) \in Nat
  BY <1>1, MapFacts, CountIsNatural DEF Fits
<1>3. GlobalCount(Purged) <= MaxGlobal /\ Len(Purged) <= MaxSessions
  BY <1>1, <1>2, BudgetAssumption DEF Fits
<1>4. ASSUME NEW p \in DOMAIN Purged
      PROVE  /\ Len(Purged[p].items) <= MaxPerSession /\ Purged[p].at <= now
             /\ \A x \in ToSet(Purged[p].items) : x \in Q /\ x.id \in 1 .. n - 1
  <2>1. PICK s \in DOMAIN sessions : Purges(Purged[p], sessions[s]) BY <1>1
  <2>2. sessions[s] \in Lane /\ Purged[p] \in Lane BY <1>1, <1>2, MapFacts
  <2>3. /\ Len(Live(sessions[s].items)) <= Len(sessions[s].items)
        /\ ToSet(Live(sessions[s].items)) \subseteq ToSet(sessions[s].items)
        /\ Len(sessions[s].items) \in Nat /\ Len(Purged[p].items) \in Nat
    BY <2>2, LaneFacts, LiveFacts
  <2>4. /\ Len(sessions[s].items) <= MaxPerSession /\ sessions[s].at <= now
        /\ \A x \in ToSet(sessions[s].items) : x \in Q /\ x.id \in 1 .. n - 1
    BY DEF Fits
  <2>5. Purged[p].items = Live(sessions[s].items) /\ Purged[p].at = sessions[s].at
    BY <2>1 DEF Purges
  <2>6. Len(Purged[p].items) <= MaxPerSession BY <2>3, <2>4, <2>5, BudgetAssumption
  <2> QED BY <2>3, <2>4, <2>5, <2>6
<1> QED BY <1>1, <1>3, <1>4 DEF Fits

LEMMA AppendedFits ==
  ASSUME NEW S, NEW t \in Nat, NEW n \in Nat \ {0}, NEW Q, Fits(S, t, n, Q),
         NEW k \in Scopes, NEW item \in Thing, item \in Q, item.id = n
  PROVE  Fits(Trimmed(TrimLane(Push(S, k, item, t), k)), t, n + 1, Q)
<1> DEFINE B == TrimLane(Push(S, k, item, t), k)
           T == Trimmed(B)
<1>0. S \in Map BY DEF Fits
<1>1. \A s \in DOMAIN S : \A x \in ToSet(S[s].items) : x.id < item.id BY DEF Fits
<1>2. /\ \E j : Grows(S, B, k, item, t, j)
      /\ Append(ItemsOf(S, k), item) \in Seq(Thing)
      /\ ToSet(Append(ItemsOf(S, k), item)) = ToSet(ItemsOf(S, k)) \cup {item}
  BY <1>0, <1>1, GrowsFacts
<1>3. PICK j : Grows(S, B, k, item, t, j) BY <1>2
<1>4. B \in Map BY <1>3 DEF Grows
<1> HIDE DEF B
<1>5. /\ T \in Map /\ Derives(B, T)
      /\ GlobalCount(T) <= MaxGlobal /\ Len(T) <= MaxSessions
  BY <1>4, TrimmedFacts
<1> HIDE DEF T
<1>6. ASSUME NEW b \in DOMAIN B
      PROVE  /\ Len(B[b].items) <= MaxPerSession /\ B[b].at <= t
             /\ \A x \in ToSet(B[b].items) : x \in Q /\ x.id \in 1 .. n
  <2>1. CASE b = j
    <3>1. /\ Len(B[j].items) <= MaxPerSession /\ B[j].at = t /\ j \in DOMAIN B
          /\ Suffix(B[j].items, Append(ItemsOf(S, k), item))
      BY <1>3 DEF Grows
    <3>2. B[j].items \in Seq(Thing) BY <1>4, <3>1, MapFacts, LaneFacts
    <3>3. ToSet(B[j].items) \subseteq ToSet(ItemsOf(S, k)) \cup {item}
      BY <1>2, <3>1, <3>2, SuffixMembers
    <3>4. \A x \in ToSet(ItemsOf(S, k)) : x \in Q /\ x.id \in 1 .. n - 1
      <4>1. ToSet(<<>>) = {} BY DEF ToSet
      <4> QED BY <1>0, <4>1, ItemsOfFacts DEF Fits
    <3>5. \A x \in ToSet(B[j].items) : x \in Q /\ x.id \in 1 .. n BY <3>3, <3>4
    <3> QED BY <2>1, <3>1, <3>5
  <2>2. CASE b # j
    <3>1. PICK s \in DOMAIN S : B[b] = S[s] BY <1>3, <2>2 DEF Grows
    <3>2. /\ Len(S[s].items) <= MaxPerSession /\ S[s].at <= t
          /\ \A x \in ToSet(S[s].items) : x \in Q /\ x.id \in 1 .. n - 1
      BY DEF Fits
    <3> QED BY <3>1, <3>2
  <2> QED BY <2>1, <2>2
<1>7. ASSUME NEW u \in DOMAIN T
      PROVE  /\ Len(T[u].items) <= MaxPerSession /\ T[u].at <= t
             /\ \A x \in ToSet(T[u].items) : x \in Q /\ x.id \in 1 .. (n + 1) - 1
  <2>1. PICK b \in DOMAIN B : T[u].at = B[b].at /\ Suffix(T[u].items, B[b].items)
    BY <1>5 DEF Derives
  <2>2. T[u] \in Lane /\ B[b] \in Lane BY <1>4, <1>5, MapFacts
  <2>3. /\ ToSet(T[u].items) \subseteq ToSet(B[b].items)
        /\ Len(T[u].items) <= Len(B[b].items)
        /\ Len(T[u].items) \in Nat /\ Len(B[b].items) \in Nat
    BY <2>1, <2>2, LaneFacts, SuffixMembers
  <2>4. Len(T[u].items) <= MaxPerSession BY <1>6, <2>3, BudgetAssumption
  <2>5. (n + 1) - 1 = n OBVIOUS
  <2> QED BY <1>6, <2>1, <2>3, <2>4, <2>5
<1>8. Fits(T, t, n + 1, Q) BY <1>5, <1>7 DEF Fits
<1> QED BY <1>8 DEF T, B

\* An accepted append is in its lane, whatever the trims shed.
LEMMA AppendedKeeps ==
  ASSUME NEW S, NEW t \in Nat, NEW n \in Nat \ {0}, NEW Q, Fits(S, t, n, Q),
         NEW k \in Scopes, NEW item \in Thing, item \in Q, item.id = n
  PROVE  item \in ToSet(ItemsOf(Trimmed(TrimLane(Push(S, k, item, t), k)), k))
<1> DEFINE B == TrimLane(Push(S, k, item, t), k)
           T == Trimmed(B)
<1>0. /\ S \in Map /\ Len(S) <= MaxSessions /\ GlobalCount(S) <= MaxGlobal
      /\ \A s \in DOMAIN S : S[s].at <= t
  BY DEF Fits
<1>1. \A s \in DOMAIN S : \A x \in ToSet(S[s].items) : x.id < item.id BY DEF Fits
<1>2. PICK j : Grows(S, B, k, item, t, j) BY <1>0, <1>1, GrowsFacts
<1> HIDE DEF B
<1>3. B \in Map /\ j \in DOMAIN B BY <1>2 DEF Grows
<1>4. Holds(B, k, item, t, j)
  <2>1. ASSUME NEW b \in DOMAIN B PROVE B[b].at <= t
    <3>1. CASE b = j BY <1>2, <3>1 DEF Grows
    <3>2. CASE b # j BY <1>0, <1>2, <3>2 DEF Grows
    <3> QED BY <3>1, <3>2
  <2> QED BY <1>2, <2>1 DEF Grows, Holds
<1>5. Spared(B, j)
  <2>1. CASE j = Len(B) BY <2>1 DEF Spared
  <2>2. CASE j # Len(B)
    <3>1. /\ Len(B) = Len(S)
          /\ \/ GlobalCount(B) <= GlobalCount(S)
             \/ GlobalCount(B) <= GlobalCount(S) + 1 /\ Len(B[j].items) > 1
      BY <1>2, <2>2 DEF Grows
    <3>2. GlobalCount(B) \in Nat /\ GlobalCount(S) \in Nat /\ MaxGlobal \in Nat
      BY <1>0, <1>3, MapFacts, CountIsNatural, BudgetAssumption
    <3>3. GlobalCount(B) <= GlobalCount(S) => GlobalCount(B) <= MaxGlobal BY <1>0, <3>2
    <3>4. GlobalCount(B) <= GlobalCount(S) + 1 => GlobalCount(B) <= MaxGlobal + 1
      BY <1>0, <3>2
    <3> QED BY <1>0, <3>1, <3>3, <3>4 DEF Spared
  <2> QED BY <2>1, <2>2
<1>6. PICK v : Holds(T, k, item, t, v) BY <1>3, <1>4, <1>5, TrimmedKeeps
<1>7. T \in Map BY <1>3, TrimmedFacts
<1> HIDE DEF T
<1>8. v \in DOMAIN T /\ T[v].scope = k /\ T[v].items[Len(T[v].items)] = item
  BY <1>6 DEF Holds
<1>9. ItemsOf(T, k) = T[v].items
  <2>1. At(T, k) = v /\ v # 0 BY <1>7, <1>8, AtFacts, MapFacts
  <2> QED BY <2>1 DEF ItemsOf
<1>10. T[v].items \in Seq(Thing) /\ Len(T[v].items) \in Nat \ {0}
  BY <1>7, <1>8, MapFacts, LaneFacts
<1>11. item \in ToSet(T[v].items)
  <2> DEFINE q == T[v].items
  <2>1. q \in Seq(Thing) /\ Len(q) \in Nat \ {0} /\ q[Len(q)] = item BY <1>8, <1>10
  <2> HIDE DEF q
  <2>2. Len(q) \in DOMAIN q BY <2>1
  <2>3. item \in ToSet(q) BY <2>1, <2>2 DEF ToSet
  <2> QED BY <2>3 DEF q
<1> QED BY <1>9, <1>11 DEF T, B

LEMMA IdsMembers ==
  ASSUME NEW S, NEW n
  PROVE  n \in Ids(S) <=> \E i \in DOMAIN S : \E x \in ToSet(S[i].items) : n = x.id
<1>1. ASSUME n \in Ids(S) PROVE \E i \in DOMAIN S : \E x \in ToSet(S[i].items) : n = x.id
  <2>1. PICK s \in ToSet(S) : n \in {x.id : x \in ToSet(s.items)} BY <1>1 DEF Ids
  <2>2. PICK i \in DOMAIN S : S[i] = s BY MapMembers
  <2> QED BY <2>1, <2>2
<1>2. ASSUME NEW i \in DOMAIN S, NEW x \in ToSet(S[i].items), n = x.id PROVE n \in Ids(S)
  <2>1. S[i] \in ToSet(S) BY MapMembers
  <2> QED BY <1>2, <2>1 DEF Ids
<1> QED BY <1>1, <1>2

\* A trimmed append: what an item of the purged map that is gone stands for.
LEMMA AppendedSheds ==
  ASSUME NEW S, NEW t \in Nat, NEW n \in Nat \ {0}, NEW Q, Fits(S, t, n, Q),
         NEW k \in Scopes, NEW item \in Thing, item \in Q, item.id = n, NEW T,
         T = Trimmed(TrimLane(Push(S, k, item, t), k)),
         NEW s \in DOMAIN S, NEW x \in ToSet(S[s].items), x.id \notin Ids(T)
  PROVE  /\ \A y \in ToSet(ItemsOf(T, S[s].scope)) : y.id > x.id
         /\ \/ \E y \in ToSet(ItemsOf(T, S[s].scope)) : y.id = n
            \/ \A r \in DOMAIN T : T[r].at >= S[s].at
<1> DEFINE B == TrimLane(Push(S, k, item, t), k)
           h == S[s].scope
           L == Append(ItemsOf(S, k), item)
<1>0. S \in Map /\ S[s] \in Lane BY MapFacts DEF Fits
<1>1. \A u \in DOMAIN S : \A z \in ToSet(S[u].items) : z.id < item.id BY DEF Fits
<1>2. /\ \E j : Grows(S, B, k, item, t, j)
      /\ L \in Seq(Thing) /\ Sorted(L) /\ ToSet(L) = ToSet(ItemsOf(S, k)) \cup {item}
  BY <1>0, <1>1, GrowsFacts
<1>3. PICK j : Grows(S, B, k, item, t, j) BY <1>2
<1>4. B \in Map /\ ScopesUnique(B) BY <1>3, MapFacts DEF Grows
<1> HIDE DEF B, L
<1>5. T \in Map /\ Derives(B, T) /\ Least(B, T) BY <1>4, TrimmedFacts DEF B
<1>6. Gone(h, x, T) BY IdsMembers DEF Gone
<1>7. \A r \in DOMAIN T : T[r].at \in Nat /\ T[r] \in Lane
  BY <1>5, MapFacts, LaneFacts
<1>8. S[s].at \in Nat BY <1>0, LaneFacts
<1>9. CASE h # k
  <2>1. PICK b \in DOMAIN B : B[b] = S[s] BY <1>3, <1>9 DEF Grows
  <2>2. B[b].items \in Seq(Thing) /\ Sorted(B[b].items) /\ x \in ToSet(B[b].items)
    BY <1>0, <2>1, LaneFacts
  <2>3. \A r \in DOMAIN T : B[b].at <= T[r].at BY <1>5, <1>6, <2>1, <2>2 DEF Least
  <2>4. \A r \in DOMAIN T : T[r].at >= S[s].at BY <1>7, <1>8, <2>1, <2>3
  <2>5. ASSUME NEW y \in ToSet(ItemsOf(T, h)) PROVE y.id > x.id
    <3>1. ItemsOf(T, h) # <<>> BY <2>5 DEF ToSet
    <3>2. PICK r \in DOMAIN T : T[r].scope = h /\ ItemsOf(T, h) = T[r].items
      BY <1>5, <3>1, ItemsOfFacts
    <3>3. PICK c \in DOMAIN B : T[r].scope = B[c].scope /\ Suffix(T[r].items, B[c].items)
      BY <1>5 DEF Derives
    <3>4. c = b BY <1>4, <2>1, <3>2, <3>3 DEF ScopesUnique
    <3>5. T[r].items \in Seq(Thing) /\ x \notin ToSet(T[r].items)
      BY <1>6, <1>7, <3>2, LaneFacts DEF Gone
    <3>6. y \in ToSet(T[r].items) BY <2>5, <3>2
    <3> QED BY <2>2, <3>3, <3>4, <3>5, <3>6, SuffixKeepsNewer
  <2> QED BY <2>4, <2>5
<1>10. CASE h = k
  <2>1. ItemsOf(S, k) = S[s].items
    <3>1. At(S, k) = s BY <1>0, <1>10, AtFacts
    <3>2. s # 0 BY <1>0, MapFacts
    <3> QED BY <3>1, <3>2 DEF ItemsOf
  <2>2. x \in ToSet(L) BY <1>2, <2>1
  <2>3. /\ j \in DOMAIN B /\ B[j].scope = k /\ B[j].at = t
        /\ Suffix(B[j].items, L) /\ B[j].items \in Seq(Thing) /\ Len(B[j].items) > 0
    <3>1. j \in DOMAIN B /\ B[j].scope = k /\ B[j].at = t /\ Suffix(B[j].items, L)
      BY <1>3 DEF Grows, L
    <3>2. B[j] \in Lane BY <1>4, <3>1, MapFacts
    <3> QED BY <3>1, <3>2, LaneFacts
  <2>4. ASSUME NEW r \in DOMAIN T, T[r].scope = k
        PROVE  T[r].at = t /\ Suffix(T[r].items, L) /\ T[r].items \in Seq(Thing)
    <3>1. PICK c \in DOMAIN B : /\ T[r].scope = B[c].scope /\ T[r].at = B[c].at
                                /\ Suffix(T[r].items, B[c].items)
      BY <1>5 DEF Derives
    <3>2. c = j BY <1>4, <2>3, <2>4, <3>1 DEF ScopesUnique
    <3>3. T[r].items \in Seq(Thing) BY <1>7, LaneFacts
    <3>4. Suffix(T[r].items, L) BY <1>2, <2>3, <3>1, <3>2, <3>3, SuffixOfSuffix
    <3> QED BY <2>3, <3>1, <3>2, <3>3, <3>4
  <2>5. ASSUME NEW y \in ToSet(ItemsOf(T, h)) PROVE y.id > x.id
    <3>1. ItemsOf(T, h) # <<>> BY <2>5 DEF ToSet
    <3>2. PICK r \in DOMAIN T : T[r].scope = h /\ ItemsOf(T, h) = T[r].items
      BY <1>5, <3>1, ItemsOfFacts
    <3>3. x \notin ToSet(T[r].items) /\ y \in ToSet(T[r].items)
      BY <1>6, <2>5, <3>2 DEF Gone
    <3>4. Suffix(T[r].items, L) /\ T[r].items \in Seq(Thing) BY <1>10, <2>4, <3>2
    <3> QED BY <1>2, <2>2, <3>3, <3>4, SuffixKeepsNewer
  <2>6. item \in ToSet(ItemsOf(T, k)) BY AppendedKeeps
  <2> QED BY <1>10, <2>5, <2>6
<1> QED BY <1>9, <1>10

\* The item of an accepted call.
NewThing == [id |-> nextId, exp |-> now + Ttl]

LEMMA InvTyped ==
  ASSUME WsInv
  PROVE  /\ now \in Nat /\ nextId \in Nat \ {0} /\ now + Ttl \in Nat
         /\ Fits(sessions, now, nextId, Plain) /\ sessions \in Map
         /\ Fits(Purged, now, nextId, Plain) /\ Purged \in Map
         /\ NewThing \in Thing /\ NewThing \in Plain /\ NewThing.id = nextId
<1>1. now \in Nat /\ nextId \in Nat \ {0} /\ Fits(sessions, now, nextId, Plain)
  BY BudgetAssumption DEF WsInv
<1>2. now + Ttl \in Nat BY <1>1, BudgetAssumption
<1>3. NewThing \in Thing /\ NewThing \in Plain /\ NewThing.id = nextId
  BY <1>1, <1>2 DEF NewThing, Thing, Plain
<1>4. Fits(Purged, now, nextId, Plain) BY <1>1, PurgedFits
<1> QED BY <1>1, <1>2, <1>3, <1>4 DEF Fits

LEMMA AppendedIs ==
  ASSUME NEW k
  PROVE  Appended(k) = Trimmed(TrimLane(Push(Purged, k, NewThing, now), k))
BY DEF Appended, Trimmed, NewThing

LEMMA InvStarts == WsInit => WsInv
<1> SUFFICES ASSUME WsInit PROVE WsInv OBVIOUS
<1> USE DEF WsInit
<1>1. <<>> \in Map
  <2>1. <<>> \in Seq(Lane) OBVIOUS
  <2>2. ScopesUnique(<<>>) BY DEF ScopesUnique
  <2> QED BY <2>1, <2>2 DEF Map
<1>2. GlobalCount(<<>>) <= MaxGlobal /\ Len(<<>>) <= MaxSessions
  BY CountOfNone, BudgetAssumption
<1>3. DOMAIN <<>> = {} OBVIOUS
<1>4. Fits(sessions, now, nextId, Plain) BY <1>1, <1>2, <1>3 DEF Fits
<1>5. AcceptedIsKept BY DEF AcceptedIsKept
<1>6. /\ now \in 0 .. MaxNow
      /\ nextId \in 1 .. MaxAppends + 1 /\ accepted \in 0 .. MaxAppends
  <2>1. MaxNow \in Nat /\ MaxAppends \in Nat BY BudgetAssumption
  <2>2. 0 \in 0 .. MaxNow /\ 1 \in 1 .. MaxAppends + 1 /\ 0 \in 0 .. MaxAppends BY <2>1
  <2> QED BY <2>2
<1> QED BY <1>4, <1>5, <1>6 DEF WsInv

\* The session map and the accepted after a call that is not accepted.
LEMMA PurgeKeepsInv ==
  ASSUME WsInv, now' = now, sessions' = Purged, accepted' = 0, nextId' = nextId
  PROVE  WsInv'
<1>1. Fits(sessions', now', nextId', Plain) BY InvTyped
<1>2. AcceptedIsKept' BY DEF AcceptedIsKept
<1>3. /\ now' \in 0 .. MaxNow
      /\ nextId' \in 1 .. MaxAppends + 1 /\ accepted' \in 0 .. MaxAppends
  BY BudgetAssumption DEF WsInv
<1> QED BY <1>1, <1>2, <1>3 DEF WsInv

\* The item of an accepted append is in its session afterwards.
LEMMA AppendKeepsItem ==
  ASSUME WsInv, NEW k \in Scopes, sessions' = Appended(k)
  PROVE  NewThing \in ToSet(ItemsOf(sessions', k))
<1>1. sessions' = Trimmed(TrimLane(Push(Purged, k, NewThing, now), k)) BY AppendedIs
<1> QED BY <1>1, InvTyped, AppendedKeeps

LEMMA AppendKeepsInv ==
  ASSUME WsInv, now' = now, nextId <= MaxAppends, NEW k \in Scopes,
         sessions' = Appended(k), accepted' = nextId, nextId' = nextId + 1
  PROVE  WsInv'
<1>1. /\ now \in Nat /\ nextId \in Nat \ {0} /\ Fits(Purged, now, nextId, Plain)
      /\ NewThing \in Thing /\ NewThing \in Plain /\ NewThing.id = nextId
  BY InvTyped
<1>2. sessions' = Trimmed(TrimLane(Push(Purged, k, NewThing, now), k)) BY AppendedIs
<1>3. Fits(sessions', now', nextId', Plain) BY <1>1, <1>2, AppendedFits
<1>4. AcceptedIsKept'
  <2>1. NewThing \in ToSet(ItemsOf(sessions', k)) BY AppendKeepsItem
  <2>2. ItemsOf(sessions', k) # <<>> BY <2>1 DEF ToSet
  <2>3. \E i \in DOMAIN sessions' : ItemsOf(sessions', k) = sessions'[i].items
    BY <1>3, <2>2, ItemsOfFacts DEF Fits
  <2>4. nextId \in Ids(sessions') BY <1>1, <2>1, <2>3, IdsMembers
  <2> QED BY <2>4 DEF AcceptedIsKept, Ids
<1>5. /\ now' \in 0 .. MaxNow
      /\ nextId' \in 1 .. MaxAppends + 1 /\ accepted' \in 0 .. MaxAppends
  <2>1. nextId \in 1 .. MaxAppends + 1 /\ now \in 0 .. MaxNow BY DEF WsInv
  <2> QED BY <2>1, BudgetAssumption
<1> QED BY <1>3, <1>4, <1>5 DEF WsInv

LEMMA TickKeepsInv ==
  ASSUME WsInv, WsTick
  PROVE  WsInv'
<1>0. /\ now < MaxNow /\ now' = now + 1
      /\ sessions' = sessions /\ nextId' = nextId /\ accepted' = accepted
  BY DEF WsTick, ClockTicks
<1>1. Fits(sessions, now, nextId, Plain) /\ now \in Nat /\ sessions \in Map BY InvTyped
<1>2. \A i \in DOMAIN sessions : sessions[i].at \in Nat /\ sessions[i].at <= now
  BY <1>1, MapFacts, LaneFacts DEF Fits
<1>3. \A i \in DOMAIN sessions : sessions[i].at <= now + 1 BY <1>1, <1>2
<1>4. Fits(sessions', now', nextId', Plain) BY <1>0, <1>1, <1>3 DEF Fits
<1>5. AcceptedIsKept' BY <1>0 DEF WsInv, AcceptedIsKept, Ids
<1>6. /\ now' \in 0 .. MaxNow
      /\ nextId' \in 1 .. MaxAppends + 1 /\ accepted' \in 0 .. MaxAppends
  <2>1. MaxNow \in Nat BY BudgetAssumption
  <2>2. now + 1 \in 0 .. MaxNow BY <1>0, <1>1, <2>1
  <2>3. nextId \in 1 .. MaxAppends + 1 /\ accepted \in 0 .. MaxAppends BY DEF WsInv
  <2> QED BY <1>0, <2>2, <2>3
<1> QED BY <1>4, <1>5, <1>6 DEF WsInv

LEMMA InvStep == WsInv /\ [WsNext]_wsvars => WsInv'
<1> SUFFICES ASSUME WsInv, [WsNext]_wsvars PROVE WsInv' OBVIOUS
<1>1. ASSUME NEW k \in Scopes, NEW size \in Sizes, AppendItem(k, size) PROVE WsInv'
  <2>1. now' = now /\ nextId <= MaxAppends BY <1>1 DEF AppendItem
  <2>2. CASE Rejected(size)
    <3>1. sessions' = Purged /\ accepted' = 0 /\ nextId' = nextId BY <1>1, <2>2 DEF AppendItem
    <3> QED BY <2>1, <3>1, PurgeKeepsInv
  <2>3. CASE ~Rejected(size)
    <3>1. sessions' = Appended(k) /\ accepted' = nextId /\ nextId' = nextId + 1
      BY <1>1, <2>3 DEF AppendItem
    <3> QED BY <2>1, <3>1, AppendKeepsInv
  <2> QED BY <2>2, <2>3
<1>2. CASE BuildContextPackFragment
  BY <1>2, PurgeKeepsInv DEF BuildContextPackFragment
<1>3. CASE WsTick BY <1>3, TickKeepsInv
<1>4. CASE UNCHANGED wsvars
  BY <1>4 DEF wsvars, WsInv, Fits, AcceptedIsKept, Ids
<1> QED BY <1>1, <1>2, <1>3, <1>4 DEF WsNext

LEMMA Invariant == WsSpec => []WsInv
BY InvStarts, InvStep, PTL DEF WsSpec

LEMMA InvTypes == WsInv => WsTypeOK
<1> SUFFICES ASSUME WsInv PROVE WsTypeOK OBVIOUS
<1>1. /\ now \in 0 .. MaxNow
      /\ nextId \in 1 .. MaxAppends + 1 /\ accepted \in 0 .. MaxAppends
      /\ Fits(sessions, now, nextId, Plain) /\ sessions \in Map /\ now \in Nat
  BY InvTyped DEF WsInv
<1>2. ASSUME NEW s \in ToSet(sessions)
      PROVE  s.scope \in Scopes /\ s.at \in 0 .. now /\ ToSet(s.items) \subseteq WsItem
  <2>1. PICK i \in DOMAIN sessions : sessions[i] = s BY MapMembers
  <2>2. s.at <= now /\ \A x \in ToSet(s.items) : x.id \in 1 .. nextId - 1
    BY <1>1, <2>1 DEF Fits
  <2>3. s \in Lane BY <1>1, <2>1, MapFacts
  <2>4. s.scope \in Scopes /\ s.at \in Nat /\ s.items \in Seq(Thing) BY <2>3, LaneFacts
  <2>5. ASSUME NEW x \in ToSet(s.items) PROVE x \in WsItem
    <3>1. x \in Plain BY <1>1, <2>1 DEF Fits
    <3>2. x.id \in 1 .. MaxAppends BY <1>1, <2>2, BudgetAssumption
    <3> QED BY <3>1, <3>2 DEF Plain, WsItem
  <2> QED BY <1>1, <2>2, <2>4, <2>5
<1>3. WithinBudgets(sessions)
  <2>1. ASSUME NEW i \in DOMAIN sessions PROVE Len(sessions[i].items) \in 1 .. MaxPerSession
    <3>1. sessions[i] \in Lane BY <1>1, MapFacts
    <3>2. Len(sessions[i].items) \in Nat \ {0} BY <3>1, LaneFacts
    <3>3. Len(sessions[i].items) <= MaxPerSession BY <1>1 DEF Fits
    <3> QED BY <3>2, <3>3, BudgetAssumption
  <2> QED BY <1>1, <2>1 DEF WithinBudgets, Fits
<1> QED BY <1>1, <1>2, <1>3 DEF WsTypeOK

\* The store keeps its types and its three budgets between calls: the items of
\* all sessions, the sessions, and the items of each (trimGlobally,
\* trimSessionCount, trimLane).
THEOREM WorkingSetTypeCorrect == WsSpec => []WsTypeOK
<1>1. WsInv => WsTypeOK BY InvTypes
<1> QED BY <1>1, Invariant, PTL

\* An append that is answered accepted is in the store, whatever the trims that
\* follow it shed, and whichever lanes were touched in its millisecond.
THEOREM AcceptedKept == WsSpec => []AcceptedIsKept
<1>1. WsInv => AcceptedIsKept BY DEF WsInv
<1> QED BY <1>1, Invariant, PTL

Sheds(s, x) ==
    (x.exp > now' /\ x.id \notin Ids(sessions')) =>
        /\ \A y \in ToSet(ItemsOf(sessions', s.scope)) : y.id > x.id
        /\ \/ \E y \in ToSet(ItemsOf(sessions', s.scope)) : y.id = accepted'
           \/ \A r \in ToSet(sessions') : r.at >= s.at

\* A purge drops no item that is not expired.
LEMMA PurgeShedsNone ==
  ASSUME WsInv, now' = now, sessions' = Purged,
         NEW s \in ToSet(sessions), NEW x \in ToSet(s.items)
  PROVE  Sheds(s, x)
<1>0. sessions \in Map /\ now \in Nat BY InvTyped
<1> SUFFICES ASSUME x.exp > now' PROVE x.id \in Ids(sessions') BY DEF Sheds
<1>1. PICK i \in DOMAIN sessions : sessions[i] = s BY MapMembers
<1>2. s.items \in Seq(Thing) /\ Sorted(s.items) BY <1>0, <1>1, MapFacts, LaneFacts
<1>3. x \in ToSet(Live(s.items)) BY <1>0, <1>2, LiveFacts
<1>4. Live(sessions[i].items) # <<>> BY <1>1, <1>3 DEF ToSet
<1>5. PICK p \in DOMAIN Purged : Purges(Purged[p], sessions[i])
  BY <1>0, <1>4, PurgedFacts
<1>6. x \in ToSet(Purged[p].items) BY <1>1, <1>3, <1>5 DEF Purges
<1> QED BY <1>6, IdsMembers

LEMMA AppendShedsOldest ==
  ASSUME WsInv, now' = now, NEW k \in Scopes, sessions' = Appended(k), accepted' = nextId,
         NEW s \in ToSet(sessions), NEW x \in ToSet(s.items)
  PROVE  Sheds(s, x)
<1>1. /\ now \in Nat /\ nextId \in Nat \ {0} /\ Fits(Purged, now, nextId, Plain)
      /\ NewThing \in Thing /\ NewThing \in Plain /\ NewThing.id = nextId /\ sessions \in Map
  BY InvTyped
<1>2. sessions' = Trimmed(TrimLane(Push(Purged, k, NewThing, now), k)) BY AppendedIs
<1> SUFFICES ASSUME x.exp > now', x.id \notin Ids(sessions')
             PROVE  /\ \A y \in ToSet(ItemsOf(sessions', s.scope)) : y.id > x.id
                    /\ \/ \E y \in ToSet(ItemsOf(sessions', s.scope)) : y.id = accepted'
                       \/ \A r \in ToSet(sessions') : r.at >= s.at
  BY DEF Sheds
<1>4. PICK i \in DOMAIN sessions : sessions[i] = s BY MapMembers
<1>5. s.items \in Seq(Thing) /\ Sorted(s.items) BY <1>1, <1>4, MapFacts, LaneFacts
<1>6. x \in ToSet(Live(s.items)) BY <1>1, <1>5, LiveFacts
<1>7. Live(sessions[i].items) # <<>> BY <1>4, <1>6 DEF ToSet
<1>8. PICK p \in DOMAIN Purged : Purges(Purged[p], sessions[i])
  BY <1>1, <1>7, PurgedFacts
<1>9. /\ x \in ToSet(Purged[p].items)
      /\ Purged[p].scope = s.scope /\ Purged[p].at = s.at
  BY <1>4, <1>6, <1>8 DEF Purges
<1> DEFINE T == sessions'
<1>10. /\ \A y \in ToSet(ItemsOf(T, s.scope)) : y.id > x.id
       /\ \/ \E y \in ToSet(ItemsOf(T, s.scope)) : y.id = nextId
          \/ \A r \in DOMAIN T : T[r].at >= s.at
  <2>1. T = Trimmed(TrimLane(Push(Purged, k, NewThing, now), k)) /\ x.id \notin Ids(T)
    BY <1>2
  <2> HIDE DEF T
  <2>2. /\ \A y \in ToSet(ItemsOf(T, Purged[p].scope)) : y.id > x.id
        /\ \/ \E y \in ToSet(ItemsOf(T, Purged[p].scope)) : y.id = nextId
           \/ \A r \in DOMAIN T : T[r].at >= Purged[p].at
    BY <1>1, <1>9, <2>1, AppendedSheds
  <2> QED BY <1>9, <2>2
<1> QED BY <1>10, MapMembers

\* When a call costs an unexpired item, no session that is left was touched
\* before the one that lost it, or that one holds the item just accepted; and
\* what is left of its session is newer than what it lost.
THEOREM ShedsTheLeastRecent == WsSpec => ShedsLeastRecent
<1>1. ASSUME WsInv, [WsNext]_wsvars, NEW s \in ToSet(sessions), NEW x \in ToSet(s.items)
      PROVE  Sheds(s, x)
  <2>1. ASSUME NEW k \in Scopes, NEW size \in Sizes, AppendItem(k, size) PROVE Sheds(s, x)
    <3>1. now' = now BY <2>1 DEF AppendItem
    <3>2. CASE Rejected(size)
      <4>1. sessions' = Purged BY <2>1, <3>2 DEF AppendItem
      <4> QED BY <1>1, <3>1, <4>1, PurgeShedsNone
    <3>3. CASE ~Rejected(size)
      <4>1. sessions' = Appended(k) /\ accepted' = nextId BY <2>1, <3>3 DEF AppendItem
      <4> QED BY <1>1, <3>1, <4>1, AppendShedsOldest
    <3> QED BY <3>2, <3>3
  <2>2. CASE BuildContextPackFragment
    BY <1>1, <2>2, PurgeShedsNone DEF BuildContextPackFragment
  <2>3. ASSUME sessions' = sessions PROVE Sheds(s, x)
    <3>1. x.id \in Ids(sessions) BY DEF Ids
    <3> QED BY <2>3, <3>1 DEF Sheds, Ids
  <2>4. CASE WsTick BY <2>3, <2>4 DEF WsTick
  <2>5. CASE UNCHANGED wsvars BY <2>3, <2>5 DEF wsvars
  <2> QED BY <1>1, <2>1, <2>2, <2>4, <2>5 DEF WsNext
<1>2. WsInv /\ [WsNext]_wsvars =>
        [\A s \in ToSet(sessions) : \A x \in ToSet(s.items) :
          (x.exp > now' /\ x.id \notin Ids(sessions')) =>
              /\ \A y \in ToSet(ItemsOf(sessions', s.scope)) : y.id > x.id
              /\ \/ \E y \in ToSet(ItemsOf(sessions', s.scope)) : y.id = accepted'
                 \/ \A r \in ToSet(sessions') : r.at >= s.at]_wsvars
  BY <1>1 DEF Sheds
<1> QED BY <1>2, Invariant, PTL DEF WsSpec, ShedsLeastRecent

(***************************************************************************)
(* A session map whose sessions may be empty.                              *)
(***************************************************************************)
LEMMA LooseFacts ==
  ASSUME NEW S \in Loose
  PROVE  /\ S \in Seq(Session) /\ Len(S) \in Nat /\ DOMAIN S = 1 .. Len(S) /\ ScopesUnique(S)
         /\ \A i \in DOMAIN S : /\ S[i] \in Session /\ S[i].scope \in Scopes
                                /\ S[i].items \in Seq(Thing) /\ S[i].at \in Nat
                                /\ Sorted(S[i].items)
<1>1. S \in Seq(Session) /\ ScopesUnique(S) /\ \A i \in DOMAIN S : Sorted(S[i].items)
  BY DEF Loose
<1>2. \A i \in DOMAIN S : S[i] \in Session BY <1>1
<1>3. \A s \in Session : s.scope \in Scopes /\ s.items \in Seq(Thing) /\ s.at \in Nat
  BY DEF Session
<1> QED BY <1>1, <1>2, <1>3

LEMMA MapIsLoose ==
  ASSUME NEW S
  PROVE  S \in Map <=> S \in Loose /\ \A i \in DOMAIN S : S[i].items # <<>>
<1>1. ASSUME S \in Map PROVE S \in Loose /\ \A i \in DOMAIN S : S[i].items # <<>>
  <2>1. S \in Seq(Lane) /\ ScopesUnique(S) /\ \A i \in DOMAIN S : S[i] \in Lane
    BY <1>1, MapFacts
  <2>2. Lane \subseteq Session BY DEF Lane, Session
  <2>3. S \in Seq(Session) BY <2>1, <2>2
  <2>4. \A i \in DOMAIN S : Sorted(S[i].items) /\ S[i].items # <<>>
    <3> SUFFICES ASSUME NEW i \in DOMAIN S PROVE Sorted(S[i].items) /\ S[i].items # <<>>
      OBVIOUS
    <3>1. S[i] \in Lane BY <2>1
    <3>2. S[i].items \in Seq(Thing) /\ Len(S[i].items) > 0 /\ Sorted(S[i].items)
      BY <3>1, LaneFacts
    <3> QED BY <3>2, EmptySeq
  <2> QED BY <2>1, <2>3, <2>4 DEF Loose
<1>2. ASSUME S \in Loose, \A i \in DOMAIN S : S[i].items # <<>> PROVE S \in Map
  <2>1. /\ S \in Seq(Session) /\ ScopesUnique(S) /\ DOMAIN S = 1 .. Len(S)
        /\ \A i \in DOMAIN S : S[i] \in Session /\ S[i].items \in Seq(Thing) /\ Sorted(S[i].items)
    BY <1>2, LooseFacts
  <2>2. \A i \in DOMAIN S : S[i] \in Lane
    <3> SUFFICES ASSUME NEW i \in DOMAIN S PROVE S[i] \in Lane OBVIOUS
    <3>1. Len(S[i].items) > 0 BY <1>2, <2>1, EmptySeq
    <3> QED BY <2>1, <3>1 DEF Lane, Session
  <2>3. S \in Seq(Lane) BY <2>1, <2>2
  <2> QED BY <2>1, <2>3 DEF Map
<1> QED BY <1>1, <1>2

LEMMA LooseAt ==
  ASSUME NEW S \in Loose, NEW k
  PROVE  /\ At(S, k) \in 0 .. Len(S)
         /\ At(S, k) # 0 => At(S, k) \in DOMAIN S /\ S[At(S, k)].scope = k
         /\ \A i \in DOMAIN S : S[i].scope = k => At(S, k) = i
<1> DEFINE I == {i \in 1 .. Len(S) : S[i].scope = k}
<1>0. Len(S) \in Nat /\ DOMAIN S = 1 .. Len(S) /\ ScopesUnique(S) BY LooseFacts
<1>1. At(S, k) = IF I = {} THEN 0 ELSE Min(I)
  BY DEF At, SelectInSeq
<1>2. CASE I = {} BY <1>0, <1>1, <1>2
<1>3. CASE I # {}
  <2>1. PICK i \in I : TRUE BY <1>3
  <2>2. \A j \in I : j = i BY <1>0, <2>1 DEF ScopesUnique
  <2>3. I = {i} BY <2>1, <2>2
  <2>4. Min(I) = i
    <3>1. \A x \in I : x <= i /\ i <= x BY <1>0, <2>1, <2>3
    <3> HIDE DEF I
    <3>2. \E x \in I : \A y \in I : x <= y BY <2>1, <3>1
    <3>3. Min(I) \in I BY <3>2 DEF Min
    <3> QED BY <2>3, <3>3
  <2>5. At(S, k) = i BY <1>1, <1>3, <2>4
  <2>6. i \in 1 .. Len(S) /\ S[i].scope = k BY <2>1
  <2>7. \A j \in DOMAIN S : S[j].scope = k => i = j BY <1>0, <2>2
  <2> HIDE DEF I
  <2> QED BY <1>0, <2>5, <2>6, <2>7
<1> QED BY <1>2, <1>3

\* The items of a scope are those of its session.
LEMMA InFacts ==
  ASSUME NEW S \in Loose, NEW k
  PROVE  /\ ItemsOf(S, k) \in Seq(Thing) /\ Sorted(ItemsOf(S, k)) /\ In(S, k) \subseteq Thing
         /\ \A i \in DOMAIN S : S[i].scope = k => /\ At(S, k) = i /\ At(S, k) # 0
                                                  /\ ItemsOf(S, k) = S[i].items
                                                  /\ In(S, k) = ToSet(S[i].items)
         /\ \/ /\ At(S, k) = 0 /\ ItemsOf(S, k) = <<>> /\ In(S, k) = {}
               /\ \A i \in DOMAIN S : S[i].scope # k
            \/ /\ At(S, k) \in DOMAIN S /\ S[At(S, k)].scope = k
               /\ ItemsOf(S, k) = S[At(S, k)].items
<1>1. DOMAIN S = 1 .. Len(S) /\ 0 \notin DOMAIN S BY LooseFacts
<1>2. CASE At(S, k) = 0
  <2>1. ItemsOf(S, k) = <<>> BY <1>2 DEF ItemsOf
  <2>2. \A i \in DOMAIN S : S[i].scope # k BY <1>1, <1>2, LooseAt
  <2>3. <<>> \in Seq(Thing) /\ Sorted(<<>>) /\ ToSet(<<>>) = {} BY DEF Sorted, ToSet
  <2> QED BY <1>2, <2>1, <2>2, <2>3 DEF In
<1>3. CASE At(S, k) # 0
  <2> DEFINE p == At(S, k)
  <2>1. p \in DOMAIN S /\ S[p].scope = k BY <1>3, LooseAt
  <2>2. ItemsOf(S, k) = S[p].items BY <1>3 DEF ItemsOf
  <2>3. \A i \in DOMAIN S : S[i].scope = k => p = i BY LooseAt
  <2>4. S[p].items \in Seq(Thing) /\ Sorted(S[p].items) BY <2>1, LooseFacts
  <2> HIDE DEF p
  <2>5. ToSet(S[p].items) \subseteq Thing BY <2>4 DEF ToSet
  <2>6. In(S, k) = ToSet(S[p].items) BY <2>2 DEF In
  <2>7. p # 0 BY <1>1, <2>1
  <2> QED BY <2>1, <2>2, <2>3, <2>4, <2>5, <2>6, <2>7 DEF p
<1> QED BY <1>2, <1>3

\* T is S with the items q in the session of k, touched at the time given.
Puts(S, T, k, q, at) ==
    /\ T \in Loose
    /\ \A l : In(T, l) = IF l = k THEN ToSet(q) ELSE In(S, l)
    /\ \A t \in DOMAIN T : \/ T[t].scope = k /\ T[t].items = q /\ T[t].at = at
                           \/ T[t].scope # k /\ \E s \in DOMAIN S : T[t] = S[s]

\* A map whose sessions are those of S but for the one of k.
LEMMA PutsAny ==
  ASSUME NEW S \in Loose, NEW T, NEW k \in Scopes, NEW q \in Seq(Thing), Sorted(q),
         NEW at \in Nat,
         T \in Seq(Session), ScopesUnique(T),
         \A t \in DOMAIN T : \/ T[t].scope = k /\ T[t].items = q /\ T[t].at = at
                             \/ T[t].scope # k /\ \E s \in DOMAIN S : T[t] = S[s],
         \A s \in DOMAIN S : S[s].scope # k => \E t \in DOMAIN T : T[t] = S[s],
         q = <<>> \/ \E t \in DOMAIN T : T[t].scope = k
  PROVE  Puts(S, T, k, q, at)
<1>1. T \in Loose
  <2>1. ASSUME NEW t \in DOMAIN T PROVE Sorted(T[t].items)
    <3>1. \A s \in DOMAIN S : Sorted(S[s].items) BY LooseFacts
    <3> QED BY <3>1
  <2> QED BY <2>1 DEF Loose
<1>2. ASSUME NEW l PROVE In(T, l) = IF l = k THEN ToSet(q) ELSE In(S, l)
  <2>1. CASE \E t \in DOMAIN T : T[t].scope = l
    <3>1. PICK t \in DOMAIN T : T[t].scope = l BY <2>1
    <3>2. In(T, l) = ToSet(T[t].items) BY <1>1, <3>1, InFacts
    <3>3. CASE l = k BY <3>1, <3>2, <3>3
    <3>4. CASE l # k
      <4>1. PICK s \in DOMAIN S : T[t] = S[s] BY <3>1, <3>4
      <4>2. In(S, l) = ToSet(S[s].items) BY <3>1, <4>1, InFacts
      <4> QED BY <3>2, <3>4, <4>1, <4>2
    <3> QED BY <3>3, <3>4
  <2>2. CASE \A t \in DOMAIN T : T[t].scope # l
    <3>1. In(T, l) = {} BY <1>1, <2>2, InFacts
    <3>2. CASE l = k
      <4>1. ToSet(<<>>) = {} BY DEF ToSet
      <4> QED BY <2>2, <3>1, <3>2, <4>1
    <3>3. CASE l # k
      <4>1. \A s \in DOMAIN S : S[s].scope # l BY <2>2, <3>3
      <4>2. In(S, l) = {} BY <4>1, InFacts
      <4> QED BY <3>1, <3>3, <4>2
    <3> QED BY <3>2, <3>3
  <2> QED BY <2>1, <2>2
<1> QED BY <1>1, <1>2 DEF Puts

\* Replacing the items of a session.
LEMMA PutsItems ==
  ASSUME NEW S \in Loose, NEW i \in DOMAIN S, NEW q \in Seq(Thing), Sorted(q), NEW at \in Nat
  PROVE  /\ Puts(S, [S EXCEPT ![i].items = q, ![i].at = at], S[i].scope, q, at)
         /\ Puts(S, [S EXCEPT ![i].items = q], S[i].scope, q, S[i].at)
<1>0. /\ S \in Seq(Session) /\ DOMAIN S = 1 .. Len(S) /\ ScopesUnique(S)
      /\ S[i] \in Session /\ S[i].scope \in Scopes /\ S[i].at \in Nat
  BY LooseFacts
<1>1. ASSUME NEW s \in Session, s.scope = S[i].scope, s.items = q
      PROVE  Puts(S, [S EXCEPT ![i] = s], S[i].scope, q, s.at)
  <2> DEFINE T == [S EXCEPT ![i] = s]
  <2>1. /\ T \in Seq(Session) /\ Len(T) = Len(S)
        /\ \A j \in 1 .. Len(S) : T[j] = IF j = i THEN s ELSE S[j]
    BY <1>0, ExceptSeq
  <2> HIDE DEF T
  <2>2. DOMAIN T = DOMAIN S BY <1>0, <2>1, LenProperties
  <2>3. \A j \in DOMAIN S : T[j].scope = S[j].scope BY <1>0, <1>1, <2>1
  <2>4. ScopesUnique(T) BY <1>0, <2>2, <2>3 DEF ScopesUnique
  <2>5. \A t \in DOMAIN T : t # i => T[t].scope # S[i].scope /\ T[t] = S[t]
    BY <1>0, <2>1, <2>2, <2>3 DEF ScopesUnique
  <2>6. T[i] = s /\ i \in DOMAIN T BY <1>0, <2>1, <2>2
  <2>7. \A t \in DOMAIN T : \/ T[t].scope = S[i].scope /\ T[t].items = q /\ T[t].at = s.at
                            \/ T[t].scope # S[i].scope /\ \E r \in DOMAIN S : T[t] = S[r]
    BY <1>1, <2>2, <2>5, <2>6
  <2>8. \A r \in DOMAIN S : S[r].scope # S[i].scope => \E t \in DOMAIN T : T[t] = S[r]
    BY <2>2, <2>5
  <2>9. \E t \in DOMAIN T : T[t].scope = S[i].scope BY <1>1, <2>6
  <2>10. s.at \in Nat BY DEF Session
  <2>11. Puts(S, T, S[i].scope, q, s.at)
    BY <1>0, <2>1, <2>4, <2>7, <2>8, <2>9, <2>10, PutsAny
  <2> QED BY <2>11 DEF T
<1>2. Puts(S, [S EXCEPT ![i].items = q, ![i].at = at], S[i].scope, q, at)
  <2> DEFINE s == [S[i] EXCEPT !.items = q, !.at = at]
  <2>1. s \in Session /\ s.scope = S[i].scope /\ s.items = q /\ s.at = at
    BY <1>0 DEF Session
  <2>2. [S EXCEPT ![i].items = q, ![i].at = at] = [S EXCEPT ![i] = s] OBVIOUS
  <2> HIDE DEF s
  <2> QED BY <1>1, <2>1, <2>2
<1>3. Puts(S, [S EXCEPT ![i].items = q], S[i].scope, q, S[i].at)
  <2> DEFINE s == [S[i] EXCEPT !.items = q]
  <2>1. s \in Session /\ s.scope = S[i].scope /\ s.items = q /\ s.at = S[i].at
    BY <1>0 DEF Session
  <2>2. [S EXCEPT ![i].items = q] = [S EXCEPT ![i] = s] OBVIOUS
  <2> HIDE DEF s
  <2> QED BY <1>1, <2>1, <2>2
<1> QED BY <1>2, <1>3

\* Dropping a session.
LEMMA PutsNone ==
  ASSUME NEW S \in Loose, NEW i \in DOMAIN S
  PROVE  /\ Puts(S, RemoveAt(S, i), S[i].scope, <<>>, S[i].at)
         /\ \A t \in DOMAIN RemoveAt(S, i) :
               /\ RemoveAt(S, i)[t].scope # S[i].scope
               /\ \E s \in DOMAIN S : RemoveAt(S, i)[t] = S[s]
         /\ \A s \in DOMAIN S : s # i => \E t \in DOMAIN RemoveAt(S, i) : RemoveAt(S, i)[t] = S[s]
<1> DEFINE T == RemoveAt(S, i)
<1>0. /\ S \in Seq(Session) /\ DOMAIN S = 1 .. Len(S) /\ Len(S) \in Nat /\ ScopesUnique(S)
      /\ S[i].scope \in Scopes /\ S[i].at \in Nat
  BY LooseFacts
<1>1. /\ T \in Seq(Session) /\ Len(T) = Len(S) - 1
      /\ \A j \in 1 .. Len(S) - 1 : T[j] = IF j < i THEN S[j] ELSE S[j + 1]
  BY <1>0, Removed
<1> HIDE DEF T
<1>2. DOMAIN T = 1 .. Len(T) BY <1>1, LenProperties
<1> DEFINE place(n) == IF n < i THEN n ELSE n + 1
<1>3. \A t \in DOMAIN T : /\ place(t) \in DOMAIN S /\ T[t] = S[place(t)] /\ place(t) # i
                          /\ t \in Nat
  BY <1>0, <1>1, <1>2
<1>4. \A s \in DOMAIN S : s # i => \E t \in DOMAIN T : T[t] = S[s]
  <2> SUFFICES ASSUME NEW s \in DOMAIN S, s # i PROVE \E t \in DOMAIN T : T[t] = S[s]
    OBVIOUS
  <2>1. CASE s < i
    <3>1. s \in 1 .. Len(S) - 1 BY <1>0, <2>1
    <3>2. T[s] = S[s] /\ s \in DOMAIN T BY <1>1, <1>2, <2>1, <3>1
    <3> QED BY <3>2
  <2>2. CASE s > i
    <3>1. s - 1 \in 1 .. Len(S) - 1 /\ ~(s - 1 < i) /\ (s - 1) + 1 = s BY <1>0, <2>2
    <3>2. T[s - 1] = S[s] /\ s - 1 \in DOMAIN T BY <1>1, <1>2, <3>1
    <3> QED BY <3>2
  <2> QED BY <1>0, <2>1, <2>2
<1> HIDE DEF place
<1>5. ScopesUnique(T)
  <2> SUFFICES ASSUME NEW a \in DOMAIN T, NEW b \in DOMAIN T, T[a].scope = T[b].scope
               PROVE  a = b
    BY DEF ScopesUnique
  <2>1. place(a) = place(b) BY <1>0, <1>3 DEF ScopesUnique
  <2> QED BY <1>0, <1>3, <2>1 DEF place
<1>6. \A t \in DOMAIN T : T[t].scope # S[i].scope /\ \E s \in DOMAIN S : T[t] = S[s]
  BY <1>0, <1>3 DEF ScopesUnique
<1>7. <<>> \in Seq(Thing) /\ Sorted(<<>>) BY DEF Sorted
<1>8. \A s \in DOMAIN S : S[s].scope # S[i].scope => \E t \in DOMAIN T : T[t] = S[s]
  BY <1>4
<1>9. Puts(S, T, S[i].scope, <<>>, S[i].at)
  BY <1>0, <1>1, <1>5, <1>6, <1>7, <1>8, PutsAny
<1> QED BY <1>4, <1>6, <1>9 DEF T

\* What deleteIfEmpty and its like leave.
LEMMA PutsSet ==
  ASSUME NEW S \in Loose, NEW i \in DOMAIN S, NEW q \in Seq(Thing), Sorted(q)
  PROVE  /\ Puts(S, SetItems(S, i, q), S[i].scope, q, S[i].at)
         /\ \A t \in DOMAIN SetItems(S, i, q) : SetItems(S, i, q)[t].items # <<>> \/
                 \E s \in DOMAIN S : s # i /\ SetItems(S, i, q)[t] = S[s]
         /\ \A s \in DOMAIN S : s # i => \E t \in DOMAIN SetItems(S, i, q) :
                 SetItems(S, i, q)[t] = S[s]
<1> DEFINE T == SetItems(S, i, q)
<1>1. CASE q = <<>>
  <2>1. T = RemoveAt(S, i) BY <1>1 DEF SetItems
  <2>2. \A t \in DOMAIN T : \E s \in DOMAIN S : s # i /\ T[t] = S[s] BY <2>1, PutsNone
  <2>3. Puts(S, T, S[i].scope, q, S[i].at) BY <1>1, <2>1, PutsNone
  <2>4. \A s \in DOMAIN S : s # i => \E t \in DOMAIN T : T[t] = S[s] BY <2>1, PutsNone
  <2> QED BY <2>2, <2>3, <2>4
<1>2. CASE q # <<>>
  <2>1. T = [S EXCEPT ![i].items = q] BY <1>2 DEF SetItems
  <2>2. S \in Seq(Session) /\ S[i] \in Session BY LooseFacts
  <2>3. S[i].at \in Nat BY LooseFacts
  <2>4. Puts(S, T, S[i].scope, q, S[i].at) BY <2>1, <2>3, PutsItems
  <2>5. DOMAIN T = DOMAIN S /\ T[i].items = q /\ \A s \in DOMAIN S : s # i => T[s] = S[s]
    BY <2>1, <2>2 DEF Session
  <2> HIDE DEF T
  <2>6. \A t \in DOMAIN T : T[t].items # <<>> \/ \E s \in DOMAIN S : s # i /\ T[t] = S[s]
    BY <1>2, <2>5
  <2>7. \A s \in DOMAIN S : s # i => \E t \in DOMAIN T : T[t] = S[s] BY <2>5
  <2> QED BY <2>4, <2>6, <2>7 DEF T
<1> QED BY <1>1, <1>2

\* Adding an item to a session.
LEMMA PutsPushed ==
  ASSUME NEW S \in Loose, NEW k \in Scopes, NEW item \in Thing, NEW at \in Nat,
         \A x \in In(S, k) : x.id < item.id
  PROVE  /\ Puts(S, Push(S, k, item, at), k, Append(ItemsOf(S, k), item), at)
         /\ ToSet(Append(ItemsOf(S, k), item)) = In(S, k) \cup {item}
         /\ Append(ItemsOf(S, k), item) # <<>>
<1> DEFINE L == ItemsOf(S, k)
           q == Append(L, item)
           T == Push(S, k, item, at)
<1>0. /\ S \in Seq(Session) /\ DOMAIN S = 1 .. Len(S) /\ Len(S) \in Nat /\ ScopesUnique(S)
  BY LooseFacts
<1>1. L \in Seq(Thing) /\ Sorted(L) BY InFacts
<1>2. \A x \in ToSet(L) : x.id < item.id BY DEF In
<1>3. q \in Seq(Thing) /\ Sorted(q) /\ ToSet(q) = ToSet(L) \cup {item} /\ Len(q) = Len(L) + 1
      /\ Len(L) \in Nat
  <2> HIDE DEF L
  <2> QED BY <1>1, <1>2, AppendSorted
<1>4. q # <<>>
  <2> HIDE DEF q, L
  <2>1. Len(q) # 0 BY <1>3
  <2> QED BY <2>1
<1>5. CASE At(S, k) = 0
  <2> DEFINE s == [scope |-> k, items |-> <<item>>, at |-> at]
             n == Len(S) + 1
  <2>1. T = Append(S, s) BY <1>5 DEF Push
  <2>2. L = <<>> /\ \A i \in DOMAIN S : S[i].scope # k BY <1>0, <1>5, InFacts
  <2>3. q = <<item>> BY <2>2
  <2>4. s \in Session /\ s.scope = k /\ s.items = q /\ s.at = at BY <2>3 DEF Session
  <2> HIDE DEF s, T, q, L
  <2>5. /\ T \in Seq(Session) /\ Len(T) = Len(S) + 1 /\ T[n] = s
        /\ \A i \in 1 .. Len(S) : T[i] = S[i]
    BY <1>0, <2>1, <2>4, AppendProperties
  <2>6. DOMAIN T = 1 .. Len(S) + 1 BY <2>5, LenProperties
  <2>7. /\ n \in DOMAIN T /\ \A t \in DOMAIN T : t # n => t \in DOMAIN S /\ T[t] = S[t]
        /\ \A t \in DOMAIN S : t \in DOMAIN T
    BY <1>0, <2>5, <2>6
  <2> HIDE DEF n
  <2>8. ScopesUnique(T)
    <3> SUFFICES ASSUME NEW a \in DOMAIN T, NEW b \in DOMAIN T, T[a].scope = T[b].scope
                 PROVE  a = b
      BY DEF ScopesUnique
    <3>1. CASE a = n /\ b = n BY <3>1
    <3>2. CASE a = n /\ b # n BY <2>2, <2>4, <2>5, <2>7, <3>2
    <3>3. CASE a # n /\ b = n BY <2>2, <2>4, <2>5, <2>7, <3>3
    <3>4. CASE a # n /\ b # n BY <1>0, <2>7, <3>4 DEF ScopesUnique
    <3> QED BY <3>1, <3>2, <3>3, <3>4
  <2>9. \A t \in DOMAIN T : \/ T[t].scope = k /\ T[t].items = q /\ T[t].at = at
                            \/ T[t].scope # k /\ \E i \in DOMAIN S : T[t] = S[i]
    BY <2>2, <2>4, <2>5, <2>7
  <2>10. \A i \in DOMAIN S : S[i].scope # k => \E t \in DOMAIN T : T[t] = S[i]
    BY <1>0, <2>5, <2>7
  <2>11. \E t \in DOMAIN T : T[t].scope = k BY <2>4, <2>5, <2>7
  <2>12. Puts(S, T, k, q, at)
    BY <1>3, <2>5, <2>8, <2>9, <2>10, <2>11, PutsAny
  <2> QED BY <1>3, <1>4, <2>12 DEF T, q, L, In
<1>6. CASE At(S, k) # 0
  <2> DEFINE i == At(S, k)
  <2>1. i \in DOMAIN S /\ S[i].scope = k /\ L = S[i].items BY <1>6, InFacts
  <2>2. T = [S EXCEPT ![i].items = q, ![i].at = at] BY <1>6, <2>1 DEF Push
  <2> HIDE DEF T, q, L, i
  <2>3. Puts(S, T, k, q, at) BY <1>3, <2>1, <2>2, PutsItems
  <2> QED BY <1>3, <1>4, <2>3 DEF T, q, L, In
<1> QED BY <1>5, <1>6

(***************************************************************************)
(* Items of a lane.                                                        *)
(***************************************************************************)
LEMMA ItemIsThing == Item \subseteq Thing /\ Seq(Item) \subseteq Seq(Thing)
<1>1. Item \subseteq Thing BY DEF Thing
<1> QED BY <1>1

LEMMA ItemsAreItems ==
  ASSUME NEW items \in Seq(Thing), ToSet(items) \subseteq Item
  PROVE  items \in Seq(Item)
<1>1. DOMAIN items = 1 .. Len(items) BY LenProperties
<1>2. \A i \in DOMAIN items : items[i] \in Item BY DEF ToSet
<1> QED BY <1>1, <1>2

LEMMA PlaceFacts ==
  ASSUME NEW items \in Seq(Thing), Sorted(items), NEW id
  PROVE  /\ PlaceOf(items, id) \in 0 .. Len(items)
         /\ PlaceOf(items, id) # 0 => PlaceOf(items, id) \in DOMAIN items
                                      /\ items[PlaceOf(items, id)].id = id
         /\ \A i \in DOMAIN items : items[i].id = id => PlaceOf(items, id) = i
         /\ PlaceOf(items, id) # 0 <=> \E x \in ToSet(items) : x.id = id
<1> DEFINE I == {i \in 1 .. Len(items) : items[i].id = id}
           p == PlaceOf(items, id)
<1>0. /\ Len(items) \in Nat /\ DOMAIN items = 1 .. Len(items)
      /\ \A i \in DOMAIN items : items[i].id \in Nat
  BY LenProperties DEF Thing, Item
<1>1. p = IF I = {} THEN 0 ELSE Min(I) BY DEF PlaceOf, SelectInSeq
<1> HIDE DEF p
<1>2. CASE I = {}
  <2>1. \A x \in ToSet(items) : x.id # id BY <1>0, <1>2 DEF ToSet
  <2> QED BY <1>0, <1>1, <1>2, <2>1 DEF p
<1>3. CASE I # {}
  <2>1. PICK i \in I : TRUE BY <1>3
  <2>2. ASSUME NEW j \in I PROVE j = i
    <3>1. ~(items[i].id < items[j].id) /\ ~(items[j].id < items[i].id) BY <1>0
    <3>2. i \in DOMAIN items /\ j \in DOMAIN items BY <1>0
    <3>3. ~(i < j) /\ ~(j < i) BY <3>1, <3>2 DEF Sorted
    <3> QED BY <3>3
  <2>3. I = {i} BY <2>1, <2>2
  <2>4. Min(I) = i
    <3>1. \A x \in I : x <= i /\ i <= x BY <1>0, <2>1, <2>3
    <3> HIDE DEF I
    <3>2. \E x \in I : \A y \in I : x <= y BY <2>1, <3>1
    <3>3. Min(I) \in I BY <3>2 DEF Min
    <3> QED BY <2>3, <3>3
  <2>5. p = i BY <1>1, <1>3, <2>4
  <2>6. i \in 1 .. Len(items) /\ items[i].id = id BY <2>1
  <2>7. \A j \in DOMAIN items : items[j].id = id => i = j BY <1>0, <2>2
  <2>8. items[i] \in ToSet(items) BY <1>0, <2>6 DEF ToSet
  <2> HIDE DEF I
  <2> QED BY <1>0, <2>5, <2>6, <2>7, <2>8 DEF p
<1> QED BY <1>2, <1>3

LEMMA RestatedFacts ==
  ASSUME NEW x \in Item, NEW id, NEW status \in Statuses \cup {"expired"}, NEW at \in Nat
  PROVE  LET y == Restated(x, id, status, at) IN
         /\ y \in Item /\ y.id = x.id /\ y.content = x.content /\ y.size = x.size
         /\ y.exp = x.exp
         /\ x.id = id => y.status = status
         /\ x.id # id => y = x
BY DEF Restated, Item

LEMMA RestatedEntry ==
  ASSUME NEW x \in Entry, NEW id, NEW status \in Statuses \cup {"expired"}, now \in Nat
  PROVE  LET y == Restated(x, id, status, now) IN
         /\ y \in Entry /\ Same(y, x)
         /\ x.id = id => y.status = status
         /\ x.id # id => y = x
<1> DEFINE y == Restated(x, id, status, now)
<1>1. x \in Item /\ x.at <= now BY DEF Entry
<1>2. /\ y \in Item /\ y.id = x.id /\ y.content = x.content /\ y.size = x.size
      /\ y.exp = x.exp
      /\ x.id = id => y.status = status
      /\ x.id # id => y = x
  BY <1>1, RestatedFacts
<1>3. y.at <= now
  <2>1. CASE x.id = id
    <3>1. y = [x EXCEPT !.status = status, !.at = now] BY <2>1 DEF Restated
    <3>2. y.at = now BY <1>1, <3>1 DEF Item
    <3> QED BY <3>2
  <2>2. CASE x.id # id BY <1>1, <1>2, <2>2
  <2> QED BY <2>1, <2>2
<1> HIDE DEF y
<1> QED BY <1>2, <1>3 DEF Same, Entry, y

LEMMA StatusFacts ==
  ASSUME NEW items \in Seq(Item), Sorted(items), NEW id,
         NEW status \in Statuses \cup {"expired"}, NEW at \in Nat
  PROVE  /\ SetStatus(items, id, status, at) \in Seq(Item)
         /\ Sorted(SetStatus(items, id, status, at))
         /\ Len(SetStatus(items, id, status, at)) = Len(items)
         /\ ToSet(SetStatus(items, id, status, at)) =
              RestatedAll(ToSet(items), id, status, at)
<1> DEFINE p == PlaceOf(items, id)
           q == SetStatus(items, id, status, at)
           f(x) == Restated(x, id, status, at)
<1>0. /\ items \in Seq(Thing) /\ Len(items) \in Nat /\ DOMAIN items = 1 .. Len(items)
      /\ \A i \in DOMAIN items : items[i] \in Item
  BY ItemIsThing, LenProperties
<1>1. /\ p # 0 => p \in DOMAIN items /\ items[p].id = id
      /\ \A i \in DOMAIN items : items[i].id = id => p = i
      /\ 0 \notin DOMAIN items
  BY <1>0, PlaceFacts
<1>2. q = [items EXCEPT ![p].status = status, ![p].at = at] BY DEF SetStatus
<1>3. DOMAIN q = DOMAIN items /\ \A i \in DOMAIN items : q[i] = f(items[i])
  <2> HIDE DEF p, q
  <2>1. DOMAIN q = DOMAIN items BY <1>2
  <2>2. ASSUME NEW i \in DOMAIN items PROVE q[i] = f(items[i])
    <3>1. CASE i = p
      <4>1. q[i] = [items[i] EXCEPT !.status = status, !.at = at] BY <1>2, <3>1
      <4> QED BY <1>1, <3>1, <4>1 DEF Restated
    <3>2. CASE i # p
      <4>1. q[i] = items[i] BY <1>2, <3>2
      <4> QED BY <1>1, <3>2, <4>1 DEF Restated
    <3> QED BY <3>1, <3>2
  <2> QED BY <2>1, <2>2
<1>4. \A i \in DOMAIN items : f(items[i]) \in Item /\ f(items[i]).id = items[i].id
  <2> SUFFICES ASSUME NEW i \in DOMAIN items
               PROVE  f(items[i]) \in Item /\ f(items[i]).id = items[i].id
    OBVIOUS
  <2>1. items[i] \in Item BY <1>0
  <2> QED BY <2>1, RestatedFacts
<1> HIDE DEF q, f
<1>5. q \in Seq(Item) /\ Len(q) = Len(items)
  <2>1. \A i \in 1 .. Len(items) : q[i] \in Item BY <1>0, <1>3, <1>4
  <2>2. q = [i \in 1 .. Len(items) |-> q[i]]
    <3>1. q \in [DOMAIN items -> Item]
      <4>1. q = [items EXCEPT ![p].status = status, ![p].at = at] BY <1>2
      <4>2. q = [i \in DOMAIN items |-> q[i]]
        <5> HIDE DEF p
        <5>1. \E g : q = [i \in DOMAIN items |-> g[i]]
          <6> DEFINE g == [i \in DOMAIN items |-> q[i]]
          <6>1. [items EXCEPT ![p].status = status, ![p].at = at] =
                [i \in DOMAIN items |-> [items EXCEPT ![p].status = status, ![p].at = at][i]]
            OBVIOUS
          <6> QED BY <4>1, <6>1
        <5> QED BY <5>1
      <4> QED BY <1>0, <2>1, <4>2
    <3> QED BY <1>0, <3>1
  <2>3. [i \in 1 .. Len(items) |-> q[i]] \in [1 .. Len(items) -> Item] BY <2>1
  <2> QED BY <1>0, <2>2, <2>3
<1>6. Sorted(q)
  <2> SUFFICES ASSUME NEW i \in DOMAIN q, NEW j \in DOMAIN q, i < j PROVE q[i].id < q[j].id
    BY DEF Sorted
  <2>1. items[i].id < items[j].id BY <1>3 DEF Sorted
  <2> QED BY <1>3, <1>4, <2>1
<1>7. ToSet(q) = {f(x) : x \in ToSet(items)}
  <2>1. ASSUME NEW y \in ToSet(q) PROVE \E x \in ToSet(items) : y = f(x)
    <3>1. PICK i \in DOMAIN q : q[i] = y BY DEF ToSet
    <3>2. items[i] \in ToSet(items) BY <1>3, <3>1 DEF ToSet
    <3> QED BY <1>3, <3>1, <3>2
  <2>2. ASSUME NEW x \in ToSet(items) PROVE f(x) \in ToSet(q)
    <3>1. PICK i \in DOMAIN items : items[i] = x BY DEF ToSet
    <3>2. i \in DOMAIN q /\ q[i] = f(x) BY <1>3, <3>1
    <3> QED BY <3>2 DEF ToSet
  <2> QED BY <2>1, <2>2
<1> QED BY <1>5, <1>6, <1>7 DEF q, f, RestatedAll

(***************************************************************************)
(* The replay.                                                             *)
(***************************************************************************)
\* c[n] is what the first n rows give back.
Replays(rows, c) ==
    /\ c[0] = EmptyStore
    /\ \A i \in 1 .. Len(rows) : c[i] = ApplyRow(c[i - 1], rows[i])

LEMMA ReplayRuns ==
  ASSUME NEW X, NEW rows \in Seq(X)
  PROVE  \E c : Replays(rows, c) /\ Replay(rows) = c[Len(rows)]
<1> DEFINE Step(y, i) == ApplyRow(y, rows[i])
           Is(n, f) == f = [i \in 0 .. n |-> IF i = 0 THEN EmptyStore ELSE Step(f[i - 1], i)]
           T == {n \in Nat : \E f : Is(n, f)}
           c == CHOOSE f : Is(Len(rows), f)
<1>0. Len(rows) \in Nat BY LenProperties
<1>1. 0 \in T
  <2>1. Is(0, [i \in 0 .. 0 |-> EmptyStore]) OBVIOUS
  <2> QED BY <2>1
<1>2. ASSUME NEW n \in Nat, n \in T PROVE n + 1 \in T
  <2>1. PICK f : Is(n, f) BY <1>2
  <2> HIDE DEF Step
  <2>2. PICK g : Longer(g, f, n, Step(f[n], n + 1)) BY LongerExists
  <2>3. ASSUME NEW i \in 0 .. n + 1 PROVE g[i] = IF i = 0 THEN EmptyStore ELSE Step(g[i - 1], i)
    <3>1. CASE i \in 0 .. n
      <4>1. f[i] = IF i = 0 THEN EmptyStore ELSE Step(f[i - 1], i) BY <2>1, <3>1
      <4> QED BY <2>2, <3>1, <4>1 DEF Longer
    <3>2. CASE i = n + 1 BY <2>2, <3>2 DEF Longer
    <3> QED BY <3>1, <3>2
  <2>4. Is(n + 1, g) BY <2>2, <2>3, Zenon DEF Longer
  <2> QED BY <2>4
<1>3. Len(rows) \in T
  <2> HIDE DEF T
  <2> QED BY <1>0, <1>1, <1>2, SetInduction
<1>4. Is(Len(rows), c)
  <2>1. \E f : Is(Len(rows), f) BY <1>3
  <2> HIDE DEF Is
  <2> QED BY <2>1
<1>5. Replay(rows) = c[Len(rows)] BY DEF Replay, Fold
<1> HIDE DEF c
<1>6. ASSUME NEW i \in 0 .. Len(rows) PROVE c[i] = IF i = 0 THEN EmptyStore ELSE Step(c[i - 1], i)
  <2> DEFINE F(l) == IF l = 0 THEN EmptyStore ELSE Step(c[l - 1], l)
  <2>1. c = [l \in 0 .. Len(rows) |-> F(l)] BY <1>4
  <2> HIDE DEF F
  <2>2. c[i] = F(i) BY <2>1
  <2> QED BY <2>2 DEF F
<1>7. c[0] = EmptyStore BY <1>0, <1>6
<1>8. ASSUME NEW i \in 1 .. Len(rows) PROVE c[i] = Step(c[i - 1], i)
  BY <1>0, <1>6
<1>9. Replays(rows, c) BY <1>7, <1>8 DEF Replays
<1> QED BY <1>5, <1>9

\* Rows that begin alike give back the same so far.
LEMMA ReplaysAgree ==
  ASSUME NEW r, NEW s, NEW c, NEW d, Replays(r, c), Replays(s, d),
         Len(r) \in Nat, Len(s) \in Nat, NEW n \in Nat, n <= Len(r), n <= Len(s),
         \A i \in 1 .. n : r[i] = s[i]
  PROVE  c[n] = d[n]
<1> DEFINE T == {i \in Nat : c[i] = d[i]}
<1>1. 0 \in T BY DEF Replays
<1>2. ASSUME NEW i \in 0 .. n - 1, i \in T PROVE i + 1 \in T
  <2>1. i + 1 \in 1 .. Len(r) /\ i + 1 \in 1 .. Len(s) /\ (i + 1) - 1 = i /\ i + 1 \in 1 .. n
    OBVIOUS
  <2>2. c[i + 1] = ApplyRow(c[i], r[i + 1]) /\ d[i + 1] = ApplyRow(d[i], s[i + 1])
    BY <2>1 DEF Replays
  <2> QED BY <1>2, <2>1, <2>2
<1>3. \A i \in 0 .. n : i \in T
  <2> HIDE DEF T
  <2> QED BY <1>1, <1>2, UpTo
<1> QED BY <1>3

LEMMA ReplayOfNone == Replay(<<>>) = EmptyStore
<1>1. <<>> \in Seq(Rows) /\ Len(<<>>) = 0 OBVIOUS
<1>2. PICK c : Replays(<<>>, c) /\ Replay(<<>>) = c[Len(<<>>)] BY <1>1, ReplayRuns
<1> QED BY <1>1, <1>2 DEF Replays

LEMMA ReplayAppended ==
  ASSUME NEW X, NEW rows \in Seq(X), NEW row \in X
  PROVE  Replay(Append(rows, row)) = ApplyRow(Replay(rows), row)
<1> DEFINE s == Append(rows, row)
           n == Len(rows)
<1>1. /\ s \in Seq(X) /\ Len(s) = n + 1 /\ n \in Nat /\ s[n + 1] = row
      /\ \A i \in 1 .. n : s[i] = rows[i]
  BY AppendProperties, LenProperties
<1> HIDE DEF s
<1>2. PICK c : Replays(rows, c) /\ Replay(rows) = c[n] BY ReplayRuns
<1>3. PICK d : Replays(s, d) /\ Replay(s) = d[Len(s)] BY <1>1, ReplayRuns
<1> HIDE DEF n
<1>4. c[n] = d[n]
  <2>1. n <= Len(rows) /\ n <= Len(s) /\ Len(rows) \in Nat /\ Len(s) \in Nat BY <1>1 DEF n
  <2> QED BY <1>1, <1>2, <1>3, <2>1, ReplaysAgree
<1>5. n + 1 \in 1 .. Len(s) /\ (n + 1) - 1 = n BY <1>1
<1>6. d[n + 1] = ApplyRow(d[n], s[n + 1]) BY <1>3, <1>5 DEF Replays
<1> QED BY <1>1, <1>2, <1>3, <1>4, <1>6 DEF s

LEMMA NoRowApplies ==
  ASSUME NEW st
  PROVE  ApplyRow(st, Fragment) = st /\ ApplyRow(st, Garbage) = st
BY DEF ApplyRow, Fragment, Garbage

\* A row that is added shares the line of a fragment, and is lost.
LEMMA AddRowFacts ==
  ASSUME NEW rows \in Seq(Rows), NEW row \in Rows
  PROVE  /\ AddRow(rows, row) \in Seq(Rows)
         /\ Replay(AddRow(rows, row)) =
              IF Torn(rows) THEN Replay(rows) ELSE ApplyRow(Replay(rows), row)
         /\ row # Fragment => ~Torn(AddRow(rows, row))
         /\ ~Torn(rows) => AddRow(rows, row) = Append(rows, row)
<1>0. Fragment \in Rows /\ Garbage \in Rows /\ Garbage # Fragment
  BY DEF Rows, Fragment, Garbage
<1>1. ASSUME NEW s \in Seq(Rows), NEW r \in Rows
      PROVE  Append(s, r) \in Seq(Rows) /\ Append(s, r) # <<>> /\ Last(Append(s, r)) = r
  <2> DEFINE q == Append(s, r)
  <2>1. q \in Seq(Rows) /\ Len(q) = Len(s) + 1 /\ q[Len(s) + 1] = r /\ Len(s) \in Nat
    BY AppendProperties, LenProperties
  <2> HIDE DEF q
  <2>2. Len(q) # 0 /\ q[Len(q)] = r BY <2>1
  <2>3. q # <<>> BY <2>2
  <2> QED BY <2>1, <2>2, <2>3 DEF q, Last
<1>2. CASE ~Torn(rows)
  <2>1. AddRow(rows, row) = Append(rows, row) BY <1>2 DEF AddRow, Torn
  <2>2. Replay(Append(rows, row)) = ApplyRow(Replay(rows), row) BY ReplayAppended
  <2> QED BY <1>1, <1>2, <2>1, <2>2 DEF Torn
<1>3. CASE Torn(rows)
  <2> DEFINE f == Front(rows)
  <2>1. rows # <<>> /\ Last(rows) = Fragment BY <1>3 DEF Torn
  <2>2. Len(rows) \in Nat \ {0} BY <2>1, EmptySeq
  <2>3. f = SubSeq(rows, 1, Len(rows) - 1) BY DEF Front
  <2>4. f \in Seq(Rows) /\ Len(f) = Len(rows) - 1 /\ \A i \in 1 .. Len(rows) - 1 : f[i] = rows[i]
    <3> DEFINE m == Len(rows) - 1
    <3>1. m \in Int /\ m \in Nat /\ m - 1 + 1 = m /\ \A i \in 1 .. m : rows[i] \in Rows
      BY <2>2
    <3> HIDE DEF m
    <3>2. /\ SubSeq(rows, 1, m) \in Seq(Rows) /\ Len(SubSeq(rows, 1, m)) = m
          /\ \A i \in 1 .. m : SubSeq(rows, 1, m)[i] = rows[i]
      BY <3>1
    <3> QED BY <2>3, <3>2 DEF m
  <2> HIDE DEF f
  <2>5. rows = Append(f, Fragment)
    <3> DEFINE q == Append(f, Fragment)
    <3>1. /\ q \in Seq(Rows) /\ Len(q) = Len(f) + 1 /\ q[Len(f) + 1] = Fragment
          /\ \A i \in 1 .. Len(f) : q[i] = f[i]
      BY <1>0, <2>4, AppendProperties
    <3> HIDE DEF q
    <3>2. rows[Len(rows)] = Fragment BY <2>1 DEF Last
    <3>3. Len(q) = Len(rows) BY <2>2, <2>4, <3>1
    <3>4. ASSUME NEW i \in 1 .. Len(rows) PROVE q[i] = rows[i]
      <4>1. CASE i = Len(rows) BY <2>2, <2>4, <3>1, <3>2, <4>1
      <4>2. CASE i # Len(rows)
        <5>1. i \in 1 .. Len(rows) - 1 BY <2>2, <4>2
        <5> QED BY <2>4, <3>1, <5>1
      <4> QED BY <4>1, <4>2
    <3>5. q = rows BY <3>1, <3>3, <3>4, SeqEqual
    <3> QED BY <3>5 DEF q
  <2>6. Replay(rows) = ApplyRow(Replay(f), Fragment)
    <3>1. Replay(Append(f, Fragment)) = ApplyRow(Replay(f), Fragment)
      BY <1>0, <2>4, ReplayAppended
    <3> QED BY <2>5, <3>1
  <2>7. Replay(Append(f, Garbage)) = ApplyRow(Replay(f), Garbage)
    BY <1>0, <2>4, ReplayAppended
  <2>8. Replay(rows) = Replay(f) /\ Replay(Append(f, Garbage)) = Replay(f)
    BY <2>6, <2>7, NoRowApplies
  <2>9. AddRow(rows, row) = IF row = Fragment THEN rows ELSE Append(f, Garbage)
    BY <2>1 DEF AddRow, f
  <2>10. Append(f, Garbage) \in Seq(Rows) /\ Last(Append(f, Garbage)) = Garbage
    BY <1>0, <1>1, <2>4
  <2>11. Replay(AddRow(rows, row)) = Replay(rows) BY <2>8, <2>9
  <2>12. AddRow(rows, row) \in Seq(Rows) BY <2>9, <2>10
  <2>13. row # Fragment => ~Torn(AddRow(rows, row)) BY <1>0, <2>9, <2>10 DEF Torn
  <2> QED BY <1>3, <2>11, <2>12, <2>13
<1> QED BY <1>2, <1>3

(***************************************************************************)
(* A map that holds no more than another.                                  *)
(***************************************************************************)
LEMMA FadesEcho ==
  ASSUME NEW S, NEW T, Fades(T, S)
  PROVE  Echoes(T, S)
BY DEF Fades, Echoes

LEMMA PendingIsNotExpired == "expired" \notin Pending
BY DEF Pending

LEMMA FadesItself ==
  ASSUME NEW S, NEW n, NEW a, Side(S, n, a)
  PROVE  Fades(S, S)
BY DEF Side, Fades, Same

LEMMA FadesOn ==
  ASSUME NEW S, NEW T, NEW U, Fades(T, S), Fades(U, T)
  PROVE  Fades(U, S)
<1> SUFFICES ASSUME NEW k \in Scopes, NEW x \in In(U, k)
             PROVE  x \in Entry /\ \E y \in In(S, k) : Same(x, y) /\ x.status \in {y.status, "expired"}
  BY DEF Fades
<1>1. PICK y \in In(T, k) : x \in Entry /\ Same(x, y) /\ x.status \in {y.status, "expired"}
  BY DEF Fades
<1>2. PICK z \in In(S, k) : Same(y, z) /\ y.status \in {z.status, "expired"} BY DEF Fades
<1>3. Same(x, z) BY <1>1, <1>2 DEF Same
<1> QED BY <1>1, <1>2, <1>3

LEMMA EchoSide ==
  ASSUME NEW S, NEW T, NEW n, NEW a, Side(S, n, a), T \in Loose, Touched(T), Echoes(T, S)
  PROVE  Side(T, n, a)
<1>1. ASSUME NEW k \in Scopes, NEW x \in In(T, k)
      PROVE  x \in Entry /\ x.id \in 1 .. n - 1 /\ x.content <= a /\ x.size <= MaxContent
  <2>1. PICK y \in In(S, k) : Same(x, y) /\ x \in Entry BY DEF Echoes
  <2>2. y.id \in 1 .. n - 1 /\ y.content <= a /\ y.size <= MaxContent BY DEF Side
  <2> QED BY <2>1, <2>2 DEF Same
<1> QED BY <1>1 DEF Side

LEMMA EchoPaired ==
  ASSUME NEW S, NEW R, NEW T, NEW U, Paired(S, R), Echoes(T, S), Echoes(U, R)
  PROVE  Paired(T, U)
<1> SUFFICES ASSUME NEW k \in Scopes, NEW l \in Scopes, NEW x \in In(T, k), NEW y \in In(U, l),
                    x.id = y.id \/ x.content = y.content
             PROVE  k = l /\ x.id = y.id /\ x.content = y.content
  BY DEF Paired
<1>1. PICK v \in In(S, k) : Same(x, v) BY DEF Echoes
<1>2. PICK w \in In(R, l) : Same(y, w) BY DEF Echoes
<1>3. v.id = w.id \/ v.content = w.content BY <1>1, <1>2 DEF Same
<1>4. k = l /\ v.id = w.id /\ v.content = w.content BY <1>3 DEF Paired
<1> QED BY <1>1, <1>2, <1>4 DEF Same

LEMMA FadesFirm ==
  ASSUME NEW S, NEW T, NEW D, Firm(S, D), Fades(T, S)
  PROVE  Firm(T, D)
<1> SUFFICES ASSUME NEW k \in Scopes, NEW x \in In(T, k), x.content \in D
             PROVE  x.status \notin Pending
  BY DEF Firm
<1>1. PICK y \in In(S, k) : Same(x, y) /\ x.status \in {y.status, "expired"} BY DEF Fades
<1>2. y.content \in D BY <1>1 DEF Same
<1>3. y.status \notin Pending BY <1>2 DEF Firm
<1> QED BY <1>1, <1>3, PendingIsNotExpired

\* T is S without items of one session.
LEMMA FadesPuts ==
  ASSUME NEW S, NEW n, NEW a, Side(S, n, a), NEW T, NEW k, NEW q, NEW at, Puts(S, T, k, q, at),
         at <= now,
         \A x \in ToSet(q) : x \in Entry /\ \E y \in In(S, k) :
                               Same(x, y) /\ x.status \in {y.status, "expired"}
  PROVE  Fades(T, S) /\ Touched(T) /\ T \in Loose /\ Side(T, n, a)
<1>1. T \in Loose BY DEF Puts
<1>2. Touched(T) BY DEF Puts, Touched, Side
<1>3. Fades(T, S)
  <2> SUFFICES ASSUME NEW l \in Scopes, NEW x \in In(T, l)
               PROVE  x \in Entry /\ \E y \in In(S, l) :
                        Same(x, y) /\ x.status \in {y.status, "expired"}
    BY DEF Fades
  <2>1. CASE l = k
    <3>1. x \in ToSet(q) BY <2>1 DEF Puts
    <3> QED BY <2>1, <3>1
  <2>2. CASE l # k
    <3>1. x \in In(S, l) BY <2>2 DEF Puts
    <3>2. x \in Entry BY <3>1 DEF Side
    <3> QED BY <3>1, <3>2 DEF Same
  <2> QED BY <2>1, <2>2
<1>4. Side(T, n, a) BY <1>1, <1>2, <1>3, FadesEcho, EchoSide
<1> QED BY <1>1, <1>2, <1>3, <1>4

(***************************************************************************)
(* What a row does to the map of the replay.                               *)
(***************************************************************************)
LEMMA WithoutFacts ==
  ASSUME NEW items \in Seq(Thing), Sorted(items), NEW id
  PROVE  /\ Without(items, id) \in Seq(Thing) /\ Sorted(Without(items, id))
         /\ Len(Without(items, id)) <= Len(items)
         /\ ToSet(Without(items, id)) = {x \in ToSet(items) : x.id # id}
<1> DEFINE P == {x \in ToSet(items) : x.id # id}
<1>1. Without(items, id) = Filter(items, P) BY DEF Without
<1>2. ToSet(items) \cap P = P OBVIOUS
<1> HIDE DEF P
<1>3. /\ Filter(items, P) \in Seq(Thing) /\ Sorted(Filter(items, P))
      /\ Len(Filter(items, P)) <= Len(items)
      /\ ToSet(Filter(items, P)) = ToSet(items) \cap P
  BY FilterFacts
<1> QED BY <1>1, <1>2, <1>3 DEF P

LEMMA PurgeRowFacts ==
  ASSUME NEW st, st.sessions \in Map, Touched(st.sessions), NEW k \in Scopes, NEW id
  PROVE  LET T == ApplyRow(st, PurgeRow(k, id)) IN
         /\ T.nextId = st.nextId /\ T.sessions \in Map /\ Touched(T.sessions)
         /\ Holding(st.sessions, T.sessions, k, Spares(In(st.sessions, k), id))
<1> DEFINE S == st.sessions
           T == ApplyRow(st, PurgeRow(k, id))
           L == ItemsOf(S, k)
           q == IF id = Whole THEN <<>> ELSE Without(L, id)
           i == At(S, k)
<1>1. T = IF i = 0 THEN st ELSE [sessions |-> SetItems(S, i, q), nextId |-> st.nextId]
  BY DEF ApplyRow, ApplyPurge, PurgeRow
<1>2. S \in Loose /\ \A j \in DOMAIN S : S[j].items # <<>> BY MapIsLoose
<1>3. L \in Seq(Thing) /\ Sorted(L) /\ In(S, k) = ToSet(L) BY <1>2, InFacts DEF In
<1>4. q \in Seq(Thing) /\ Sorted(q) /\ ToSet(q) = Spares(In(S, k), id)
  <2>1. <<>> \in Seq(Thing) /\ Sorted(<<>>) /\ ToSet(<<>>) = {} BY DEF Sorted, ToSet
  <2>2. /\ Without(L, id) \in Seq(Thing) /\ Sorted(Without(L, id))
        /\ ToSet(Without(L, id)) = {x \in ToSet(L) : x.id # id}
    BY <1>3, WithoutFacts
  <2> HIDE DEF L, S
  <2> QED BY <1>3, <2>1, <2>2 DEF Spares
<1>5. CASE i = 0
  <2>1. T = st BY <1>1, <1>5
  <2>2. In(S, k) = {}
    <3>1. 0 \notin DOMAIN S BY <1>2, LooseFacts
    <3> QED BY <1>2, <1>5, <3>1, InFacts
  <2>3. Spares(In(S, k), id) = {} BY <2>2 DEF Spares
  <2> QED BY <2>1, <2>2, <2>3 DEF Holding
<1>6. CASE i # 0
  <2>1. i \in DOMAIN S /\ S[i].scope = k BY <1>2, <1>6, LooseAt
  <2>2. T.sessions = SetItems(S, i, q) /\ T.nextId = st.nextId BY <1>1, <1>6
  <2> HIDE DEF T, q, i, L, S
  <2>3. /\ Puts(S, T.sessions, k, q, S[i].at)
        /\ \A t \in DOMAIN T.sessions : T.sessions[t].items # <<>> \/
                 \E s \in DOMAIN S : s # i /\ T.sessions[t] = S[s]
    BY <1>2, <1>4, <2>1, <2>2, PutsSet
  <2>4. T.sessions \in Map
    <3>1. T.sessions \in Loose BY <2>3 DEF Puts
    <3>2. \A t \in DOMAIN T.sessions : T.sessions[t].items # <<>> BY <1>2, <2>3
    <3> QED BY <3>1, <3>2, MapIsLoose
  <2>5. Touched(T.sessions) BY <2>1, <2>3 DEF Touched, Puts, S
  <2>6. \A l : In(T.sessions, l) = IF l = k THEN ToSet(q) ELSE In(S, l) BY <2>3 DEF Puts
  <2> QED BY <1>4, <2>2, <2>4, <2>5, <2>6 DEF S, T, Holding
<1> QED BY <1>5, <1>6

LEMMA MarkRowFacts ==
  ASSUME NEW st, st.sessions \in Map, Touched(st.sessions), now \in Nat, NEW k \in Scopes, NEW id,
         NEW status \in Statuses \cup {"expired"},
         \A x \in In(st.sessions, k) : x \in Item
  PROVE  LET T == ApplyRow(st, MarkRow(k, id, status)) IN
         /\ T.nextId = st.nextId /\ T.sessions \in Map /\ Touched(T.sessions)
         /\ Holding(st.sessions, T.sessions, k,
                    RestatedAll(In(st.sessions, k), id, status, now))
<1> DEFINE S == st.sessions
           T == ApplyRow(st, MarkRow(k, id, status))
           L == ItemsOf(S, k)
           q == SetStatus(L, id, status, now)
           i == At(S, k)
<1>2. S \in Loose /\ \A j \in DOMAIN S : S[j].items # <<>> BY MapIsLoose
<1>3. L \in Seq(Thing) /\ Sorted(L) /\ In(S, k) = ToSet(L) BY <1>2, InFacts DEF In
<1>4. CASE PlaceOf(L, id) = 0
  <2>1. T = st BY <1>4 DEF ApplyRow, ApplyMark, MarkRow
  <2>2. \A x \in In(S, k) : x.id # id
    <3> HIDE DEF L
    <3> QED BY <1>3, <1>4, PlaceFacts
  <2>3. \A x \in In(S, k) : Restated(x, id, status, now) = x BY <2>2 DEF Restated
  <2>4. In(S, k) = RestatedAll(In(S, k), id, status, now) BY <2>3 DEF RestatedAll
  <2> QED BY <2>1, <2>4 DEF Holding
<1>5. CASE PlaceOf(L, id) # 0
  <2>1. i \in DOMAIN S /\ S[i].scope = k /\ L = S[i].items
    <3>1. L # <<>>
      <4>1. ToSet(<<>>) = {} BY DEF ToSet
      <4> HIDE DEF L
      <4>2. \E x \in ToSet(L) : x.id = id BY <1>3, <1>5, PlaceFacts
      <4> QED BY <4>1, <4>2
    <3> QED BY <1>2, <3>1, InFacts
  <2>2. T = [sessions |-> [S EXCEPT ![i].items = SetStatus(S[i].items, id, status, now),
                                    ![i].at = now],
             nextId |-> st.nextId]
    BY <1>5 DEF ApplyRow, ApplyMark, MarkRow
  <2>3. T.sessions = [S EXCEPT ![i].items = q, ![i].at = now] /\ T.nextId = st.nextId
    <3> HIDE DEF T, S, i
    <3> QED BY <2>1, <2>2
  <2>4. /\ q \in Seq(Thing) /\ Sorted(q) /\ Len(q) = Len(L)
        /\ ToSet(q) = RestatedAll(ToSet(L), id, status, now)
    <3>1. L \in Seq(Item)
      <4> HIDE DEF L
      <4> QED BY <1>3, ItemsAreItems
    <3>2. Sorted(L) BY <1>3
    <3> HIDE DEF L
    <3>3. /\ SetStatus(L, id, status, now) \in Seq(Item)
          /\ Sorted(SetStatus(L, id, status, now))
          /\ Len(SetStatus(L, id, status, now)) = Len(L)
          /\ ToSet(SetStatus(L, id, status, now)) = RestatedAll(ToSet(L), id, status, now)
      BY <3>1, <3>2, StatusFacts
    <3> QED BY <3>3, ItemIsThing
  <2>5. q # <<>>
    <3> HIDE DEF q
    <3>1. L # <<>> BY <1>2, <2>1
    <3> HIDE DEF L
    <3>2. Len(L) # 0 BY <1>3, <3>1, EmptySeq
    <3>3. Len(q) # 0 BY <2>4, <3>2
    <3> QED BY <3>3
  <2> HIDE DEF T, q, i, L, S
  <2>6. Puts(S, T.sessions, k, q, now)
    <3> DEFINE U == [S EXCEPT ![i].items = q, ![i].at = now]
    <3>1. Puts(S, U, S[i].scope, q, now)
      <4>1. S \in Loose /\ i \in DOMAIN S /\ q \in Seq(Thing) /\ Sorted(q) /\ now \in Nat
        BY <1>2, <2>1, <2>4
      <4> QED BY <4>1, PutsItems, Zenon
    <3>2. T.sessions = U BY <2>3
    <3> HIDE DEF U
    <3> QED BY <2>1, <3>1, <3>2
  <2>7. T.sessions \in Map
    <3>1. T.sessions \in Loose BY <2>6 DEF Puts
    <3>2. \A t \in DOMAIN T.sessions : T.sessions[t].items # <<>> BY <1>2, <2>5, <2>6 DEF Puts
    <3> QED BY <3>1, <3>2, MapIsLoose
  <2>8. Touched(T.sessions) BY <2>6 DEF Touched, Puts, S
  <2>9. \A l : In(T.sessions, l) = IF l = k THEN ToSet(q) ELSE In(S, l) BY <2>6 DEF Puts
  <2> QED BY <1>3, <2>3, <2>4, <2>7, <2>8, <2>9 DEF S, T, Holding
<1> QED BY <1>4, <1>5

LEMMA AppendRowFacts ==
  ASSUME NEW st, st.sessions \in Map, Touched(st.sessions), now \in Nat, NEW k \in Scopes,
         NEW item \in Item, item.size <= MaxContent, item.at <= now,
         \A x \in In(st.sessions, k) : x.id < item.id
  PROVE  LET T == ApplyRow(st, AppendRow(k, item)) IN
         /\ T.nextId = IF item.id >= st.nextId THEN item.id + 1 ELSE st.nextId
         /\ T.sessions \in Map /\ Touched(T.sessions)
         /\ Holding(st.sessions, T.sessions, k, In(st.sessions, k) \cup {item})
<1> DEFINE S == st.sessions
           T == ApplyRow(st, AppendRow(k, item))
           q == Append(ItemsOf(S, k), item)
<1>1. T = [sessions |-> Push(S, k, item, item.at),
           nextId |-> IF item.id >= st.nextId THEN item.id + 1 ELSE st.nextId]
  BY DEF ApplyRow, ApplyAppend, AppendRow, WithinReplayBudget
<1>2. S \in Loose /\ \A j \in DOMAIN S : S[j].items # <<>> BY MapIsLoose
<1>3. item \in Thing /\ item.at \in Nat BY DEF Thing, Item
<1>9. /\ T.sessions = Push(S, k, item, item.at)
      /\ T.nextId = IF item.id >= st.nextId THEN item.id + 1 ELSE st.nextId
  <2> HIDE DEF T, S
  <2> QED BY <1>1
<1> HIDE DEF S
<1>4. /\ Puts(S, Push(S, k, item, item.at), k, q, item.at)
      /\ ToSet(q) = In(S, k) \cup {item} /\ q # <<>>
  BY <1>2, <1>3, PutsPushed DEF S
<1>5. T.sessions = Push(S, k, item, item.at) BY <1>9
<1> HIDE DEF T, q
<1>6. T.sessions \in Map
  <2>1. T.sessions \in Loose BY <1>4, <1>5 DEF Puts
  <2>2. \A t \in DOMAIN T.sessions : T.sessions[t].items # <<>> BY <1>2, <1>4, <1>5 DEF Puts
  <2> QED BY <2>1, <2>2, MapIsLoose
<1>7. Touched(T.sessions) BY <1>4, <1>5 DEF Touched, Puts, S
<1>8. \A l : In(T.sessions, l) = IF l = k THEN ToSet(q) ELSE In(S, l) BY <1>4, <1>5 DEF Puts
<1>10. \A l : In(T.sessions, l) = IF l = k THEN In(S, k) \cup {item} ELSE In(S, l)
  BY <1>4, <1>8
<1> QED BY <1>6, <1>7, <1>9, <1>10 DEF T, S, Holding

(***************************************************************************)
(* Transactions.                                                           *)
(***************************************************************************)
\* The rows by which a call journals that it sheds records.
ShedRows == {PurgeRow(k, id) : k \in Scopes, id \in Nat}
            \cup {MarkRow(k, id, "expired") : k \in Scopes, id \in Nat}

LEMMA SideWider ==
  ASSUME NEW S, NEW n \in Nat, NEW m \in Nat, n <= m, NEW a \in Nat, NEW c \in Nat, c <= a,
         Side(S, n, c)
  PROVE  Side(S, m, a)
<1> SUFFICES ASSUME NEW k \in Scopes, NEW x \in In(S, k)
             PROVE  x \in Entry /\ x.id \in 1 .. m - 1 /\ x.content <= a /\ x.size <= MaxContent
  BY DEF Side
<1>1. x \in Entry /\ x.id \in 1 .. n - 1 /\ x.content <= c /\ x.size <= MaxContent BY DEF Side
<1>2. x.content \in Nat
  <2>1. x.content \in 1 .. MaxAppends BY <1>1 DEF Item, Entry
  <2> QED BY <2>1, BudgetAssumption
<1> QED BY <1>1, <1>2

LEMMA KeptIsSound ==
  ASSUME NEW t, NEW b, NEW a, NEW c, NEW D, NEW w, Kept(t, b, a, c, D, w)
  PROVE  Sound(t.st, t.rows, a, D, w)
<1>1. FileOK(t.rows, b, c, D, w) /\ StoreOK(t.st, a, D, w) BY DEF Kept, Match
<1>2. Side(Replay(t.rows).sessions, Replay(t.rows).nextId, a)
  <2> DEFINE R == Replay(t.rows)
  <2>1. R.nextId \in Nat /\ Side(R.sessions, R.nextId, c) BY <1>1 DEF FileOK
  <2> HIDE DEF R
  <2>2. R.nextId <= R.nextId BY <2>1
  <2>3. Side(R.sessions, R.nextId, a) BY <2>1, <2>2, SideWider DEF Kept
  <2> QED BY <2>3 DEF R
<1>3. FileOK(t.rows, t.st.nextId, a, D, w)
  <2>1. Replay(t.rows).nextId <= t.st.nextId BY <1>1 DEF Kept, FileOK, StoreOK
  <2> QED BY <1>1, <1>2, <2>1 DEF FileOK
<1> QED BY <1>1, <1>3 DEF Kept, Match, Sound

\* The store sheds.
LEMMA MatchStore ==
  ASSUME NEW st, NEW rows, NEW b, NEW a, NEW c, NEW D, NEW w, Match(st, rows, b, a, c, D, w),
         NEW T, T \in Loose, Touched(T), Short(T), Fades(T, st.sessions)
  PROVE  Match([sessions |-> T, nextId |-> st.nextId], rows, b, a, c, D, w)
<1> DEFINE S == st.sessions
           R == Replay(rows).sessions
           n == st.nextId
<1>1. /\ StoreOK(st, a, D, w) /\ FileOK(rows, b, c, D, w) /\ Paired(S, R) /\ (w => ~Torn(rows))
  BY DEF Match
<1>2. n \in Nat \ {0} /\ Side(S, n, a) /\ Paired(S, S) /\ (w => Firm(S, D))
  BY <1>1 DEF StoreOK
<1>3. Fades(R, R) BY <1>1, FadesItself DEF FileOK
<1> HIDE DEF S, R, n
<1>4. Fades(T, S) BY DEF S
<1>5. Side(T, n, a) BY <1>2, <1>4, FadesEcho, EchoSide
<1>6. Paired(T, T) BY <1>2, <1>4, FadesEcho, EchoPaired
<1>7. Paired(T, R) BY <1>1, <1>3, <1>4, FadesEcho, EchoPaired
<1>8. w => Firm(T, D) BY <1>2, <1>4, FadesFirm
<1> DEFINE u == [sessions |-> T, nextId |-> st.nextId]
<1>9. u.sessions = T /\ u.nextId = n BY DEF n
<1> HIDE DEF u
<1>10. StoreOK(u, a, D, w) BY <1>2, <1>5, <1>6, <1>8, <1>9 DEF StoreOK
<1>11. Match(u, rows, b, a, c, D, w) BY <1>1, <1>7, <1>9, <1>10 DEF Match, R
<1> QED BY <1>11 DEF u

LEMMA ShedRowFacts ==
  ASSUME NEW st, st.sessions \in Map, NEW a, Side(st.sessions, st.nextId, a), now \in Nat,
         NEW row \in ShedRows
  PROVE  /\ row \in Rows /\ row # Fragment
         /\ ApplyRow(st, row).nextId = st.nextId /\ ApplyRow(st, row).sessions \in Map
         /\ Touched(ApplyRow(st, row).sessions)
         /\ Fades(ApplyRow(st, row).sessions, st.sessions)
<1> DEFINE S == st.sessions
           T == ApplyRow(st, row)
<1>0. Touched(S) /\ \A k \in Scopes : \A x \in In(S, k) : x \in Entry BY DEF Side
<1>1. CASE \E k \in Scopes, id \in Nat : row = PurgeRow(k, id)
  <2>1. PICK k \in Scopes, id \in Nat : row = PurgeRow(k, id) BY <1>1
  <2>2. row \in Rows /\ row # Fragment BY <2>1 DEF PurgeRow, Rows, Fragment
  <2>3. /\ T.nextId = st.nextId /\ T.sessions \in Map /\ Touched(T.sessions)
        /\ Holding(S, T.sessions, k, Spares(In(S, k), id))
    BY <1>0, <2>1, PurgeRowFacts
  <2>4. \A l \in Scopes : \A x \in In(T.sessions, l) : x \in In(S, l) BY <2>3 DEF Spares, Holding
  <2>5. Fades(T.sessions, S) BY <1>0, <2>4 DEF Fades, Same
  <2> QED BY <2>2, <2>3, <2>5
<1>2. CASE \E k \in Scopes, id \in Nat : row = MarkRow(k, id, "expired")
  <2>1. PICK k \in Scopes, id \in Nat : row = MarkRow(k, id, "expired") BY <1>2
  <2>2. row \in Rows /\ row # Fragment BY <2>1 DEF MarkRow, Rows, Fragment
  <2>3. "expired" \in Statuses \cup {"expired"} OBVIOUS
  <2>4. /\ T.nextId = st.nextId /\ T.sessions \in Map /\ Touched(T.sessions)
        /\ Holding(S, T.sessions, k, RestatedAll(In(S, k), id, "expired", now))
    <3>1. \A x \in In(S, k) : x \in Item BY <1>0 DEF Entry
    <3> QED BY <1>0, <2>1, <2>3, <3>1, MarkRowFacts
  <2> HIDE DEF T, S
  <2>5. Fades(T.sessions, S)
    <3> SUFFICES ASSUME NEW l \in Scopes, NEW x \in In(T.sessions, l)
                   PROVE  x \in Entry /\ \E y \in In(S, l) :
                          Same(x, y) /\ x.status \in {y.status, "expired"}
      BY DEF Fades
    <3>1. CASE l # k
      <4>1. x \in In(S, l) BY <2>4, <3>1 DEF Holding
      <4> QED BY <1>0, <4>1 DEF Same
    <3>2. CASE l = k
      <4>1. PICK y \in In(S, k) : x = Restated(y, id, "expired", now)
        BY <2>4, <3>2 DEF RestatedAll, Holding
      <4>2. y \in Entry /\ y \in Item BY <1>0 DEF Entry
      <4>3. /\ x \in Entry /\ Same(x, y)
            /\ y.id = id => x.status = "expired"
            /\ y.id # id => x = y
        BY <2>3, <4>1, <4>2, RestatedEntry
      <4> QED BY <3>2, <4>3
    <3> QED BY <3>1, <3>2
  <2> QED BY <2>2, <2>4, <2>5 DEF S, T
<1> QED BY <1>1, <1>2 DEF ShedRows

\* The file sheds, if it takes the row at all.
LEMMA MatchRow ==
  ASSUME NEW st, NEW rows, NEW b, NEW a, NEW c, NEW D, NEW w, Match(st, rows, b, a, c, D, w),
         now \in Nat, NEW row \in ShedRows
  PROVE  Match(st, AddRow(rows, row), b, a, c, D, w)
<1> DEFINE S == st.sessions
           R == Replay(rows)
           q == AddRow(rows, row)
           U == Replay(q)
<1>1. /\ StoreOK(st, a, D, w) /\ FileOK(rows, b, c, D, w) /\ Paired(S, R.sessions)
      /\ (w => ~Torn(rows))
  BY DEF Match
<1>2. /\ rows \in Seq(Rows) /\ R.nextId \in Nat \ {0} /\ R.nextId <= b /\ R.sessions \in Map
      /\ Side(R.sessions, R.nextId, c) /\ Paired(R.sessions, R.sessions)
      /\ (w => Firm(R.sessions, D))
  BY <1>1 DEF FileOK
<1>3. Fades(S, S) BY <1>1, FadesItself DEF StoreOK
<1>4. Fades(R.sessions, R.sessions) BY <1>2, FadesItself
<1> HIDE DEF S, R
<1>5. /\ row \in Rows /\ row # Fragment
      /\ ApplyRow(R, row).nextId = R.nextId /\ ApplyRow(R, row).sessions \in Map
      /\ Touched(ApplyRow(R, row).sessions) /\ Fades(ApplyRow(R, row).sessions, R.sessions)
  BY <1>2, ShedRowFacts
<1>6. q \in Seq(Rows) /\ ~Torn(q) /\ U = IF Torn(rows) THEN R ELSE ApplyRow(R, row)
  BY <1>2, <1>5, AddRowFacts DEF R
<1> HIDE DEF q, U
<1>7. /\ U.nextId = R.nextId /\ U.sessions \in Map /\ Touched(U.sessions)
      /\ Fades(U.sessions, R.sessions)
  BY <1>2, <1>4, <1>5, <1>6 DEF Side
<1>8. U.sessions \in Loose BY <1>7, MapIsLoose
<1>9. Side(U.sessions, U.nextId, c) BY <1>2, <1>7, <1>8, FadesEcho, EchoSide
<1>10. Paired(U.sessions, U.sessions) BY <1>2, <1>7, FadesEcho, EchoPaired
<1>11. Paired(S, U.sessions) BY <1>1, <1>3, <1>7, FadesEcho, EchoPaired
<1>12. w => Firm(U.sessions, D) BY <1>2, <1>7, FadesFirm
<1>13. FileOK(q, b, c, D, w) BY <1>2, <1>6, <1>7, <1>9, <1>10, <1>12 DEF FileOK, U
<1>14. Match(st, q, b, a, c, D, w) BY <1>1, <1>6, <1>11, <1>13 DEF Match, S, U
<1> QED BY <1>14 DEF q

LEMMA KeptStore ==
  ASSUME NEW t, NEW b, NEW a, NEW c, NEW D, NEW w, Kept(t, b, a, c, D, w),
         NEW T, T \in Loose, Touched(T), Short(T), Fades(T, t.st.sessions)
  PROVE  Kept(WithSessions(t, T), b, a, c, D, w)
<1> DEFINE u == WithSessions(t, T)
<1>1. u.st = [sessions |-> T, nextId |-> t.st.nextId] /\ u.rows = t.rows /\ u.moments = t.moments
  BY DEF WithSessions, WithStore
<1> HIDE DEF u
<1>2. Match(u.st, u.rows, b, a, c, D, w) BY <1>1, MatchStore DEF Kept
<1>3. u.st.nextId = t.st.nextId BY <1>1
<1>4. Kept(u, b, a, c, D, w) BY <1>1, <1>2, <1>3 DEF Kept
<1> QED BY <1>4 DEF u

LEMMA KeptRow ==
  ASSUME NEW t, NEW b, NEW a, NEW c, NEW D, NEW w, Kept(t, b, a, c, D, w),
         now \in Nat, NEW row \in ShedRows
  PROVE  Kept(Write(t, row), b, a, c, D, w)
<1> DEFINE u == Write(t, row)
<1>1. /\ u.st = t.st /\ u.rows = AddRow(t.rows, row)
      /\ u.moments = t.moments \cup {[st |-> t.st, rows |-> t.rows]}
  BY DEF Write, Moment
<1> HIDE DEF u
<1>2. Match(u.st, u.rows, b, a, c, D, w) BY <1>1, MatchRow DEF Kept
<1>3. Sound(t.st, t.rows, a, D, w) BY KeptIsSound
<1>4. \A m \in u.moments : Sound(m.st, m.rows, a, D, w) BY <1>1, <1>3 DEF Kept
<1>5. Kept(u, b, a, c, D, w) BY <1>1, <1>2, <1>4 DEF Kept
<1> QED BY <1>5 DEF u

(***************************************************************************)
(* The store and the file agree.                                           *)
(***************************************************************************)
\* What T holds S holds, and what R holds like T, U still holds.
Drops(T, S) == \A k \in Scopes : \A x \in In(T, k) : x.status # "expired" => x \in In(S, k)
Passes(T, R, U) ==
    \A k \in Scopes : \A x \in In(T, k), y \in In(R, k) :
        x.status # "expired" /\ Alike(x, y) => y \in In(U, k)

LEMMA ShowsShed ==
  ASSUME NEW S, NEW R, NEW T, NEW U, NEW E, Shows(S, R, E), Drops(T, S), Passes(T, R, U)
  PROVE  Shows(T, U, E)
BY DEF Shows, Drops, Passes

\* Both expire, or both purge, the same record.
LEMMA ExpiredPasses ==
  ASSUME NEW S, NEW R, NEW T, NEW U, NEW k, NEW id, now \in Nat,
         \A l \in Scopes : \A x \in In(S, l) : x \in Entry,
         Holding(S, T, k, RestatedAll(In(S, k), id, "expired", now)),
         Holding(R, U, k, RestatedAll(In(R, k), id, "expired", now))
  PROVE  Drops(T, S) /\ Passes(T, R, U)
<1>0. "expired" \in Statuses \cup {"expired"} OBVIOUS
<1>1. ASSUME NEW l \in Scopes, NEW x \in In(T, l), x.status # "expired"
      PROVE  x \in In(S, l) /\ (l = k => x.id # id)
  <2>1. CASE l # k BY <2>1 DEF Holding
  <2>2. CASE l = k
    <3>1. PICK y \in In(S, k) : x = Restated(y, id, "expired", now)
      BY <2>2 DEF Holding, RestatedAll
    <3>2. y \in Entry BY <2>2
    <3>3. x = y /\ y.id # id BY <1>0, <1>1, <3>1, <3>2, RestatedEntry
    <3> QED BY <2>2, <3>3
  <2> QED BY <2>1, <2>2
<1>2. ASSUME NEW l \in Scopes, NEW x \in In(T, l), NEW y \in In(R, l),
             x.status # "expired", Alike(x, y)
      PROVE  y \in In(U, l)
  <2>1. CASE l # k BY <2>1 DEF Holding
  <2>2. CASE l = k
    <3>1. y.id # id BY <1>1, <1>2, <2>2 DEF Alike, Same
    <3>2. Restated(y, id, "expired", now) = y BY <3>1 DEF Restated
    <3>3. y \in RestatedAll(In(R, k), id, "expired", now) BY <2>2, <3>2 DEF RestatedAll
    <3> QED BY <2>2, <3>3 DEF Holding
  <2> QED BY <2>1, <2>2
<1> QED BY <1>1, <1>2 DEF Drops, Passes

LEMMA SparedPasses ==
  ASSUME NEW S, NEW R, NEW T, NEW U, NEW k, NEW id,
         Holding(S, T, k, Spares(In(S, k), id)), Holding(R, U, k, Spares(In(R, k), id))
  PROVE  Drops(T, S) /\ Passes(T, R, U)
<1>1. ASSUME NEW l \in Scopes, NEW x \in In(T, l)
      PROVE  x \in In(S, l) /\ (l = k => id # Whole /\ x.id # id)
  BY DEF Holding, Spares
<1>2. ASSUME NEW l \in Scopes, NEW x \in In(T, l), NEW y \in In(R, l), Alike(x, y)
      PROVE  y \in In(U, l)
  <2>1. l = k => id # Whole /\ y.id # id BY <1>1, <1>2 DEF Alike, Same
  <2> QED BY <2>1 DEF Holding, Spares
<1> QED BY <1>1, <1>2 DEF Drops, Passes

(***************************************************************************)
(* What the writes that were cut short have cost.                          *)
(***************************************************************************)
LEMMA CostsFacts ==
  ASSUME NEW X \in SUBSET (1 .. MaxAppends)
  PROVE  /\ IsFiniteSet(X) /\ Cardinality(X) \in Nat
         /\ \A c : Cardinality(X \cup {c}) \in Nat /\ Cardinality(X \cup {c}) <= Cardinality(X) + 1
<1>1. 1 \in Int /\ MaxAppends \in Int BY BudgetAssumption
<1>2. IsFiniteSet(1 .. MaxAppends) BY <1>1, FS_Interval
<1>3. IsFiniteSet(X) BY <1>2, FS_Subset
<1>4. Cardinality(X) \in Nat BY <1>3, FS_CardinalityType
<1>5. ASSUME NEW c
      PROVE  Cardinality(X \cup {c}) \in Nat /\ Cardinality(X \cup {c}) <= Cardinality(X) + 1
  <2>1. Cardinality(X \cup {c}) = IF c \in X THEN Cardinality(X) ELSE Cardinality(X) + 1
    BY <1>3, FS_AddElement
  <2> QED BY <1>4, <2>1
<1> QED BY <1>3, <1>4, <1>5

\* A row that shares the line of a fragment is lost, and was paid for.
LEMMA CostsRow ==
  ASSUME NEW rows \in Seq(Rows), NEW row \in Rows, row # Fragment,
         NEW X \in SUBSET (1 .. MaxAppends), NEW s \in Nat, Costs(rows, X, s)
  PROVE  /\ Costs(AddRow(rows, row), X, s)
         /\ Torn(rows) => \A c : Costs(AddRow(rows, row), X \cup {c}, s)
<1> DEFINE m == Cardinality(X)
           q == AddRow(rows, row)
<1>1. m \in Nat BY CostsFacts
<1>2. ~Torn(q) BY AddRowFacts
<1>3. m + (IF Torn(rows) THEN 1 ELSE 0) <= s BY DEF Costs
<1>4. \A c : Cardinality(X \cup {c}) \in Nat /\ Cardinality(X \cup {c}) <= m + 1 BY CostsFacts
<1> HIDE DEF m, q
<1>5. m <= s /\ (Torn(rows) => m + 1 <= s) BY <1>1, <1>3
<1>6. Costs(q, X, s) BY <1>1, <1>2, <1>5 DEF Costs, m
<1>7. ASSUME Torn(rows), NEW c PROVE Costs(q, X \cup {c}, s)
  <2> DEFINE n == Cardinality(X \cup {c})
  <2>1. n \in Nat /\ n <= m + 1 BY <1>4
  <2> HIDE DEF n
  <2>2. n + 0 <= s BY <1>1, <1>5, <1>7, <2>1
  <2> QED BY <1>2, <2>2 DEF Costs, n
<1> QED BY <1>6, <1>7 DEF q

\* A write that is cut short pays for the fragment it leaves.
LEMMA CostsTorn ==
  ASSUME NEW rows \in Seq(Rows), NEW X \in SUBSET (1 .. MaxAppends), NEW s \in Nat,
         Costs(rows, X, s)
  PROVE  Costs(AddRow(rows, Fragment), X, s + 1)
<1> DEFINE m == Cardinality(X)
           q == AddRow(rows, Fragment)
           b == IF Torn(rows) THEN 1 ELSE 0
           c == IF Torn(q) THEN 1 ELSE 0
<1>1. m \in Nat /\ b \in {0, 1} /\ c \in {0, 1} BY CostsFacts
<1>2. m + b <= s BY DEF Costs
<1> HIDE DEF m, b, c, q
<1>3. m + c <= s + 1 BY <1>1, <1>2
<1> QED BY <1>3 DEF Costs, m, c, q

\* The less is owed, the sooner it is covered.
LEMMA CoveredMore ==
  ASSUME NEW st, NEW rows, NEW E, NEW s, Covered(st, rows, E, s), NEW F, E \subseteq F
  PROVE  Covered(st, rows, F, s)
<1>1. PICK X \in SUBSET (1 .. MaxAppends) :
         Costs(rows, X, s) /\ Shows(st.sessions, Replay(rows).sessions, E \cup X)
  BY DEF Covered
<1>2. Shows(st.sessions, Replay(rows).sessions, F \cup X) BY <1>1 DEF Shows
<1> QED BY <1>1, <1>2 DEF Covered

LEMMA CoveredDrops ==
  ASSUME NEW st, NEW rows, NEW E, NEW s, Covered(st, rows, E, s), NEW u,
         Drops(u.sessions, st.sessions)
  PROVE  Covered(u, rows, E, s)
<1>1. PICK X \in SUBSET (1 .. MaxAppends) :
         Costs(rows, X, s) /\ Shows(st.sessions, Replay(rows).sessions, E \cup X)
  BY DEF Covered
<1>2. Shows(u.sessions, Replay(rows).sessions, E \cup X) BY <1>1 DEF Shows, Drops
<1> QED BY <1>1, <1>2 DEF Covered

\* A row that sheds from the file no more than was shed from the store.
LEMMA CoveredRow ==
  ASSUME NEW st, NEW rows \in Seq(Rows), NEW E, NEW s \in Nat, Covered(st, rows, E, s),
         NEW row \in Rows, row # Fragment, NEW u, Drops(u.sessions, st.sessions),
         Passes(u.sessions, Replay(rows).sessions, ApplyRow(Replay(rows), row).sessions)
  PROVE  Covered(u, AddRow(rows, row), E, s)
<1> DEFINE q == AddRow(rows, row)
           R == Replay(rows)
           U == ApplyRow(R, row)
<1>1. PICK X \in SUBSET (1 .. MaxAppends) :
         Costs(rows, X, s) /\ Shows(st.sessions, R.sessions, E \cup X)
  BY DEF Covered
<1>2. Costs(q, X, s) BY <1>1, CostsRow
<1>3. Replay(q) = IF Torn(rows) THEN R ELSE U BY AddRowFacts
<1> HIDE DEF q, U, R
<1>4. Shows(u.sessions, R.sessions, E \cup X) BY <1>1 DEF Shows, Drops
<1>5. Shows(u.sessions, U.sessions, E \cup X) BY <1>1, ShowsShed DEF R, U
<1>6. Shows(u.sessions, Replay(q).sessions, E \cup X) BY <1>3, <1>4, <1>5
<1> QED BY <1>2, <1>6 DEF Covered, q

\* A call sheds: in memory, and maybe with a row.
LEMMA OwedStore ==
  ASSUME NEW t, NEW p, Owed(t, p), NEW u, u.rows = t.rows, u.moments = t.moments,
         Drops(u.st.sessions, t.st.sessions)
  PROVE  Owed(u, p)
BY CoveredDrops DEF Owed

LEMMA OwedRow ==
  ASSUME NEW t, NEW p, Owed(t, p), t.rows \in Seq(Rows), NEW row \in Rows, row # Fragment,
         NEW y, y.rows = t.rows, Drops(y.st.sessions, t.st.sessions),
         NEW u, u.rows = AddRow(t.rows, row), u.moments = t.moments \cup {Moment(y)},
         Drops(u.st.sessions, t.st.sessions),
         Passes(u.st.sessions, Replay(t.rows).sessions, ApplyRow(Replay(t.rows), row).sessions)
  PROVE  Owed(u, p)
<1>1. p.x \subseteq p.m /\ p.s \in Nat /\ Covered(t.st, t.rows, p.x, p.s) BY DEF Owed
<1>2. Covered(u.st, u.rows, p.x, p.s) BY <1>1, CoveredRow
<1>3. Covered(y.st, y.rows, p.m, p.s)
  <2>1. Covered(y.st, t.rows, p.x, p.s) BY <1>1, CoveredDrops
  <2> QED BY <1>1, <2>1, CoveredMore
<1>4. \A m \in u.moments : Covered(m.st, m.rows, p.m, p.s) BY <1>3 DEF Owed, Moment
<1> QED BY <1>1, <1>2, <1>4 DEF Owed

(***************************************************************************)
(* The shape of a map: how many items its sessions have.                   *)
(***************************************************************************)
LEMMA ShapeCounts ==
  ASSUME NEW S \in Seq(Lane), NEW T \in Seq(Lane), SameShape(S, T)
  PROVE  GlobalCount(T) = GlobalCount(S)
<1>0. Len(S) \in Nat /\ DOMAIN S = 1 .. Len(S) /\ Len(T) = Len(S) BY LenProperties DEF SameShape
<1>1. PICK c : Counts(S, c) /\ GlobalCount(S) = c[Len(S)] BY CountIs
<1>2. PICK d : Counts(T, d) /\ GlobalCount(T) = d[Len(T)] BY CountIs
<1> DEFINE R == {n \in Nat : d[n] = c[n]}
<1>3. 0 \in R BY <1>1, <1>2 DEF Counts
<1>4. ASSUME NEW n \in 0 .. Len(S) - 1, n \in R PROVE n + 1 \in R
  <2>1. n + 1 \in 1 .. Len(S) /\ n + 1 \in 1 .. Len(T) /\ (n + 1) - 1 = n BY <1>0
  <2>2. c[n + 1] = c[n] + Len(S[n + 1].items) BY <1>1, <2>1 DEF Counts
  <2>3. d[n + 1] = d[n] + Len(T[n + 1].items) BY <1>2, <2>1 DEF Counts
  <2>4. Len(T[n + 1].items) = Len(S[n + 1].items) BY <1>0, <2>1 DEF SameShape
  <2> QED BY <1>4, <2>1, <2>2, <2>3, <2>4
<1>5. \A n \in 0 .. Len(S) : n \in R
  <2> HIDE DEF R
  <2> QED BY <1>0, <1>3, <1>4, UpTo
<1> QED BY <1>0, <1>1, <1>2, <1>5

LEMMA ShapeWithin ==
  ASSUME NEW S, Within(S), NEW T \in Loose, SameShape(S, T)
  PROVE  Within(T)
<1>1. /\ S \in Map /\ S \in Seq(Lane) /\ DOMAIN S = 1 .. Len(S) /\ Len(S) \in Nat
      /\ \A i \in DOMAIN S : Len(S[i].items) \in Nat \ {0}
  BY MapFacts DEF Within
<1>2. T \in Seq(Session) /\ DOMAIN T = 1 .. Len(T) BY LooseFacts
<1>3. \A i \in DOMAIN T : T[i].items # <<>>
  <2> SUFFICES ASSUME NEW i \in DOMAIN T PROVE T[i].items # <<>> OBVIOUS
  <2>1. Len(T[i].items) # 0 BY <1>1, <1>2 DEF SameShape
  <2> QED BY <2>1
<1>4. T \in Map BY <1>3, MapIsLoose
<1>5. T \in Seq(Lane) BY <1>4, MapFacts
<1>6. GlobalCount(T) = GlobalCount(S) /\ Len(T) = Len(S) BY <1>1, <1>5, ShapeCounts DEF SameShape
<1> QED BY <1>4, <1>6 DEF Within

\* A session sheds items, and goes when it has no more.
LEMMA SetItemsWithin ==
  ASSUME NEW S, Within(S), NEW i \in DOMAIN S, NEW q \in Seq(Thing), Sorted(q),
         Len(q) <= Len(S[i].items)
  PROVE  Within(SetItems(S, i, q))
<1>0. /\ S \in Map /\ S[i] \in Lane /\ Len(S[i].items) \in Nat \ {0} /\ Len(S) \in Nat
      /\ S \in Seq(Lane) /\ GlobalCount(S) <= MaxGlobal /\ Len(S) <= MaxSessions
  BY MapFacts DEF Within
<1>1. GlobalCount(S) \in Nat BY <1>0, CountIsNatural
<1>2. CASE q = <<>>
  <2> DEFINE T == RemoveAt(S, i)
  <2>1. /\ T \in Map /\ Len(T) = Len(S) - 1
        /\ GlobalCount(S) = GlobalCount(T) + Len(S[i].items)
    BY <1>0, RemovedFromMap
  <2> HIDE DEF T
  <2>2. GlobalCount(T) \in Nat BY <2>1, MapFacts, CountIsNatural
  <2>3. GlobalCount(T) <= MaxGlobal /\ Len(T) <= MaxSessions
    BY <1>0, <1>1, <2>1, <2>2, BudgetAssumption
  <2>4. SetItems(S, i, q) = T BY <1>2 DEF SetItems, T
  <2> QED BY <2>1, <2>3, <2>4 DEF Within
<1>3. CASE q # <<>>
  <2> DEFINE s == [S[i] EXCEPT !.items = q]
             T == [S EXCEPT ![i] = s]
  <2>0. Len(q) \in Nat \ {0} BY <1>3, EmptySeq
  <2>1. s \in Lane /\ s.scope = S[i].scope /\ s.items = q
    <3>1. S[i] \in [scope: Scopes, items: Seq(Thing), at: Nat] BY <1>0, LaneFacts
    <3>2. s \in [scope: Scopes, items: Seq(Thing), at: Nat] /\ s.scope = S[i].scope /\ s.items = q
      BY <3>1
    <3>3. Len(q) > 0 /\ Sorted(q) BY <2>0
    <3> HIDE DEF s
    <3> QED BY <3>2, <3>3 DEF Lane
  <2>2. SetItems(S, i, q) = T BY <1>3 DEF SetItems
  <2> HIDE DEF s
  <2>3. T \in Map /\ Len(T) = Len(S) /\ GlobalCount(T) = (GlobalCount(S) - Len(S[i].items)) + Len(q)
    BY <1>0, <2>1, ReplacedInMap
  <2> HIDE DEF T
  <2>4. GlobalCount(T) <= MaxGlobal /\ Len(T) <= MaxSessions
    <3> DEFINE g == GlobalCount(S)
               m == Len(S[i].items)
               z == Len(q)
               h == GlobalCount(T)
    <3>1. /\ g \in Nat /\ m \in Nat /\ z \in Nat /\ z <= m /\ h = (g - m) + z
          /\ g <= MaxGlobal
      BY <1>0, <1>1, <2>0, <2>3
    <3> HIDE DEF g, m, z, h
    <3>2. h <= MaxGlobal BY <3>1, BudgetAssumption
    <3> QED BY <1>0, <2>3, <3>2 DEF h
  <2> QED BY <2>2, <2>3, <2>4 DEF Within
<1> QED BY <1>2, <1>3

\* Other items in a session, as many as it had.
LEMMA ReplacedShape ==
  ASSUME NEW S \in Loose, NEW i \in DOMAIN S, NEW q \in Seq(Thing), Len(q) = Len(S[i].items),
         NEW at \in Nat, Short(S), NEW T,
         T = [S EXCEPT ![i].items = q] \/ T = [S EXCEPT ![i].items = q, ![i].at = at]
  PROVE  SameShape(S, T) /\ Short(T) /\ Elsewhere(S, T, S[i].scope)
<1>0. S \in Seq(Session) /\ S[i] \in Session /\ DOMAIN S = 1 .. Len(S) BY LooseFacts
<1>1. ASSUME NEW s \in Session, s.scope = S[i].scope, s.items = q
      PROVE  /\ SameShape(S, [S EXCEPT ![i] = s]) /\ Short([S EXCEPT ![i] = s])
             /\ Elsewhere(S, [S EXCEPT ![i] = s], S[i].scope)
  <2> DEFINE U == [S EXCEPT ![i] = s]
  <2>1. /\ U \in Seq(Session) /\ Len(U) = Len(S)
        /\ \A j \in 1 .. Len(S) : U[j] = IF j = i THEN s ELSE S[j]
    BY <1>0, ExceptSeq
  <2> HIDE DEF U
  <2>2. DOMAIN U = DOMAIN S BY <1>0, <2>1, LenProperties
  <2>3. \A j \in DOMAIN S : U[j].scope = S[j].scope /\ Len(U[j].items) = Len(S[j].items)
    BY <1>0, <1>1, <2>1
  <2>4. \A j \in DOMAIN S : S[j].scope # S[i].scope => U[j] = S[j] BY <1>0, <2>1
  <2> QED BY <2>1, <2>2, <2>3, <2>4 DEF SameShape, Short, Elsewhere, U
<1>2. CASE T = [S EXCEPT ![i].items = q]
  <2> DEFINE s == [S[i] EXCEPT !.items = q]
  <2>1. s \in Session /\ s.scope = S[i].scope /\ s.items = q BY <1>0 DEF Session
  <2>2. T = [S EXCEPT ![i] = s] BY <1>2
  <2> HIDE DEF s
  <2> QED BY <1>1, <2>1, <2>2
<1>3. CASE T = [S EXCEPT ![i].items = q, ![i].at = at]
  <2> DEFINE s == [S[i] EXCEPT !.items = q, !.at = at]
  <2>1. s \in Session /\ s.scope = S[i].scope /\ s.items = q BY <1>0 DEF Session
  <2>2. T = [S EXCEPT ![i] = s] BY <1>3
  <2> HIDE DEF s
  <2> QED BY <1>1, <2>1, <2>2
<1> QED BY <1>2, <1>3

LEMMA MarksFacts ==
  ASSUME NEW S, NEW n, NEW a, Side(S, n, a), Short(S), now \in Nat, NEW k \in Scopes,
         NEW i \in DOMAIN S, S[i].scope = k,
         NEW id, NEW status \in Statuses \cup {"expired"}, NEW T,
         \/ T = [S EXCEPT ![i].items = SetStatus(S[i].items, id, status, now)]
         \/ T = [S EXCEPT ![i].items = SetStatus(S[i].items, id, status, now), ![i].at = now]
  PROVE  Marks(S, T, k, id, status)
<1> DEFINE L == S[i].items
           q == SetStatus(L, id, status, now)
<1>0. /\ S \in Loose /\ Touched(S) /\ \A x \in In(S, k) : x \in Entry
  BY DEF Side
<1>1. L \in Seq(Thing) /\ Sorted(L) /\ In(S, k) = ToSet(L) /\ S[i].at \in Nat
  BY <1>0, LooseFacts, InFacts
<1>2. /\ q \in Seq(Thing) /\ Sorted(q) /\ Len(q) = Len(L)
      /\ ToSet(q) = RestatedAll(ToSet(L), id, status, now)
  <2>1. ToSet(L) \subseteq Item BY <1>0, <1>1 DEF Entry
  <2> HIDE DEF L
  <2>2. L \in Seq(Item) /\ Sorted(L) BY <1>1, <2>1, ItemsAreItems
  <2>3. /\ SetStatus(L, id, status, now) \in Seq(Item)
        /\ Sorted(SetStatus(L, id, status, now))
        /\ Len(SetStatus(L, id, status, now)) = Len(L)
        /\ ToSet(SetStatus(L, id, status, now)) = RestatedAll(ToSet(L), id, status, now)
    BY <2>2, StatusFacts
  <2> QED BY <2>3, ItemIsThing
<1>3. T = [S EXCEPT ![i].items = q] \/ T = [S EXCEPT ![i].items = q, ![i].at = now] OBVIOUS
<1>4. S[i].at <= now BY <1>0 DEF Touched
<1> HIDE DEF q
<1>5. SameShape(S, T) /\ Elsewhere(S, T, k) /\ Short(T)
  <2>1. /\ S \in Loose /\ i \in DOMAIN S /\ q \in Seq(Thing) /\ Len(q) = Len(S[i].items)
        /\ now \in Nat /\ Short(S)
    BY <1>0, <1>2
  <2>2. SameShape(S, T) /\ Short(T) /\ Elsewhere(S, T, S[i].scope)
    BY <1>3, <2>1, ReplacedShape, Zenon
  <2> QED BY <2>2
<1>6. /\ Puts(S, [S EXCEPT ![i].items = q, ![i].at = now], k, q, now)
      /\ Puts(S, [S EXCEPT ![i].items = q], k, q, S[i].at)
  <2>1. S \in Loose /\ i \in DOMAIN S /\ q \in Seq(Thing) /\ Sorted(q) /\ now \in Nat
    BY <1>0, <1>2
  <2>2. /\ Puts(S, [S EXCEPT ![i].items = q, ![i].at = now], S[i].scope, q, now)
        /\ Puts(S, [S EXCEPT ![i].items = q], S[i].scope, q, S[i].at)
    BY <2>1, PutsItems, Zenon
  <2> QED BY <2>2
<1>7. PICK at \in Nat : at <= now /\ Puts(S, T, k, q, at)
  <2>1. CASE T = [S EXCEPT ![i].items = q] BY <1>1, <1>4, <1>6, <2>1
  <2>2. CASE T = [S EXCEPT ![i].items = q, ![i].at = now] BY <1>6, <2>2
  <2> QED BY <1>3, <2>1, <2>2
<1>8. T \in Loose BY <1>7 DEF Puts
<1>9. Touched(T) BY <1>0, <1>7 DEF Puts, Touched
<1>10. Holding(S, T, k, ToSet(q)) BY <1>7 DEF Puts, Holding
<1> QED BY <1>1, <1>2, <1>5, <1>8, <1>9, <1>10 DEF Marks

LEMMA MarksEcho ==
  ASSUME NEW S, NEW T, NEW k, NEW id, NEW status \in Statuses \cup {"expired"}, now \in Nat,
         Holding(S, T, k, RestatedAll(In(S, k), id, status, now)),
         \A l \in Scopes : \A x \in In(S, l) : x \in Entry
  PROVE  Echoes(T, S) /\ (status = "expired" => Fades(T, S))
<1>1. ASSUME NEW l \in Scopes, NEW x \in In(T, l)
      PROVE  /\ x \in Entry
             /\ \E y \in In(S, l) : /\ Same(x, y)
                                    /\ status = "expired" => x.status \in {y.status, "expired"}
  <2>1. CASE l # k
    <3>1. x \in In(S, l) BY <2>1 DEF Holding
    <3> QED BY <3>1 DEF Same
  <2>2. CASE l = k
    <3>1. PICK y \in In(S, k) : x = Restated(y, id, status, now)
      BY <2>2 DEF Holding, RestatedAll
    <3>2. y \in Entry BY <2>2
    <3>3. /\ x \in Entry /\ Same(x, y)
          /\ y.id = id => x.status = status
          /\ y.id # id => x = y
      BY <3>1, <3>2, RestatedEntry
    <3> QED BY <2>2, <3>3
  <2> QED BY <2>1, <2>2
<1> QED BY <1>1 DEF Echoes, Fades

(***************************************************************************)
(* purgeExpired.                                                           *)
(***************************************************************************)
LEMMA FineFacts ==
  ASSUME NEW t, NEW p, Fine(t, p)
  PROVE  /\ t.st.nextId = p.n /\ p.n \in Nat \ {0}
         /\ Side(t.st.sessions, p.n, p.a) /\ t.st.sessions \in Loose /\ Touched(t.st.sessions)
         /\ Short(t.st.sessions) /\ Paired(t.st.sessions, t.st.sessions)
         /\ \A k \in Scopes : \A x \in In(t.st.sessions, k) : x \in Entry
         /\ t.rows \in Seq(Rows) /\ (p.w => ~Torn(t.rows))
         /\ Replay(t.rows).sessions \in Map /\ Touched(Replay(t.rows).sessions)
         /\ \A k \in Scopes : \A x \in In(Replay(t.rows).sessions, k) : x \in Entry
         /\ Paired(t.st.sessions, Replay(t.rows).sessions)
BY DEF Fine, Kept, Match, StoreOK, FileOK, Side

LEMMA ExpireItemFacts ==
  ASSUME NEW t, NEW p, Fine(t, p), now \in Nat, NEW k \in Scopes,
         At(t.st.sessions, k) # 0, NEW id \in Nat
  PROVE  /\ Fine(ExpireItem(t, k, id), p)
         /\ SameShape(t.st.sessions, ExpireItem(t, k, id).st.sessions)
         /\ Elsewhere(t.st.sessions, ExpireItem(t, k, id).st.sessions, k)
<1> DEFINE S == t.st.sessions
           i == At(S, k)
           T == [S EXCEPT ![i].items = SetStatus(S[i].items, id, "expired", now)]
           y == WithSessions(t, T)
           row == MarkRow(k, id, "expired")
           u == ExpireItem(t, k, id)
           R == Replay(t.rows)
           U == ApplyRow(R, row)
<1>0. /\ t.st.nextId = p.n /\ p.n \in Nat \ {0} /\ Side(S, p.n, p.a) /\ S \in Loose /\ Short(S)
      /\ \A l \in Scopes : \A x \in In(S, l) : x \in Entry
      /\ t.rows \in Seq(Rows) /\ (p.w => ~Torn(t.rows))
      /\ R.sessions \in Map /\ Touched(R.sessions)
      /\ \A l \in Scopes : \A x \in In(R.sessions, l) : x \in Entry
  BY FineFacts
<1>1. u = Write(y, row) BY DEF ExpireItem
<1>2. i \in DOMAIN S /\ S[i].scope = k BY <1>0, LooseAt
<1>3. "expired" \in Statuses \cup {"expired"} OBVIOUS
<1>4. row \in ShedRows /\ row \in Rows /\ row # Fragment
  BY DEF ShedRows, Rows, MarkRow, Fragment
<1>5. /\ y.st.sessions = T /\ y.st.nextId = t.st.nextId /\ y.rows = t.rows
      /\ u.st = y.st /\ u.rows = AddRow(y.rows, row)
      /\ u.moments = t.moments \cup {Moment(y)}
  BY <1>1 DEF WithSessions, WithStore, Write
<1> HIDE DEF S, R, i
<1>6. Marks(S, T, k, id, "expired") BY <1>0, <1>2, <1>3, MarksFacts
<1> HIDE DEF T
<1>7. /\ T \in Loose /\ Touched(T) /\ SameShape(S, T) /\ Elsewhere(S, T, k) /\ Short(T)
      /\ Holding(S, T, k, RestatedAll(In(S, k), id, "expired", now))
  BY <1>6 DEF Marks
<1>8. Fades(T, S) BY <1>0, <1>3, <1>7, MarksEcho
<1> HIDE DEF U, row
<1>9. Kept(y, p.b, p.a, p.c, p.D, p.w) BY <1>7, <1>8, KeptStore DEF Fine, S
<1> HIDE DEF y, u
<1>10. Kept(u, p.b, p.a, p.c, p.D, p.w) BY <1>1, <1>4, <1>9, KeptRow
<1>11. Holding(R.sessions, U.sessions, k, RestatedAll(In(R.sessions, k), id, "expired", now))
  <2>1. \A x \in In(R.sessions, k) : x \in Item BY <1>0 DEF Entry
  <2> QED BY <1>0, <1>3, <2>1, MarkRowFacts DEF U, row
<1>12. /\ Drops(T, S) /\ Passes(T, R.sessions, U.sessions)
       /\ Passes(U.sessions, S, T) /\ Drops(U.sessions, R.sessions)
  BY <1>0, <1>7, <1>11, ExpiredPasses
<1>13. Owed(t, p) BY DEF Fine
<1>14. Owed(u, p) BY <1>0, <1>4, <1>5, <1>12, <1>13, OwedRow DEF R, U, S
<1>15. ASSUME p.v PROVE p.w /\ Agree(u, p.e)
  <2>1. p.w /\ Shows(S, R.sessions, p.e) /\ Shows(R.sessions, S, {})
    BY <1>15 DEF Fine, Agree, S, R
  <2>2. Replay(u.rows) = U BY <1>0, <1>4, <1>5, <2>1, AddRowFacts DEF U, R
  <2>3. Shows(T, U.sessions, p.e) BY <1>12, <2>1, ShowsShed
  <2>4. Shows(U.sessions, T, {}) BY <1>12, <2>1, ShowsShed
  <2> QED BY <1>5, <2>1, <2>2, <2>3, <2>4 DEF Agree
<1>16. Fine(u, p) BY <1>0, <1>5, <1>10, <1>14, <1>15 DEF Fine
<1> QED BY <1>5, <1>7, <1>16 DEF u, S

\* c[n] is what a session has come to once its first n items were looked at.
Expires(t, k, c) ==
    LET L == ItemsOf(t.st.sessions, k) IN
    /\ c[0] = t
    /\ \A i \in 1 .. Len(L) :
          c[i] = IF Due(L[i]) THEN ExpireItem(c[i - 1], k, L[i].id) ELSE c[i - 1]

LEMMA ExpireRuns ==
  ASSUME NEW t, NEW k, ItemsOf(t.st.sessions, k) \in Seq(Thing)
  PROVE  LET L == ItemsOf(t.st.sessions, k)
             n == Len(L) IN
         \E c : /\ Expires(t, k, c)
                /\ ExpireSession(t, k) = WithSessions(c[n], SetItems(c[n].st.sessions,
                      At(c[n].st.sessions, k), Unexpired(ItemsOf(c[n].st.sessions, k))))
<1> DEFINE L == ItemsOf(t.st.sessions, k)
           Step(y, i) == IF Due(L[i]) THEN ExpireItem(y, k, L[i].id) ELSE y
           Is(n, f) == f = [i \in 0 .. n |-> IF i = 0 THEN t ELSE Step(f[i - 1], i)]
           T == {n \in Nat : \E f : Is(n, f)}
           r == Len(L)
           c == CHOOSE f : Is(r, f)
<1>0. r \in Nat BY LenProperties
<1>1. 0 \in T
  <2>1. Is(0, [i \in 0 .. 0 |-> t]) OBVIOUS
  <2> QED BY <2>1
<1>2. ASSUME NEW n \in Nat, n \in T PROVE n + 1 \in T
  <2>1. PICK f : Is(n, f) BY <1>2
  <2> HIDE DEF Step
  <2>2. PICK g : Longer(g, f, n, Step(f[n], n + 1)) BY LongerExists
  <2>3. ASSUME NEW i \in 0 .. n + 1 PROVE g[i] = IF i = 0 THEN t ELSE Step(g[i - 1], i)
    <3>1. CASE i \in 0 .. n
      <4>1. f[i] = IF i = 0 THEN t ELSE Step(f[i - 1], i) BY <2>1, <3>1
      <4> QED BY <2>2, <3>1, <4>1 DEF Longer
    <3>2. CASE i = n + 1 BY <2>2, <3>2 DEF Longer
    <3> QED BY <3>1, <3>2
  <2>4. Is(n + 1, g) BY <2>2, <2>3, Zenon DEF Longer
  <2> QED BY <2>4
<1>3. r \in T
  <2> HIDE DEF T, r
  <2> QED BY <1>0, <1>1, <1>2, SetInduction
<1>4. Is(r, c)
  <2>1. \E f : Is(r, f) BY <1>3
  <2> HIDE DEF Is
  <2> QED BY <2>1
<1>5. ExpireSession(t, k) = WithSessions(c[r], SetItems(c[r].st.sessions,
          At(c[r].st.sessions, k), Unexpired(ItemsOf(c[r].st.sessions, k)))) BY DEF ExpireSession, Fold
<1> HIDE DEF c, r
<1>6. ASSUME NEW i \in 0 .. r PROVE c[i] = IF i = 0 THEN t ELSE Step(c[i - 1], i)
  <2> DEFINE F(l) == IF l = 0 THEN t ELSE Step(c[l - 1], l)
  <2>1. c = [l \in 0 .. r |-> F(l)] BY <1>4
  <2> HIDE DEF F
  <2>2. c[i] = F(i) BY <2>1
  <2> QED BY <2>2 DEF F
<1>7. c[0] = t BY <1>0, <1>6
<1>8. ASSUME NEW i \in 1 .. r PROVE c[i] = Step(c[i - 1], i)
  BY <1>0, <1>6
<1>9. Expires(t, k, c) BY <1>7, <1>8 DEF Expires, r
<1> QED BY <1>5, <1>9 DEF r

LEMMA UnexpiredFacts ==
  ASSUME NEW items \in Seq(Thing), Sorted(items)
  PROVE  /\ Unexpired(items) \in Seq(Thing) /\ Sorted(Unexpired(items))
         /\ Len(Unexpired(items)) <= Len(items)
         /\ \A x : x \in ToSet(Unexpired(items)) <=> x \in ToSet(items) /\ x.status # "expired"
<1> DEFINE P == {x \in ToSet(items) : x.status # "expired"}
<1>1. Unexpired(items) = Filter(items, P) BY DEF Unexpired
<1>2. \A x : x \in ToSet(items) \cap P <=> x \in ToSet(items) /\ x.status # "expired"
  OBVIOUS
<1> HIDE DEF P
<1>3. /\ Filter(items, P) \in Seq(Thing) /\ Sorted(Filter(items, P))
      /\ Len(Filter(items, P)) <= Len(items)
      /\ ToSet(Filter(items, P)) = ToSet(items) \cap P
  BY FilterFacts
<1> QED BY <1>1, <1>2, <1>3

\* A session that has only unexpired items, and has some.
Swept(s) == s.items # <<>> /\ \A x \in ToSet(s.items) : x.status # "expired"

\* The expired items of a session go.
LEMMA SweepFacts ==
  ASSUME NEW t, NEW p, Fine(t, p), NEW k \in Scopes, NEW i \in DOMAIN t.st.sessions,
         t.st.sessions[i].scope = k
  PROVE  LET S == t.st.sessions
             T == SetItems(S, i, Unexpired(S[i].items)) IN
         /\ Fine(WithSessions(t, T), p)
         /\ Within(S) => Within(T)
         /\ \A j \in DOMAIN T : Swept(T[j]) \/ \E l \in DOMAIN S : S[l].scope # k /\ T[j] = S[l]
         /\ \A l \in DOMAIN S : S[l].scope # k => \E j \in DOMAIN T : T[j] = S[l]
<1> DEFINE S == t.st.sessions
           L == S[i].items
           q == Unexpired(L)
           T == SetItems(S, i, q)
           R == Replay(t.rows)
           u == WithSessions(t, T)
<1>0. /\ t.st.nextId = p.n /\ Side(S, p.n, p.a) /\ S \in Loose /\ Short(S) /\ Touched(S)
      /\ \A l \in Scopes : \A x \in In(S, l) : x \in Entry
  BY FineFacts
<1>1. /\ u.st.sessions = T /\ u.st.nextId = t.st.nextId /\ u.rows = t.rows
      /\ u.moments = t.moments
  BY DEF WithSessions, WithStore
<1> HIDE DEF S, R
<1>2. L \in Seq(Thing) /\ Sorted(L) /\ In(S, k) = ToSet(L) /\ S[i].at \in Nat /\ S[i].at <= now
      /\ Len(L) <= MaxPerSession /\ i \in DOMAIN S /\ S[i].scope = k
  BY <1>0, LooseFacts, InFacts DEF Short, Touched, S
<1> HIDE DEF L
<1>3. /\ q \in Seq(Thing) /\ Sorted(q) /\ Len(q) <= Len(L)
      /\ \A x : x \in ToSet(q) <=> x \in ToSet(L) /\ x.status # "expired"
  BY <1>2, UnexpiredFacts
<1> HIDE DEF q, u
<1>4. /\ Puts(S, T, k, q, S[i].at)
      /\ \A j \in DOMAIN T : T[j].items # <<>> \/ \E l \in DOMAIN S : l # i /\ T[j] = S[l]
      /\ \A l \in DOMAIN S : l # i => \E j \in DOMAIN T : T[j] = S[l]
  <2>1. S \in Loose /\ i \in DOMAIN S /\ q \in Seq(Thing) /\ Sorted(q) BY <1>0, <1>2, <1>3
  <2>2. /\ Puts(S, T, S[i].scope, q, S[i].at)
        /\ \A j \in DOMAIN T : T[j].items # <<>> \/ \E l \in DOMAIN S : l # i /\ T[j] = S[l]
        /\ \A l \in DOMAIN S : l # i => \E j \in DOMAIN T : T[j] = S[l]
    BY <2>1, PutsSet
  <2> QED BY <1>2, <2>2
<1> HIDE DEF T
<1>5. \A l \in DOMAIN S : l # i => S[l].scope # k
  BY <1>0, <1>2, LooseFacts DEF ScopesUnique
<1>6. \A x \in ToSet(q) : x \in Entry /\ \E y \in In(S, k) :
                            Same(x, y) /\ x.status \in {y.status, "expired"}
  BY <1>0, <1>2, <1>3 DEF Same
<1>7. Fades(T, S) /\ Touched(T) /\ T \in Loose
  BY <1>0, <1>2, <1>4, <1>6, FadesPuts
<1>8. Short(T)
  <2> SUFFICES ASSUME NEW j \in DOMAIN T PROVE Len(T[j].items) <= MaxPerSession BY DEF Short
  <2>1. CASE T[j].items = q
    <3>1. Len(q) \in Nat /\ Len(L) \in Nat BY <1>2, <1>3, LenProperties
    <3> QED BY <1>2, <1>3, <2>1, <3>1, BudgetAssumption
  <2>2. CASE \E l \in DOMAIN S : T[j] = S[l] BY <1>0, <2>2 DEF Short
  <2> QED BY <1>4, <2>1, <2>2 DEF Puts
<1>9. Kept(u, p.b, p.a, p.c, p.D, p.w) BY <1>7, <1>8, KeptStore DEF Fine, S, u
<1>10. \A l \in Scopes : \A x : x \in In(T, l) <=> x \in In(S, l) /\ (l = k => x.status # "expired")
  BY <1>2, <1>3, <1>4 DEF Puts
<1>11. Owed(u, p)
  <2>1. Drops(T, S) BY <1>10 DEF Drops
  <2>2. Owed(t, p) BY DEF Fine
  <2> QED BY <1>1, <2>1, <2>2, OwedStore DEF S
<1>15. ASSUME p.v PROVE p.w /\ Agree(u, p.e)
  <2>1. p.w /\ Shows(S, R.sessions, p.e) /\ Shows(R.sessions, S, {})
    BY <1>15 DEF Fine, Agree, S, R
  <2>2. Shows(T, R.sessions, p.e) BY <1>10, <2>1 DEF Shows
  <2>3. Passes(R.sessions, S, T) BY <1>10 DEF Passes, Alike
  <2>4. Drops(R.sessions, R.sessions) BY DEF Drops
  <2>5. Shows(R.sessions, T, {}) BY <2>1, <2>3, <2>4, ShowsShed
  <2> QED BY <1>1, <2>1, <2>2, <2>5 DEF Agree, R
<1>16. Fine(u, p) BY <1>0, <1>1, <1>9, <1>11, <1>15 DEF Fine
<1>12. Within(S) => Within(T) BY <1>2, <1>3, SetItemsWithin DEF T, L
<1>13. \A j \in DOMAIN T : Swept(T[j]) \/ \E l \in DOMAIN S : S[l].scope # k /\ T[j] = S[l]
  <2> SUFFICES ASSUME NEW j \in DOMAIN T
               PROVE  Swept(T[j]) \/ \E l \in DOMAIN S : S[l].scope # k /\ T[j] = S[l]
    OBVIOUS
  <2>1. CASE T[j].scope # k BY <1>4, <2>1 DEF Puts
  <2>2. CASE T[j].scope = k
    <3>1. T[j].items = q BY <1>4, <2>2 DEF Puts
    <3>2. T[j].items # <<>> BY <1>4, <1>5, <2>2
    <3> QED BY <1>3, <3>1, <3>2 DEF Swept
  <2> QED BY <2>1, <2>2
<1>14. \A l \in DOMAIN S : S[l].scope # k => \E j \in DOMAIN T : T[j] = S[l]
  BY <1>2, <1>4
<1> QED BY <1>12, <1>13, <1>14, <1>16 DEF u, T, q, L, S

\* A sweep of the session of k, from the sessions S to the sessions T.
Sweeps(S, T, k) ==
    /\ Within(S) => Within(T)
    /\ \A j \in DOMAIN T : Swept(T[j]) \/ \E l \in DOMAIN S : S[l].scope # k /\ T[j] = S[l]
    /\ \A l \in DOMAIN S : S[l].scope # k => \E j \in DOMAIN T : T[j] = S[l]

LEMMA ExpireSessionFacts ==
  ASSUME NEW t, NEW p, Fine(t, p), now \in Nat, NEW k \in Scopes, At(t.st.sessions, k) # 0
  PROVE  /\ Fine(ExpireSession(t, k), p)
         /\ Sweeps(t.st.sessions, ExpireSession(t, k).st.sessions, k)
<1> DEFINE S == t.st.sessions
           L == ItemsOf(S, k)
           n == Len(L)
           i == At(S, k)
<1>0. S \in Loose BY FineFacts
<1>1. L \in Seq(Thing) /\ i \in DOMAIN S /\ S[i].scope = k BY <1>0, InFacts, LooseAt
<1>2. PICK c : /\ Expires(t, k, c)
               /\ ExpireSession(t, k) = WithSessions(c[n], SetItems(c[n].st.sessions,
                     At(c[n].st.sessions, k), Unexpired(ItemsOf(c[n].st.sessions, k))))
  BY <1>1, ExpireRuns
<1>3. n \in Nat /\ \A j \in 1 .. n : L[j].id \in Nat
  <2> HIDE DEF L
  <2>1. n \in Nat /\ \A j \in 1 .. n : L[j] \in Thing BY <1>1, LenProperties
  <2> QED BY <2>1 DEF Thing, Item
<1>4. /\ c[0] = t
      /\ \A j \in 1 .. n : c[j] = IF Due(L[j]) THEN ExpireItem(c[j - 1], k, L[j].id) ELSE c[j - 1]
  BY <1>2 DEF Expires
<1> HIDE DEF L, n, i, S
<1> DEFINE T == {m \in Nat : /\ Fine(c[m], p) /\ SameShape(S, c[m].st.sessions)
                             /\ Elsewhere(S, c[m].st.sessions, k)}
<1>5. 0 \in T BY <1>4 DEF SameShape, Elsewhere, S
<1>6. ASSUME NEW m \in 0 .. n - 1, m \in T PROVE m + 1 \in T
  <2>1. m + 1 \in 1 .. n /\ (m + 1) - 1 = m /\ m + 1 \in Nat /\ m \in Nat BY <1>3
  <2>2. Fine(c[m], p) /\ SameShape(S, c[m].st.sessions) /\ Elsewhere(S, c[m].st.sessions, k)
    BY <1>6
  <2>3. c[m + 1] = IF Due(L[m + 1]) THEN ExpireItem(c[m], k, L[m + 1].id) ELSE c[m]
    BY <1>4, <2>1
  <2>4. CASE ~Due(L[m + 1]) BY <2>1, <2>2, <2>3, <2>4
  <2>5. CASE Due(L[m + 1])
    <3> DEFINE y == c[m]
               z == c[m + 1]
    <3>1. z = ExpireItem(y, k, L[m + 1].id) /\ L[m + 1].id \in Nat BY <1>3, <2>1, <2>3, <2>5
    <3> HIDE DEF z, y
    <3>2. Fine(y, p) /\ SameShape(S, y.st.sessions) /\ Elsewhere(S, y.st.sessions, k)
      BY <2>2 DEF y
    <3>3. At(y.st.sessions, k) # 0
      <4>1. y.st.sessions \in Loose /\ S \in Loose BY <1>0, <3>2, FineFacts DEF S
      <4>2. DOMAIN y.st.sessions = DOMAIN S BY <3>2, <4>1, LooseFacts DEF SameShape
      <4>3. i \in DOMAIN y.st.sessions /\ y.st.sessions[i].scope = k
        BY <1>1, <3>2, <4>2 DEF SameShape
      <4> QED BY <4>1, <4>3, InFacts
    <3>4. /\ Fine(z, p) /\ SameShape(y.st.sessions, z.st.sessions)
          /\ Elsewhere(y.st.sessions, z.st.sessions, k)
      BY <3>1, <3>2, <3>3, ExpireItemFacts
    <3>5. S \in Loose /\ y.st.sessions \in Loose BY <1>0, <3>2, FineFacts DEF S
    <3>6. DOMAIN S = DOMAIN y.st.sessions BY <3>2, <3>5, LooseFacts DEF SameShape
    <3>7. SameShape(S, z.st.sessions) BY <3>2, <3>4, <3>6 DEF SameShape
    <3>8. Elsewhere(S, z.st.sessions, k) BY <3>2, <3>4, <3>6 DEF Elsewhere, SameShape
    <3> QED BY <2>1, <3>4, <3>7, <3>8 DEF z
  <2> QED BY <2>4, <2>5
<1>7. n \in T
  <2>1. \A m \in 0 .. n : m \in T
    <3> HIDE DEF T
    <3> QED BY <1>3, <1>5, <1>6, UpTo
  <2> QED BY <1>3, <2>1
<1> DEFINE y == c[n]
           Y == y.st.sessions
<1>8. Fine(y, p) /\ SameShape(S, Y) /\ Elsewhere(S, Y, k) BY <1>7
<1> DEFINE u == ExpireSession(t, k)
<1>9. u = WithSessions(y, SetItems(Y, At(Y, k), Unexpired(ItemsOf(Y, k)))) BY <1>2
<1> HIDE DEF y, u, T
<1>10. Y \in Loose /\ S \in Loose BY <1>0, <1>8, FineFacts DEF S
<1>11. DOMAIN Y = DOMAIN S BY <1>8, <1>10, LooseFacts DEF SameShape
<1>12. i \in DOMAIN Y /\ Y[i].scope = k BY <1>1, <1>8, <1>11 DEF SameShape, S
<1>13. At(Y, k) = i /\ ItemsOf(Y, k) = Y[i].items BY <1>10, <1>12, InFacts
<1> DEFINE U == SetItems(Y, i, Unexpired(Y[i].items))
<1>14. /\ Fine(WithSessions(y, U), p)
       /\ Within(Y) => Within(U)
       /\ \A j \in DOMAIN U : Swept(U[j]) \/ \E l \in DOMAIN Y : Y[l].scope # k /\ U[j] = Y[l]
       /\ \A l \in DOMAIN Y : Y[l].scope # k => \E j \in DOMAIN U : U[j] = Y[l]
  BY <1>8, <1>12, SweepFacts
<1>15. u = WithSessions(y, U) /\ u.st.sessions = U BY <1>9, <1>13 DEF WithSessions, WithStore
<1> HIDE DEF U, Y
<1>16. Within(S) => Within(U) BY <1>8, <1>10, <1>14, ShapeWithin
<1>17. \A l \in DOMAIN Y : Y[l].scope # k => Y[l] = S[l] /\ S[l].scope # k
  BY <1>8, <1>11 DEF Elsewhere, SameShape
<1>18. \A l \in DOMAIN S : S[l].scope # k => Y[l] = S[l] BY <1>8 DEF Elsewhere
<1>19. Sweeps(S, U, k)
  <2>1. \A j \in DOMAIN U : Swept(U[j]) \/ \E l \in DOMAIN S : S[l].scope # k /\ U[j] = S[l]
    BY <1>11, <1>14, <1>17
  <2>2. \A l \in DOMAIN S : S[l].scope # k => \E j \in DOMAIN U : U[j] = S[l]
    BY <1>11, <1>14, <1>18
  <2> QED BY <1>16, <2>1, <2>2 DEF Sweeps
<1> QED BY <1>14, <1>15, <1>19 DEF u, S

\* c[n] is what the map has come to once its first n sessions were swept.
Purging(t, c) ==
    LET S == t.st.sessions IN
    c[0] = t /\ \A i \in 1 .. Len(S) : c[i] = ExpireSession(c[i - 1], S[i].scope)

LEMMA PurgeRuns ==
  ASSUME NEW t, t.st.sessions \in Seq(Session)
  PROVE  \E c : Purging(t, c) /\ PurgeExpired(t) = c[Len(t.st.sessions)]
<1> DEFINE S == t.st.sessions
           Step(y, i) == ExpireSession(y, S[i].scope)
           Is(n, f) == f = [i \in 0 .. n |-> IF i = 0 THEN t ELSE Step(f[i - 1], i)]
           T == {n \in Nat : \E f : Is(n, f)}
           r == Len(S)
           c == CHOOSE f : Is(r, f)
<1>0. r \in Nat BY LenProperties
<1>1. 0 \in T
  <2>1. Is(0, [i \in 0 .. 0 |-> t]) OBVIOUS
  <2> QED BY <2>1
<1>2. ASSUME NEW n \in Nat, n \in T PROVE n + 1 \in T
  <2>1. PICK f : Is(n, f) BY <1>2
  <2> HIDE DEF Step
  <2>2. PICK g : Longer(g, f, n, Step(f[n], n + 1)) BY LongerExists
  <2>3. ASSUME NEW i \in 0 .. n + 1 PROVE g[i] = IF i = 0 THEN t ELSE Step(g[i - 1], i)
    <3>1. CASE i \in 0 .. n
      <4>1. f[i] = IF i = 0 THEN t ELSE Step(f[i - 1], i) BY <2>1, <3>1
      <4> QED BY <2>2, <3>1, <4>1 DEF Longer
    <3>2. CASE i = n + 1 BY <2>2, <3>2 DEF Longer
    <3> QED BY <3>1, <3>2
  <2>4. Is(n + 1, g) BY <2>2, <2>3, Zenon DEF Longer
  <2> QED BY <2>4
<1>3. r \in T
  <2> HIDE DEF T, r
  <2> QED BY <1>0, <1>1, <1>2, SetInduction
<1>4. Is(r, c)
  <2>1. \E f : Is(r, f) BY <1>3
  <2> HIDE DEF Is
  <2> QED BY <2>1
<1>5. PurgeExpired(t) = c[r] BY DEF PurgeExpired, Fold
<1> HIDE DEF c, r
<1>6. ASSUME NEW i \in 0 .. r PROVE c[i] = IF i = 0 THEN t ELSE Step(c[i - 1], i)
  <2> DEFINE F(l) == IF l = 0 THEN t ELSE Step(c[l - 1], l)
  <2>1. c = [l \in 0 .. r |-> F(l)] BY <1>4
  <2> HIDE DEF F
  <2>2. c[i] = F(i) BY <2>1
  <2> QED BY <2>2 DEF F
<1>7. c[0] = t BY <1>0, <1>6
<1>8. ASSUME NEW i \in 1 .. r PROVE c[i] = Step(c[i - 1], i)
  BY <1>0, <1>6
<1>9. Purging(t, c) BY <1>7, <1>8 DEF Purging, r
<1> QED BY <1>5, <1>9 DEF r

LEMMA PurgeExpiredFacts ==
  ASSUME NEW t, NEW p, Fine(t, p), now \in Nat
  PROVE  LET T == PurgeExpired(t).st.sessions IN
         /\ Fine(PurgeExpired(t), p) /\ T \in Map /\ Fresh(T)
         /\ Within(t.st.sessions) => Within(T)
<1> DEFINE S == t.st.sessions
           n == Len(S)
<1>0. /\ S \in Loose /\ S \in Seq(Session) /\ n \in Nat /\ DOMAIN S = 1 .. n /\ ScopesUnique(S)
      /\ \A i \in 1 .. n : S[i].scope \in Scopes
  BY FineFacts, LooseFacts
<1>1. PICK c : Purging(t, c) /\ PurgeExpired(t) = c[n] BY <1>0, PurgeRuns
<1>2. c[0] = t /\ \A i \in 1 .. n : c[i] = ExpireSession(c[i - 1], S[i].scope)
  BY <1>1 DEF Purging
<1> HIDE DEF n
<1> DEFINE Left(U, m) ==
             /\ Within(S) => Within(U)
             /\ \A j \in DOMAIN U : Swept(U[j]) \/ \E i \in 1 .. n : i > m /\ U[j] = S[i]
             /\ \A i \in 1 .. n : i > m => \E j \in DOMAIN U : U[j] = S[i]
           T == {m \in Nat : Fine(c[m], p) /\ Left(c[m].st.sessions, m)}
<1>3. 0 \in T
  <2>1. \A i \in 1 .. n : i > 0 BY <1>0
  <2>2. Left(S, 0) BY <1>0, <2>1
  <2> QED BY <1>2, <2>2
<1>4. ASSUME NEW m \in 0 .. n - 1, m \in T PROVE m + 1 \in T
  <2> DEFINE k == S[m + 1].scope
             Y == c[m].st.sessions
             U == c[m + 1].st.sessions
  <2>1. m + 1 \in 1 .. n /\ (m + 1) - 1 = m /\ m + 1 \in Nat /\ m \in Nat /\ m + 1 > m BY <1>0
  <2>2. Fine(c[m], p) /\ Left(Y, m) BY <1>4
  <2>3. c[m + 1] = ExpireSession(c[m], k) /\ k \in Scopes BY <1>0, <1>2, <2>1
  <2>4. At(Y, k) # 0
    <3>1. \E j \in DOMAIN Y : Y[j] = S[m + 1] BY <2>1, <2>2
    <3>2. Y \in Loose BY <2>2, FineFacts
    <3> QED BY <3>1, <3>2, InFacts
  <2>5. Fine(c[m + 1], p) /\ Sweeps(Y, U, k) BY <2>2, <2>3, <2>4, ExpireSessionFacts
  <2> HIDE DEF Y, U
  <2>6. \A i \in 1 .. n : i > m /\ S[i].scope # k => i > m + 1 BY <1>0, <2>1
  <2>7. \A i \in 1 .. n : i > m + 1 => i > m /\ S[i].scope # k
    <3> SUFFICES ASSUME NEW i \in 1 .. n, i > m + 1 PROVE i > m /\ S[i].scope # k OBVIOUS
    <3>1. i > m /\ i # m + 1 BY <1>0, <2>1
    <3>2. i \in DOMAIN S /\ m + 1 \in DOMAIN S BY <1>0, <2>1
    <3>3. S[i].scope # S[m + 1].scope BY <1>0, <3>1, <3>2 DEF ScopesUnique
    <3> QED BY <3>1, <3>3
  <2>8. Within(S) => Within(U) BY <2>2, <2>5 DEF Sweeps
  <2>9. \A j \in DOMAIN U : Swept(U[j]) \/ \E i \in 1 .. n : i > m + 1 /\ U[j] = S[i]
    <3> SUFFICES ASSUME NEW j \in DOMAIN U, ~Swept(U[j])
                 PROVE  \E i \in 1 .. n : i > m + 1 /\ U[j] = S[i]
      OBVIOUS
    <3>1. PICK l \in DOMAIN Y : Y[l].scope # k /\ U[j] = Y[l] BY <2>5 DEF Sweeps
    <3>2. PICK i \in 1 .. n : i > m /\ Y[l] = S[i] BY <2>2, <3>1
    <3>3. i > m + 1 BY <2>6, <3>1, <3>2
    <3> QED BY <3>1, <3>2, <3>3
  <2>10. \A i \in 1 .. n : i > m + 1 => \E j \in DOMAIN U : U[j] = S[i]
    <3> SUFFICES ASSUME NEW i \in 1 .. n, i > m + 1 PROVE \E j \in DOMAIN U : U[j] = S[i]
      OBVIOUS
    <3>1. i > m /\ S[i].scope # k BY <2>7
    <3>2. PICK l \in DOMAIN Y : Y[l] = S[i] BY <2>2, <3>1
    <3> QED BY <2>5, <3>1, <3>2 DEF Sweeps
  <2>11. Left(U, m + 1) BY <2>8, <2>9, <2>10
  <2> HIDE DEF Left
  <2> QED BY <2>1, <2>5, <2>11 DEF U
<1>5. n \in T
  <2>1. \A m \in 0 .. n : m \in T
    <3> HIDE DEF T
    <3> QED BY <1>0, <1>3, <1>4, UpTo
  <2> QED BY <1>0, <2>1
<1> DEFINE u == PurgeExpired(t)
           U == u.st.sessions
<1>6. Fine(u, p) /\ Left(U, n) BY <1>1, <1>5
<1> HIDE DEF u, T
<1>7. U \in Loose BY <1>6, FineFacts
<1> HIDE DEF U
<1>8. \A i \in 1 .. n : ~(i > n) BY <1>0
<1>9. \A j \in DOMAIN U : Swept(U[j]) BY <1>6, <1>8
<1>10. U \in Map BY <1>7, <1>9, MapIsLoose DEF Swept
<1>11. Fresh(U)
  <2> SUFFICES ASSUME NEW k \in Scopes, NEW x \in In(U, k) PROVE x.status # "expired"
    BY DEF Fresh
  <2>1. PICK j \in DOMAIN U : In(U, k) = ToSet(U[j].items) BY <1>7, InFacts
  <2> QED BY <1>9, <2>1 DEF Swept
<1> QED BY <1>6, <1>10, <1>11 DEF u, U

(***************************************************************************)
(* mark.                                                                   *)
(***************************************************************************)
\* Records of one scope with the same id are the same.
LEMMA InUnique ==
  ASSUME NEW S \in Loose, NEW k, NEW x \in In(S, k), NEW y \in In(S, k), x.id = y.id
  PROVE  x = y
<1> DEFINE L == ItemsOf(S, k)
<1>1. L \in Seq(Thing) /\ Sorted(L) /\ In(S, k) = ToSet(L) BY InFacts DEF In
<1> HIDE DEF L
<1>2. PICK i \in DOMAIN L, j \in DOMAIN L : L[i] = x /\ L[j] = y BY <1>1 DEF ToSet
<1>3. i \in Nat /\ j \in Nat /\ L[i].id \in Nat /\ L[j].id \in Nat
  <2>1. DOMAIN L = 1 .. Len(L) /\ Len(L) \in Nat /\ L[i] \in Thing /\ L[j] \in Thing
    BY <1>1, LenProperties
  <2> QED BY <2>1 DEF Thing, Item
<1>4. ~(L[i].id < L[j].id) /\ ~(L[j].id < L[i].id) BY <1>2, <1>3
<1>5. ~(i < j) /\ ~(j < i) BY <1>1, <1>4 DEF Sorted
<1> QED BY <1>2, <1>3, <1>5

\* The store changes what its records say, but none of D to pending.
LEMMA KeptEcho ==
  ASSUME NEW t, NEW b, NEW a, NEW c, NEW D, NEW w, Kept(t, b, a, c, D, w),
         NEW T, T \in Loose, Touched(T), Short(T), Echoes(T, t.st.sessions), w => Firm(T, D)
  PROVE  Kept(WithSessions(t, T), b, a, c, D, w)
<1> DEFINE S == t.st.sessions
           R == Replay(t.rows).sessions
           n == t.st.nextId
           u == WithSessions(t, T)
<1>0. Match(t.st, t.rows, b, a, c, D, w) BY DEF Kept
<1>1. StoreOK(t.st, a, D, w) /\ FileOK(t.rows, b, c, D, w) /\ Paired(S, R) /\ (w => ~Torn(t.rows))
  BY <1>0 DEF Match
<1>2. n \in Nat \ {0} /\ Side(S, n, a) /\ Paired(S, S) BY <1>1 DEF StoreOK
<1>3. Echoes(R, R) BY <1>1, FadesItself, FadesEcho DEF FileOK
<1>4. u.st.sessions = T /\ u.st.nextId = n /\ u.rows = t.rows /\ u.moments = t.moments
  BY DEF WithSessions, WithStore
<1> HIDE DEF S, R, n, u
<1>5. Echoes(T, S) BY DEF S
<1>6. Side(T, n, a) BY <1>2, <1>5, EchoSide
<1>7. Paired(T, T) /\ Paired(T, R) BY <1>1, <1>2, <1>3, <1>5, EchoPaired
<1>8. StoreOK(u.st, a, D, w) BY <1>2, <1>4, <1>6, <1>7 DEF StoreOK
<1>9. Match(u.st, u.rows, b, a, c, D, w) BY <1>1, <1>4, <1>7, <1>8 DEF Match, R
<1>10. Kept(u, b, a, c, D, w) BY <1>4, <1>9 DEF Kept, n
<1> QED BY <1>10 DEF u

\* So does the file.
LEMMA KeptEchoRow ==
  ASSUME NEW t, NEW b, NEW a, NEW c, NEW D, NEW w, Kept(t, b, a, c, D, w),
         NEW row \in Rows, row # Fragment,
         LET R == Replay(t.rows)
             U == ApplyRow(R, row) IN
         /\ U.nextId = R.nextId /\ U.sessions \in Map /\ Touched(U.sessions)
         /\ Echoes(U.sessions, R.sessions) /\ (w => Firm(U.sessions, D))
  PROVE  Kept(Write(t, row), b, a, c, D, w)
<1> DEFINE S == t.st.sessions
           R == Replay(t.rows)
           V == ApplyRow(R, row)
           q == AddRow(t.rows, row)
           U == Replay(q)
           u == Write(t, row)
<1>0. Match(t.st, t.rows, b, a, c, D, w) BY DEF Kept
<1>1. /\ StoreOK(t.st, a, D, w) /\ FileOK(t.rows, b, c, D, w) /\ Paired(S, R.sessions)
      /\ (w => ~Torn(t.rows))
  BY <1>0 DEF Match
<1>2. /\ t.rows \in Seq(Rows) /\ R.nextId \in Nat \ {0} /\ R.nextId <= b /\ R.sessions \in Map
      /\ Side(R.sessions, R.nextId, c) /\ Paired(R.sessions, R.sessions)
      /\ (w => Firm(R.sessions, D))
  BY <1>1 DEF FileOK
<1>3. Echoes(S, S) /\ Echoes(R.sessions, R.sessions)
  BY <1>1, <1>2, FadesItself, FadesEcho DEF StoreOK
<1>4. /\ u.st = t.st /\ u.rows = q
      /\ u.moments = t.moments \cup {[st |-> t.st, rows |-> t.rows]}
  BY DEF Write, Moment
<1>5. /\ V.nextId = R.nextId /\ V.sessions \in Map /\ Touched(V.sessions)
      /\ Echoes(V.sessions, R.sessions) /\ (w => Firm(V.sessions, D))
  OBVIOUS
<1>6. q \in Seq(Rows) /\ ~Torn(q) /\ U = IF Torn(t.rows) THEN R ELSE V
  BY <1>2, AddRowFacts
<1> HIDE DEF S, R, V, q, U, u
<1>7. /\ U.nextId = R.nextId /\ U.sessions \in Map /\ Touched(U.sessions)
      /\ Echoes(U.sessions, R.sessions) /\ (w => Firm(U.sessions, D))
  BY <1>2, <1>3, <1>5, <1>6 DEF Side
<1>8. Side(U.sessions, U.nextId, c) BY <1>2, <1>7, MapIsLoose, EchoSide
<1>9. Paired(U.sessions, U.sessions) /\ Paired(S, U.sessions)
  BY <1>1, <1>2, <1>3, <1>7, EchoPaired
<1>10. FileOK(q, b, c, D, w) BY <1>2, <1>6, <1>7, <1>8, <1>9 DEF FileOK, U
<1>11. Match(u.st, u.rows, b, a, c, D, w) BY <1>1, <1>4, <1>6, <1>9, <1>10 DEF Match, S, U
<1>12. Sound(t.st, t.rows, a, D, w) BY KeptIsSound
<1>13. \A m \in u.moments : Sound(m.st, m.rows, a, D, w) BY <1>4, <1>12 DEF Kept
<1>14. Kept(u, b, a, c, D, w) BY <1>4, <1>11, <1>13 DEF Kept
<1> QED BY <1>14 DEF u

LEMMA FoundFacts ==
  ASSUME NEW t, t.st.sessions \in Loose, NEW k \in Scopes, NEW id
  PROVE  /\ Found(t, k, id) <=> \E x \in In(t.st.sessions, k) : x.id = id
         /\ Found(t, k, id) <=> Contents(t.st.sessions, k, id) # {}
<1> DEFINE L == ItemsOf(t.st.sessions, k)
<1>1. L \in Seq(Thing) /\ Sorted(L) /\ In(t.st.sessions, k) = ToSet(L) BY InFacts DEF In
<1>2. Found(t, k, id) <=> PlaceOf(L, id) # 0 BY DEF Found
<1> HIDE DEF L
<1>3. Found(t, k, id) <=> \E x \in ToSet(L) : x.id = id BY <1>1, <1>2, PlaceFacts
<1> QED BY <1>1, <1>3 DEF Contents

\* A record that is found is the one the file means too.
LEMMA ContentsFacts ==
  ASSUME NEW S, NEW R, Paired(S, R), NEW k \in Scopes, NEW id, NEW l \in Scopes, NEW y \in In(R, l)
  PROVE  /\ y.content \in Contents(S, k, id) => l = k /\ y.id = id
         /\ Contents(S, k, id) # {} /\ l = k /\ y.id = id => y.content \in Contents(S, k, id)
<1>1. ASSUME y.content \in Contents(S, k, id) PROVE l = k /\ y.id = id
  <2>1. PICK x \in In(S, k) : x.id = id /\ x.content = y.content BY <1>1 DEF Contents
  <2> QED BY <2>1 DEF Paired
<1>2. ASSUME Contents(S, k, id) # {}, l = k, y.id = id PROVE y.content \in Contents(S, k, id)
  <2>1. PICK x \in In(S, k) : x.id = id BY <1>2 DEF Contents
  <2>2. x.content = y.content BY <1>2, <2>1 DEF Paired
  <2>3. x.content \in Contents(S, k, id) BY <2>1 DEF Contents
  <2> QED BY <2>2, <2>3
<1> QED BY <1>1, <1>2

LEMMA FirmLess ==
  ASSUME NEW S, NEW D, NEW C, Firm(S, D), C \subseteq D
  PROVE  Firm(S, C)
BY DEF Firm

LEMMA FirmBoth ==
  ASSUME NEW S, NEW D, NEW C, Firm(S, D), Firm(S, C)
  PROVE  Firm(S, D \cup C)
BY DEF Firm

LEMMA SoundLess ==
  ASSUME NEW st, NEW rows, NEW a, NEW D, NEW w, Sound(st, rows, a, D, w), NEW C, C \subseteq D
  PROVE  Sound(st, rows, a, C, w)
BY FirmLess DEF Sound, Match, StoreOK, FileOK

LEMMA BeginFine ==
  ASSUME WalInv, up, NEW D, D \subseteq hist.decided, NEW C
  PROVE  /\ Fine(Begin, Starts(D, C)) /\ (~hist.threw => Within(Begin.st.sessions))
         /\ hist.appends \in Nat /\ now \in Nat
<1> DEFINE p == Starts(D, C)
<1>1. /\ Sound(store, journal, hist.appends, hist.decided, hist.shorts = 0)
      /\ hist \in Hist /\ now \in 0 .. MaxNow
      /\ hist.shorts > 0 => hist.threw
      /\ ~hist.threw => /\ Within(store.sessions)
                        /\ Shows(store.sessions, Replay(journal).sessions, {})
                        /\ Shows(Replay(journal).sessions, store.sessions, {})
  BY DEF WalInv
<1>2. /\ Begin.st = store /\ Begin.rows = journal /\ Begin.moments = {} BY DEF Begin
<1>3. /\ p.n = store.nextId /\ p.b = store.nextId /\ p.a = hist.appends /\ p.c = hist.appends
      /\ p.D = D /\ p.w = (hist.shorts = 0) /\ p.e = {} /\ p.v = ~hist.threw
      /\ p.x = Unacked(hist) /\ p.m = Unacked(hist) \cup C /\ p.s = hist.shorts
  BY DEF Starts
<1> HIDE DEF p
<1>4. hist.appends \in Nat /\ hist.shorts \in Nat /\ now \in Nat
  BY <1>1, BudgetAssumption DEF Hist
<1>5. Sound(store, journal, hist.appends, D, hist.shorts = 0) BY <1>1, SoundLess
<1>6. store.nextId \in Nat BY <1>5 DEF Sound, Match, StoreOK
<1>7. Match(store, journal, p.b, p.a, p.c, p.D, p.w) BY <1>3, <1>5 DEF Sound
<1>8. Kept(Begin, p.b, p.a, p.c, p.D, p.w)
  BY <1>2, <1>3, <1>4, <1>6, <1>7 DEF Kept
<1>9. ASSUME p.v PROVE p.w /\ Agree(Begin, p.e)
  <2>1. ~hist.threw BY <1>3, <1>9
  <2>2. hist.shorts = 0 BY <1>1, <1>4, <2>1
  <2> QED BY <1>1, <1>2, <1>3, <2>1, <2>2 DEF Agree
<1>10. Owed(Begin, p)
  <2>1. Covered(store, journal, Unacked(hist), hist.shorts) BY DEF WalInv
  <2>2. p.x \subseteq p.m /\ p.s \in Nat BY <1>3, <1>4
  <2>3. Covered(Begin.st, Begin.rows, p.x, p.s) BY <1>2, <1>3, <2>1
  <2> QED BY <1>2, <2>2, <2>3 DEF Owed
<1>11. Fine(Begin, p) BY <1>2, <1>3, <1>8, <1>9, <1>10 DEF Fine
<1> QED BY <1>1, <1>2, <1>4, <1>11 DEF p

\* A mark that purges its record.
LEMMA PurgeMarkedFacts ==
  ASSUME NEW t, NEW p, Fine(t, p), t.st.sessions \in Map, now \in Nat, NEW k \in Scopes,
         NEW id \in Nat \ {0}, Found(t, k, id)
  PROVE  LET u == PurgeMarked(t, k, id)
             C == Contents(t.st.sessions, k, id) IN
         /\ Fine(u, p)
         /\ Within(t.st.sessions) => Within(u.st.sessions)
         /\ p.w => Firm(u.st.sessions, C) /\ Firm(Replay(u.rows).sessions, C)
<1> DEFINE S == t.st.sessions
           L == ItemsOf(S, k)
           q == Without(L, id)
           i == At(S, k)
           T == SetItems(S, i, q)
           y == WithSessions(t, T)
           row == PurgeRow(k, id)
           u == PurgeMarked(t, k, id)
           R == Replay(t.rows)
           U == ApplyRow(R, row)
           C == Contents(S, k, id)
<1>0. /\ t.st.nextId = p.n /\ p.n \in Nat \ {0} /\ Side(S, p.n, p.a) /\ S \in Loose /\ Short(S)
      /\ Touched(S) /\ Paired(S, S)
      /\ \A l \in Scopes : \A x \in In(S, l) : x \in Entry
      /\ t.rows \in Seq(Rows) /\ (p.w => ~Torn(t.rows))
      /\ R.sessions \in Map /\ Touched(R.sessions)
      /\ \A l \in Scopes : \A x \in In(R.sessions, l) : x \in Entry
      /\ Paired(S, R.sessions)
  BY FineFacts
<1>1. u = Write(y, row) BY DEF PurgeMarked
<1>2. /\ y.st.sessions = T /\ y.st.nextId = t.st.nextId /\ y.rows = t.rows
      /\ u.st = y.st /\ u.rows = AddRow(y.rows, row)
      /\ u.moments = t.moments \cup {Moment(y)}
  BY <1>1 DEF WithSessions, WithStore, Write
<1>3. row \in ShedRows /\ row \in Rows /\ row # Fragment
  BY DEF ShedRows, Rows, PurgeRow, Fragment
<1>4. i \in DOMAIN S /\ S[i].scope = k /\ L = S[i].items
  <2>1. \E x \in In(S, k) : x.id = id BY <1>0, FoundFacts
  <2> QED BY <1>0, <2>1, InFacts
<1>5. L \in Seq(Thing) /\ Sorted(L) /\ In(S, k) = ToSet(L) BY <1>0, InFacts DEF In
<1>6. C # {} BY <1>0, FoundFacts
<1> HIDE DEF S, R, i, L, U, row, u, C
<1>7. /\ q \in Seq(Thing) /\ Sorted(q) /\ Len(q) <= Len(L)
      /\ ToSet(q) = {x \in ToSet(L) : x.id # id}
  BY <1>5, WithoutFacts
<1> HIDE DEF q
<1>8. Puts(S, T, k, q, S[i].at) BY <1>0, <1>4, <1>7, PutsSet
<1>9. T \in Loose /\ (Within(S) => Within(T))
  <2>1. T \in Loose BY <1>8 DEF Puts
  <2> QED BY <1>4, <1>7, <2>1, SetItemsWithin
<1>10. Fades(T, S) /\ Touched(T)
  <2>1. S[i].at <= now BY <1>0, <1>4 DEF Touched
  <2>2. \A x \in ToSet(q) : x \in Entry /\ \E z \in In(S, k) :
                                Same(x, z) /\ x.status \in {z.status, "expired"}
    BY <1>0, <1>5, <1>7 DEF Same
  <2> QED BY <1>0, <1>8, <2>1, <2>2, FadesPuts
<1>11. Short(T)
  <2>1. S \in Seq(Session) /\ \A j \in DOMAIN S : Len(S[j].items) <= MaxPerSession
    BY <1>0, LooseFacts DEF Short
  <2>2. Len(q) <= MaxPerSession
    <3>1. Len(L) <= MaxPerSession BY <1>4, <2>1
    <3>2. Len(q) \in Nat /\ Len(L) \in Nat BY <1>5, <1>7
    <3> QED BY <1>7, <3>1, <3>2, BudgetAssumption
  <2>3. \A j \in DOMAIN T : T[j].items = q \/ \E l \in DOMAIN S : T[j] = S[l]
    BY <1>8 DEF Puts
  <2> QED BY <2>1, <2>2, <2>3 DEF Short
<1>12. Holding(S, T, k, Spares(In(S, k), id))
  <2>1. ToSet(q) = Spares(In(S, k), id) BY <1>5, <1>7 DEF Spares, Whole
  <2> QED BY <1>8, <2>1 DEF Puts, Holding
<1> HIDE DEF T
<1>13. Kept(y, p.b, p.a, p.c, p.D, p.w) BY <1>9, <1>10, <1>11, KeptStore DEF Fine, S
<1> HIDE DEF y
<1>14. Kept(u, p.b, p.a, p.c, p.D, p.w) BY <1>1, <1>3, <1>13, KeptRow
<1>15. Holding(R.sessions, U.sessions, k, Spares(In(R.sessions, k), id))
  BY <1>0, PurgeRowFacts DEF U, row
<1>16. p.w => Replay(u.rows) = U BY <1>0, <1>2, <1>3, AddRowFacts DEF U, R
<1>17. /\ Drops(T, S) /\ Passes(T, R.sessions, U.sessions)
       /\ Drops(U.sessions, R.sessions) /\ Passes(U.sessions, S, T)
  BY <1>12, <1>15, SparedPasses
<1>18. Fine(u, p)
  <2>1. Owed(u, p)
    <3>1. Owed(t, p) BY DEF Fine
    <3> QED BY <1>0, <1>2, <1>3, <1>17, <3>1, OwedRow DEF R, U, S
  <2>2. ASSUME p.v PROVE p.w /\ Agree(u, p.e)
    <3>1. p.w /\ Shows(S, R.sessions, p.e) /\ Shows(R.sessions, S, {})
      BY <2>2 DEF Fine, Agree, S, R
    <3>2. Shows(T, U.sessions, p.e) BY <1>17, <3>1, ShowsShed
    <3>3. Shows(U.sessions, T, {}) BY <1>17, <3>1, ShowsShed
    <3> QED BY <1>2, <1>16, <3>1, <3>2, <3>3 DEF Agree
  <2> QED BY <1>0, <1>2, <1>14, <2>1, <2>2 DEF Fine
<1>19. Firm(T, C)
  <2> SUFFICES ASSUME NEW l \in Scopes, NEW x \in In(T, l), x.content \in C PROVE FALSE
    BY DEF Firm
  <2>1. x \in In(S, l) /\ (l = k => x.id # id) BY <1>12 DEF Holding, Spares
  <2> QED BY <1>0, <2>1, ContentsFacts DEF C
<1>20. p.w => Firm(U.sessions, C)
  <2> SUFFICES ASSUME NEW l \in Scopes, NEW x \in In(U.sessions, l), x.content \in C PROVE FALSE
    BY DEF Firm
  <2>1. x \in In(R.sessions, l) /\ (l = k => x.id # id) BY <1>15 DEF Holding, Spares
  <2> QED BY <1>0, <2>1, ContentsFacts DEF C
<1> QED BY <1>2, <1>9, <1>16, <1>18, <1>19, <1>20 DEF u, C, S

\* Both mark the same record.
LEMMA ShowsMarked ==
  ASSUME NEW S, NEW R, NEW T, NEW U, NEW E, Shows(S, R, E), now \in Nat, NEW k \in Scopes, NEW id,
         NEW status \in Statuses \cup {"expired"},
         \A l \in Scopes : \A x \in In(S, l) : x \in Entry,
         \A l \in Scopes : \A x \in In(R, l) : x \in Entry,
         Holding(S, T, k, RestatedAll(In(S, k), id, status, now)),
         Holding(R, U, k, RestatedAll(In(R, k), id, status, now)),
         \A x \in In(S, k) : x.id = id => x.status # "expired"
  PROVE  Shows(T, U, E)
<1> SUFFICES ASSUME NEW l \in Scopes, NEW x \in In(T, l), x.status # "expired", x.content \notin E
             PROVE  \E y \in In(U, l) : Alike(x, y)
  BY DEF Shows
<1>1. CASE l # k BY <1>1 DEF Holding, Shows
<1>2. CASE l = k
  <2>1. PICK y \in In(S, k) : x = Restated(y, id, status, now)
    BY <1>2 DEF Holding, RestatedAll
  <2>2. y \in Entry BY <1>2
  <2>3. Same(x, y) /\ (y.id = id => x.status = status) /\ (y.id # id => x = y)
    BY <2>1, <2>2, RestatedEntry
  <2>4. y.status # "expired" /\ y.content \notin E BY <2>3 DEF Same
  <2>5. PICK z \in In(R, k) : Alike(y, z) BY <2>4 DEF Shows
  <2> DEFINE v == Restated(z, id, status, now)
  <2>6. z \in Entry BY <2>5
  <2>7. Same(v, z) /\ (z.id = id => v.status = status) /\ (z.id # id => v = z)
    BY <2>6, RestatedEntry
  <2>8. v \in RestatedAll(In(R, k), id, status, now) BY DEF RestatedAll
  <2>9. v \in In(U, l) BY <1>2, <2>8 DEF Holding
  <2> HIDE DEF v
  <2>10. Alike(x, v) BY <2>3, <2>5, <2>7 DEF Alike, Same
  <2> QED BY <2>9, <2>10
<1> QED BY <1>1, <1>2

\* A mark in memory alone leaves what it does not name.
LEMMA ShowsUnnamed ==
  ASSUME NEW S, NEW R, NEW T, NEW E, Shows(S, R, E), now \in Nat, NEW k \in Scopes, NEW id,
         NEW status \in Statuses \cup {"expired"},
         \A l \in Scopes : \A x \in In(S, l) : x \in Entry,
         Holding(S, T, k, RestatedAll(In(S, k), id, status, now)),
         NEW F, E \subseteq F, Contents(S, k, id) \subseteq F
  PROVE  Shows(T, R, F)
<1> SUFFICES ASSUME NEW l \in Scopes, NEW x \in In(T, l), x.status # "expired", x.content \notin F
             PROVE  \E y \in In(R, l) : Alike(x, y)
  BY DEF Shows
<1>1. x \in In(S, l)
  <2>1. CASE l # k BY <2>1 DEF Holding
  <2>2. CASE l = k
    <3>1. PICK y \in In(S, k) : x = Restated(y, id, status, now)
      BY <2>2 DEF Holding, RestatedAll
    <3>2. y \in Entry BY <2>2
    <3>3. Same(x, y) /\ (y.id # id => x = y) BY <3>1, <3>2, RestatedEntry
    <3>4. y.content \notin Contents(S, k, id) BY <3>3 DEF Same
    <3>5. y.id # id BY <3>4 DEF Contents
    <3> QED BY <2>2, <3>3, <3>5
  <2> QED BY <2>1, <2>2
<1> QED BY <1>1 DEF Shows

\* No mark makes a record of D pending that it does not name.
LEMMA FirmMarked ==
  ASSUME NEW S, NEW T, NEW D, NEW k \in Scopes, NEW id, now \in Nat,
         NEW status \in Statuses \cup {"expired"},
         \A l \in Scopes : \A x \in In(S, l) : x \in Entry,
         Holding(S, T, k, RestatedAll(In(S, k), id, status, now)),
         \A l \in Scopes : \A x \in In(S, l) :
             x.content \in D => \/ x.status \notin Pending /\ (l # k \/ x.id # id)
                                \/ status \notin Pending /\ l = k /\ x.id = id
  PROVE  Firm(T, D)
<1> SUFFICES ASSUME NEW l \in Scopes, NEW x \in In(T, l), x.content \in D
             PROVE  x.status \notin Pending
  BY DEF Firm
<1>1. CASE l # k BY <1>1 DEF Holding
<1>2. CASE l = k
  <2>1. PICK y \in In(S, k) : x = Restated(y, id, status, now)
    BY <1>2 DEF Holding, RestatedAll
  <2>2. y \in Entry BY <1>2
  <2>3. Same(x, y) /\ (y.id = id => x.status = status) /\ (y.id # id => x = y)
    BY <2>1, <2>2, RestatedEntry
  <2>4. y.content \in D BY <2>3 DEF Same
  <2> QED BY <1>2, <2>3, <2>4
<1> QED BY <1>1, <1>2

\* A mark that records a decision.
LEMMA ApplyDecisionFacts ==
  ASSUME NEW t, NEW p, Fine(t, p), p.e = {}, t.st.sessions \in Map, Fresh(t.st.sessions),
         now \in Nat, NEW k \in Scopes, NEW id \in Nat, Found(t, k, id), NEW status \in Statuses,
         status \in Pending => p.D \cap Contents(t.st.sessions, k, id) = {},
         Contents(t.st.sessions, k, id) \subseteq p.m
  PROVE  LET u == ApplyDecision(t, k, id, status)
             C == Contents(t.st.sessions, k, id) IN
         /\ Fine(u, p)
         /\ Within(t.st.sessions) => Within(u.st.sessions)
         /\ p.w /\ status \notin Pending =>
               Firm(u.st.sessions, C) /\ Firm(Replay(u.rows).sessions, C)
<1> DEFINE S == t.st.sessions
           i == At(S, k)
           T == [S EXCEPT ![i].items = SetStatus(S[i].items, id, status, now), ![i].at = now]
           y == WithSessions(t, T)
           row == MarkRow(k, id, status)
           u == ApplyDecision(t, k, id, status)
           R == Replay(t.rows)
           U == ApplyRow(R, row)
           C == Contents(S, k, id)
<1>0. /\ t.st.nextId = p.n /\ p.n \in Nat \ {0} /\ Side(S, p.n, p.a) /\ S \in Loose /\ Short(S)
      /\ Touched(S) /\ Paired(S, S)
      /\ \A l \in Scopes : \A x \in In(S, l) : x \in Entry
      /\ t.rows \in Seq(Rows) /\ (p.w => ~Torn(t.rows))
      /\ R.sessions \in Map /\ Touched(R.sessions)
      /\ \A l \in Scopes : \A x \in In(R.sessions, l) : x \in Entry
      /\ Paired(S, R.sessions)
  BY FineFacts
<1>00. status \in Statuses \cup {"expired"} OBVIOUS
<1>000. R.sessions \in Loose BY <1>0, MapIsLoose
<1>1. u = Write(y, row) BY DEF ApplyDecision
<1>2. /\ y.st.sessions = T /\ y.st.nextId = t.st.nextId /\ y.rows = t.rows
      /\ u.st = y.st /\ u.rows = AddRow(y.rows, row)
      /\ u.moments = t.moments \cup {Moment(y)}
  BY <1>1 DEF WithSessions, WithStore, Write
<1>3. row \in Rows /\ row # Fragment
  <2>1. row.op = "mark" /\ Fragment.op = "fragment" BY DEF MarkRow, Fragment
  <2> QED BY <2>1 DEF Rows, MarkRow
<1>4. /\ i \in DOMAIN S /\ S[i].scope = k
      /\ \E x \in In(S, k) : x.id = id
  <2>1. \E x \in In(S, k) : x.id = id BY <1>0, FoundFacts
  <2> QED BY <1>0, <2>1, InFacts
<1>6. C # {} BY <1>0, FoundFacts
<1> HIDE DEF S, R, i, U, row, u, C
<1>5. /\ Side(S, p.n, p.a) /\ Short(S) /\ now \in Nat /\ i \in DOMAIN S /\ S[i].scope = k
      /\ status \in Statuses \cup {"expired"}
      /\ T = [S EXCEPT ![i].items = SetStatus(S[i].items, id, status, now), ![i].at = now]
  BY <1>0, <1>00, <1>4
<1> HIDE DEF T
<1>7. Marks(S, T, k, id, status) BY <1>5, MarksFacts, Zenon
<1>8. /\ T \in Loose /\ Touched(T) /\ SameShape(S, T) /\ Short(T)
      /\ Holding(S, T, k, RestatedAll(In(S, k), id, status, now))
  BY <1>7 DEF Marks
<1>9. Within(S) => Within(T) BY <1>8, ShapeWithin
<1>10. Echoes(T, S) BY <1>0, <1>00, <1>8, MarksEcho
<1>11. /\ U.nextId = R.nextId /\ U.sessions \in Map /\ Touched(U.sessions)
       /\ Holding(R.sessions, U.sessions, k, RestatedAll(In(R.sessions, k), id, status, now))
  <2>1. \A x \in In(R.sessions, k) : x \in Item BY <1>0 DEF Entry
  <2> QED BY <1>0, <1>00, <2>1, MarkRowFacts DEF U, row
<1>12. Echoes(U.sessions, R.sessions) BY <1>0, <1>00, <1>11, MarksEcho
<1>13. p.w => Firm(S, p.D) /\ Firm(R.sessions, p.D)
  BY DEF Fine, Kept, Match, StoreOK, FileOK, S, R
<1>14. \A l \in Scopes : \A x \in In(S, l) : x.content \in C <=> l = k /\ x.id = id
  BY <1>0, <1>6, ContentsFacts DEF C
<1>15. \A l \in Scopes : \A x \in In(R.sessions, l) : x.content \in C <=> l = k /\ x.id = id
  BY <1>0, <1>6, ContentsFacts DEF C
<1>16. status \in Pending => p.D \cap C = {} BY DEF C, S
<1>17. ASSUME p.w PROVE Firm(T, p.D) /\ Firm(U.sessions, p.D)
  <2>1. \A l \in Scopes : \A x \in In(S, l) :
             x.content \in p.D => \/ x.status \notin Pending /\ (l # k \/ x.id # id)
                                  \/ status \notin Pending /\ l = k /\ x.id = id
    BY <1>13, <1>14, <1>16, <1>17 DEF Firm
  <2>2. \A l \in Scopes : \A x \in In(R.sessions, l) :
             x.content \in p.D => \/ x.status \notin Pending /\ (l # k \/ x.id # id)
                                  \/ status \notin Pending /\ l = k /\ x.id = id
    BY <1>13, <1>15, <1>16, <1>17 DEF Firm
  <2>3. Firm(T, p.D) BY <1>0, <1>00, <1>8, <2>1, FirmMarked
  <2>4. Firm(U.sessions, p.D) BY <1>0, <1>00, <1>11, <2>2, FirmMarked
  <2> QED BY <2>3, <2>4
<1>18. ASSUME status \notin Pending PROVE Firm(T, C) /\ Firm(U.sessions, C)
  <2>1. \A l \in Scopes : \A x \in In(S, l) :
             x.content \in C => \/ x.status \notin Pending /\ (l # k \/ x.id # id)
                                \/ status \notin Pending /\ l = k /\ x.id = id
    BY <1>14, <1>18
  <2>2. \A l \in Scopes : \A x \in In(R.sessions, l) :
             x.content \in C => \/ x.status \notin Pending /\ (l # k \/ x.id # id)
                                \/ status \notin Pending /\ l = k /\ x.id = id
    BY <1>15, <1>18
  <2>3. Firm(T, C) BY <1>0, <1>00, <1>8, <2>1, FirmMarked
  <2>4. Firm(U.sessions, C) BY <1>0, <1>00, <1>11, <2>2, FirmMarked
  <2> QED BY <2>3, <2>4
<1>19. Kept(y, p.b, p.a, p.c, p.D, p.w)
  <2>1. Kept(t, p.b, p.a, p.c, p.D, p.w) BY DEF Fine
  <2>2. p.w => Firm(T, p.D) BY <1>17
  <2> QED BY <1>8, <1>10, <2>1, <2>2, KeptEcho DEF S
<1>20. Replay(y.rows) = R BY <1>2 DEF R
<1> HIDE DEF y
<1>21. Kept(u, p.b, p.a, p.c, p.D, p.w)
  <2> DEFINE V == ApplyRow(Replay(y.rows), row)
  <2>1. V = U BY <1>20 DEF U
  <2>2. /\ V.nextId = Replay(y.rows).nextId /\ V.sessions \in Map /\ Touched(V.sessions)
        /\ Echoes(V.sessions, Replay(y.rows).sessions) /\ (p.w => Firm(V.sessions, p.D))
    BY <1>11, <1>12, <1>17, <1>20, <2>1
  <2> QED BY <1>1, <1>3, <1>19, <2>2, KeptEchoRow
<1>22. p.w => Replay(u.rows) = U BY <1>0, <1>2, <1>3, AddRowFacts DEF U, R
<1>23. ASSUME p.v PROVE p.w /\ Agree(u, p.e)
  <2>1. p.w /\ Shows(S, R.sessions, {}) /\ Shows(R.sessions, S, {})
    BY <1>23 DEF Fine, Agree, S, R
  <2>2. \A x \in In(S, k) : x.id = id => x.status # "expired" BY DEF Fresh, S
  <2>3. \A x \in In(R.sessions, k) : x.id = id => x.status # "expired"
    <3> SUFFICES ASSUME NEW x \in In(R.sessions, k), x.id = id PROVE x.status # "expired"
      OBVIOUS
    <3>1. PICK v \in In(S, k) : v.id = id BY <1>4
    <3>2. v.status # "expired" BY <2>2, <3>1
    <3>3. PICK z \in In(R.sessions, k) : Alike(v, z) BY <2>1, <3>2 DEF Shows
    <3>4. z.id = x.id BY <3>1, <3>3 DEF Alike, Same
    <3>5. z = x BY <1>000, <3>4, InUnique
    <3> QED BY <3>2, <3>3, <3>5 DEF Alike
  <2>4. Shows(T, U.sessions, {})
    BY <1>0, <1>00, <1>8, <1>11, <2>1, <2>2, ShowsMarked
  <2>5. Shows(U.sessions, T, {})
    BY <1>0, <1>00, <1>8, <1>11, <2>1, <2>3, ShowsMarked
  <2> QED BY <1>2, <1>22, <2>1, <2>4, <2>5 DEF Agree
<1>24. Owed(t, p) BY DEF Fine
<1>25. PICK X \in SUBSET (1 .. MaxAppends) :
          Costs(t.rows, X, p.s) /\ Shows(S, R.sessions, p.x \cup X)
  BY <1>24 DEF Owed, Covered, S, R
<1>26. Covered(y.st, y.rows, p.m, p.s)
  <2>1. p.x \cup X \subseteq p.m \cup X /\ Contents(S, k, id) \subseteq p.m \cup X
    BY <1>24 DEF Owed, S
  <2>2. Shows(T, R.sessions, p.m \cup X) BY <1>0, <1>00, <1>8, <1>25, <2>1, ShowsUnnamed
  <2> QED BY <1>2, <1>20, <1>25, <2>2 DEF Covered
<1>27. Covered(u.st, u.rows, p.x, p.s)
  <2>2. /\ Costs(u.rows, X, p.s)
        /\ Torn(t.rows) => \A c : Costs(u.rows, X \cup {c}, p.s)
    <3> DEFINE rows == t.rows
               s == p.s
    <3>1. rows \in Seq(Rows) /\ s \in Nat /\ Costs(rows, X, s) BY <1>0, <1>24, <1>25 DEF Owed
    <3>2. u.rows = AddRow(rows, row) BY <1>2
    <3> HIDE DEF rows, s
    <3>3. /\ Costs(AddRow(rows, row), X, s)
          /\ Torn(rows) => \A c : Costs(AddRow(rows, row), X \cup {c}, s)
      BY <1>3, <3>1, CostsRow
    <3> QED BY <3>2, <3>3, Zenon DEF rows, s
  <2>3. Replay(u.rows) = IF Torn(t.rows) THEN R ELSE U
    BY <1>0, <1>2, <1>3, AddRowFacts DEF U, R
  <2>4. CASE Torn(t.rows)
    <3>1. PICK v \in In(S, k) : v.id = id BY <1>4
    <3>2. v \in Item BY <1>0, <3>1 DEF Entry
    <3> DEFINE c == v.content
               Y == X \cup {c}
    <3>3. Y \in SUBSET (1 .. MaxAppends) BY <1>25, <3>2 DEF Item
    <3>4. Contents(S, k, id) \subseteq {c} BY <1>0, <3>1 DEF Contents, Paired
    <3> HIDE DEF c
    <3>5. Shows(T, R.sessions, p.x \cup Y)
      <4>1. p.x \cup X \subseteq p.x \cup Y /\ Contents(S, k, id) \subseteq p.x \cup Y BY <3>4
      <4> HIDE DEF Y
      <4> QED BY <1>0, <1>00, <1>8, <1>25, <4>1, ShowsUnnamed
    <3>6. Costs(u.rows, Y, p.s) BY <2>2, <2>4
    <3> HIDE DEF Y
    <3> QED BY <1>2, <2>3, <2>4, <3>3, <3>5, <3>6 DEF Covered
  <2>5. CASE ~Torn(t.rows)
    <3>1. \A x \in In(S, k) : x.id = id => x.status # "expired" BY DEF Fresh, S
    <3>2. Shows(T, U.sessions, p.x \cup X)
      BY <1>0, <1>00, <1>8, <1>11, <1>25, <3>1, ShowsMarked
    <3> QED BY <1>2, <1>25, <2>2, <2>3, <2>5, <3>2 DEF Covered
  <2> QED BY <2>4, <2>5
<1>28. Owed(u, p)
  <2>1. \A m \in u.moments : Covered(m.st, m.rows, p.m, p.s)
    BY <1>2, <1>24, <1>26 DEF Owed, Moment
  <2> QED BY <1>24, <1>27, <2>1 DEF Owed
<1>29. Fine(u, p) BY <1>0, <1>2, <1>21, <1>23, <1>28 DEF Fine
<1> QED BY <1>2, <1>9, <1>18, <1>22, <1>29 DEF u, C, S

(***************************************************************************)
(* The clock only goes forward.                                            *)
(***************************************************************************)
LEMMA SideLater ==
  ASSUME NEW S, NEW n, NEW a, Side(S, n, a), now \in Nat, now' \in Nat, now <= now'
  PROVE  Side(S, n, a)'
<1>1. /\ S \in Loose /\ Touched(S)
      /\ \A k \in Scopes : \A x \in In(S, k) :
            x \in Entry /\ x.id \in 1 .. n - 1 /\ x.content <= a /\ x.size <= MaxContent
  BY DEF Side
<1>2. \A i \in DOMAIN S : S[i].at \in Nat BY <1>1, LooseFacts
<1>3. (\A i \in DOMAIN S : S[i].at <= now')
  BY <1>1, <1>2 DEF Touched
<1>4. \A x \in Entry : x \in Item /\ x.at <= now' BY DEF Entry, Item
<1>5. \A k \in Scopes : \A x \in In(S, k) :
            x \in Item /\ x.at <= now' /\ x.id \in 1 .. n - 1 /\ x.content <= a
            /\ x.size <= MaxContent
  BY <1>1, <1>4
<1>6. Touched(S)' BY <1>3 DEF Touched
<1>7. \A k \in Scopes : \A x \in In(S, k) :
            x \in Entry' /\ x.id \in 1 .. n - 1 /\ x.content <= a /\ x.size <= MaxContent
  BY <1>5 DEF Entry
<1> QED BY <1>1, <1>6, <1>7 DEF Side

LEMMA FileLater ==
  ASSUME NEW rows, NEW b, NEW a, NEW D, NEW w, FileOK(rows, b, a, D, w),
         now \in Nat, now' \in Nat, now <= now'
  PROVE  FileOK(rows, b, a, D, w)'
BY SideLater DEF FileOK

LEMMA SoundLater ==
  ASSUME NEW st, NEW rows, NEW a, NEW D, NEW w, Sound(st, rows, a, D, w),
         now \in Nat, now' \in Nat, now <= now'
  PROVE  Sound(st, rows, a, D, w)'
<1>1. StoreOK(st, a, D, w) /\ FileOK(rows, st.nextId, a, D, w)
  BY DEF Sound, Match
<1>2. StoreOK(st, a, D, w)' BY <1>1, SideLater DEF StoreOK
<1>3. FileOK(rows, st.nextId, a, D, w)' BY <1>1, FileLater
<1> QED BY <1>2, <1>3 DEF Sound, Match

(***************************************************************************)
(* How a step ends.                                                        *)
(***************************************************************************)
Answers == {"none", "rejected", "accepted", "not_found", "marked", "threw"}

\* The history of a store whose writes may have failed.
Told(h) ==
    /\ h \in Hist /\ h.decided \subseteq 1 .. h.appends
    /\ \A r \in h.acked : r.content <= h.appends
    /\ h.shorts > 0 => h.threw

LEMMA UpAgain ==
  ASSUME now \in 0 .. MaxNow, now' = now, up' = TRUE, answer' \in Answers, Told(hist'),
         Sound(store', journal', hist'.appends, hist'.decided, hist'.shorts = 0),
         Covered(store', journal', Unacked(hist'), hist'.shorts),
         ~hist'.threw => /\ Within(store'.sessions)
                         /\ Shows(store'.sessions, Replay(journal').sessions, {})
                         /\ Shows(Replay(journal').sessions, store'.sessions, {}),
         answer' = "accepted" => WithinBudgets(store'.sessions)
  PROVE  WalInv'
<1>1. now \in Nat /\ now' \in Nat /\ now <= now' BY BudgetAssumption
<1>2. Sound(store, journal, hist.appends, hist.decided, hist.shorts = 0)'
  BY <1>1, SoundLater
<1> QED BY <1>2 DEF WalInv, Told, Answers

LEMMA DownAgain ==
  ASSUME now \in 0 .. MaxNow, now' = now, up' = FALSE, answer' \in Answers \ {"accepted"},
         Told(hist'), store' = EmptyStore,
         FileOK(journal', Replay(journal').nextId, hist'.appends, hist'.decided,
                hist'.shorts = 0)
  PROVE  WalInv'
<1>1. now \in Nat /\ now' \in Nat /\ now <= now' BY BudgetAssumption
<1>2. FileOK(journal, Replay(journal).nextId, hist.appends, hist.decided, hist.shorts = 0)'
  BY <1>1, FileLater
<1> QED BY <1>2 DEF WalInv, Told, Answers

LEMMA FileWider ==
  ASSUME NEW rows, NEW b, NEW c \in Nat, NEW D, NEW w, FileOK(rows, b, c, D, w), NEW a \in Nat,
         c <= a
  PROVE  FileOK(rows, Replay(rows).nextId, a, D, w)
<1> DEFINE n == Replay(rows).nextId
<1>1. n \in Nat /\ n <= n /\ Side(Replay(rows).sessions, n, c) BY DEF FileOK
<1> HIDE DEF n
<1>2. Side(Replay(rows).sessions, n, a) BY <1>1, SideWider
<1> QED BY <1>1, <1>2 DEF FileOK, n

\* Part of a row does not change what the file gives back.
LEMMA FileTorn ==
  ASSUME NEW rows, NEW b, NEW a, NEW D, NEW w, FileOK(rows, b, a, D, w)
  PROVE  FileOK(AddRow(rows, Fragment), b, a, D, w)
         /\ Replay(AddRow(rows, Fragment)) = Replay(rows)
<1>1. rows \in Seq(Rows) /\ Fragment \in Rows BY DEF FileOK, Rows
<1>2. AddRow(rows, Fragment) \in Seq(Rows) /\ Replay(AddRow(rows, Fragment)) = Replay(rows)
  BY <1>1, AddRowFacts, NoRowApplies
<1> QED BY <1>2 DEF FileOK

\* A fault strikes the call t, whose history would be h.
LEMMA FailedKeeps ==
  ASSUME WalInv, up, now' = now, NEW t, NEW p, Fine(t, p), NEW h, Told(h), h.left = hist.left,
         p.a = h.appends, p.D = h.decided, p.w = (h.shorts = 0),
         p.m \subseteq Unacked(h), p.s = h.shorts, Failed(t, h)
  PROVE  WalInv'
<1>1. now \in 0 .. MaxNow BY DEF WalInv
<1>2. h \in Hist /\ h.appends \in Nat /\ h.shorts \in Nat /\ h.left \in [FaultKinds -> Nat]
  BY BudgetAssumption DEF Told, Hist
<1>3. Kept(t, p.b, h.appends, p.c, h.decided, h.shorts = 0) BY DEF Fine
<1>4. \A m \in t.moments : Sound(m.st, m.rows, h.appends, h.decided, h.shorts = 0)
  BY <1>3 DEF Kept
<1>5. ASSUME NEW kind \in {"throw", "short"}, Threw(t, h, kind) PROVE WalInv'
  <2>1. PICK m \in t.moments :
          /\ store' = m.st
          /\ journal' = IF kind = "short" THEN AddRow(m.rows, Fragment) ELSE m.rows
    BY <1>5 DEF Threw
  <2>2. /\ answer' = "threw" /\ up' = TRUE /\ hist.left[kind] > 0
        /\ hist' = [h EXCEPT !.left[kind] = @ - 1, !.threw = TRUE,
                             !.shorts = IF kind = "short" THEN @ + 1 ELSE @]
    BY <1>5 DEF Threw, Fault
  <2>3. /\ hist'.appends = h.appends /\ hist'.decided = h.decided /\ hist'.threw = TRUE
        /\ hist'.shorts = IF kind = "short" THEN h.shorts + 1 ELSE h.shorts
        /\ hist'.acked = h.acked /\ hist'.marks = h.marks /\ hist'.starts = h.starts
        /\ hist' \in Hist
    <3>1. [h.left EXCEPT ![kind] = @ - 1] \in [FaultKinds -> Nat]
      BY <1>2, <2>2 DEF FaultKinds
    <3> DEFINE L == [h.left EXCEPT ![kind] = @ - 1]
               q == IF kind = "short" THEN h.shorts + 1 ELSE h.shorts
    <3>2. q \in Nat /\ L \in [FaultKinds -> Nat] BY <1>2, <3>1
    <3>3. hist' = [h EXCEPT !.left = L, !.threw = TRUE, !.shorts = q]
      BY <1>2, <2>2 DEF Hist
    <3> HIDE DEF L, q
    <3> QED BY <1>2, <3>2, <3>3 DEF Hist, q
  <2>4. Told(hist') BY <2>3 DEF Told
  <2>5. Sound(m.st, m.rows, h.appends, h.decided, h.shorts = 0) BY <1>4
  <2>6. Sound(store', journal', h.appends, h.decided, hist'.shorts = 0)
    <3>1. CASE kind = "short"
      <4>1. ~(hist'.shorts = 0) BY <1>2, <2>3, <3>1
      <4>2. StoreOK(m.st, h.appends, h.decided, FALSE) BY <2>5 DEF Sound, Match, StoreOK
      <4>3. FileOK(m.rows, m.st.nextId, h.appends, h.decided, FALSE)
            /\ Paired(m.st.sessions, Replay(m.rows).sessions)
        BY <2>5 DEF Sound, Match, FileOK
      <4>4. FileOK(journal', m.st.nextId, h.appends, h.decided, FALSE)
            /\ Replay(journal') = Replay(m.rows)
        BY <2>1, <3>1, <4>3, FileTorn
      <4>5. Sound(store', journal', h.appends, h.decided, FALSE)
        BY <2>1, <4>2, <4>3, <4>4 DEF Sound, Match
      <4> QED BY <4>1, <4>5
    <3>2. CASE kind # "short"
      <4>1. hist'.shorts = h.shorts BY <2>3, <3>2
      <4> QED BY <2>1, <2>5, <3>2, <4>1
    <3> QED BY <3>1, <3>2
  <2>7. Covered(store', journal', Unacked(hist'), hist'.shorts)
    <3>1. Covered(m.st, m.rows, Unacked(h), h.shorts)
      <4>1. Covered(m.st, m.rows, p.m, p.s) BY DEF Fine, Owed
      <4> QED BY <4>1, CoveredMore
    <3>2. Unacked(hist') = Unacked(h) BY <2>3 DEF Unacked
    <3>3. CASE kind # "short" BY <2>1, <2>3, <3>1, <3>2, <3>3
    <3>4. CASE kind = "short"
      <4>1. store' = m.st /\ journal' = AddRow(m.rows, Fragment) /\ hist'.shorts = h.shorts + 1
        BY <2>1, <2>3, <3>4
      <4>2. m.rows \in Seq(Rows) /\ Fragment \in Rows
        BY <2>5 DEF Sound, Match, FileOK, Rows
      <4>3. PICK X \in SUBSET (1 .. MaxAppends) :
               /\ Costs(m.rows, X, h.shorts)
               /\ Shows(m.st.sessions, Replay(m.rows).sessions, Unacked(h) \cup X)
        BY <3>1 DEF Covered
      <4>4. Costs(AddRow(m.rows, Fragment), X, h.shorts + 1) BY <1>2, <4>2, <4>3, CostsTorn
      <4>5. Replay(AddRow(m.rows, Fragment)) = Replay(m.rows) BY <4>2, AddRowFacts, NoRowApplies
      <4>6. Covered(m.st, AddRow(m.rows, Fragment), Unacked(h), h.shorts + 1)
        BY <4>3, <4>4, <4>5 DEF Covered
      <4> QED BY <3>2, <4>1, <4>6
    <3> QED BY <3>3, <3>4
  <2> QED BY <1>1, <2>2, <2>3, <2>4, <2>6, <2>7, UpAgain DEF Answers
<1>6. ASSUME Died(t, h) PROVE WalInv'
  <2>1. PICK m \in t.moments \cup {Moment(t)} :
          journal' = m.rows \/ journal' = AddRow(m.rows, Fragment)
    BY <1>6 DEF Died
  <2>2. /\ up' = FALSE /\ store' = EmptyStore /\ answer' = "none" /\ hist.left["crash"] > 0
        /\ hist' = [h EXCEPT !.left["crash"] = @ - 1]
    BY <1>6 DEF Died, Fault
  <2>3. /\ hist'.appends = h.appends /\ hist'.decided = h.decided /\ hist'.threw = h.threw
        /\ hist'.shorts = h.shorts /\ hist'.acked = h.acked /\ hist' \in Hist
    <3>1. [h.left EXCEPT !["crash"] = @ - 1] \in [FaultKinds -> Nat]
      BY <1>2, <2>2 DEF FaultKinds
    <3> DEFINE L == [h.left EXCEPT !["crash"] = @ - 1]
    <3>2. L \in [FaultKinds -> Nat] BY <3>1
    <3>3. hist' = [h EXCEPT !.left = L] BY <1>2, <2>2 DEF Hist
    <3> HIDE DEF L
    <3> QED BY <1>2, <3>2, <3>3 DEF Hist
  <2>4. Told(hist') BY <2>3 DEF Told
  <2>5. \E b, c \in Nat : c <= h.appends /\ FileOK(m.rows, b, c, h.decided, h.shorts = 0)
    <3>1. CASE m \in t.moments
      <4>1. FileOK(m.rows, m.st.nextId, h.appends, h.decided, h.shorts = 0)
            /\ m.st.nextId \in Nat
        BY <1>4, <3>1 DEF Sound, Match, StoreOK
      <4> QED BY <1>2, <4>1
    <3>2. CASE m = Moment(t)
      <4>1. m.rows = t.rows BY <3>2 DEF Moment
      <4>2. FileOK(t.rows, p.b, p.c, h.decided, h.shorts = 0) /\ p.b \in Nat /\ p.c \in Nat
            /\ p.c <= h.appends
        BY <1>3 DEF Kept, Match
      <4> QED BY <4>1, <4>2
    <3> QED BY <2>1, <3>1, <3>2
  <2>6. PICK b, c \in Nat : c <= h.appends /\ FileOK(m.rows, b, c, h.decided, h.shorts = 0)
    BY <2>5
  <2>7. FileOK(journal', b, c, h.decided, h.shorts = 0) BY <2>1, <2>6, FileTorn
  <2>8. FileOK(journal', Replay(journal').nextId, h.appends, h.decided, h.shorts = 0)
    BY <1>2, <2>6, <2>7, FileWider
  <2> QED BY <1>1, <2>2, <2>3, <2>4, <2>8, DownAgain DEF Answers
<1> QED BY <1>5, <1>6 DEF Failed

\* The call t is answered.
LEMMA AnsweredKeeps ==
  ASSUME WalInv, up, now' = now, NEW t, NEW p, Fine(t, p), NEW answered \in Answers,
         Answered(t, answered), Told(hist'), hist'.threw = hist.threw,
         hist'.shorts = hist.shorts, p.w = (hist.shorts = 0), ~hist.threw => p.v, p.e = {},
         p.x \subseteq Unacked(hist'), p.s = hist.shorts,
         p.a = hist'.appends, Sound(t.st, t.rows, hist'.appends, hist'.decided, hist.shorts = 0),
         ~hist.threw => Within(t.st.sessions),
         answered = "accepted" => WithinBudgets(t.st.sessions)
  PROVE  WalInv'
<1>1. now \in 0 .. MaxNow BY DEF WalInv
<1>2. store' = t.st /\ journal' = t.rows /\ answer' = answered /\ up' = TRUE
  BY DEF Answered
<1>3. ASSUME ~hist'.threw
      PROVE  /\ Within(store'.sessions)
             /\ Shows(store'.sessions, Replay(journal').sessions, {})
             /\ Shows(Replay(journal').sessions, store'.sessions, {})
  BY <1>2, <1>3 DEF Fine, Agree
<1>4. Covered(store', journal', Unacked(hist'), hist'.shorts)
  <2>1. Covered(t.st, t.rows, p.x, p.s) BY DEF Fine, Owed
  <2>2. Covered(t.st, t.rows, Unacked(hist'), p.s) BY <2>1, CoveredMore
  <2> QED BY <1>2, <2>2
<1> QED BY <1>1, <1>2, <1>3, <1>4, UpAgain

(***************************************************************************)
(* The marks keep the invariant.                                           *)
(***************************************************************************)
LEMMA MarkedIs ==
  ASSUME NEW k, NEW id
  PROVE  Marked(k, id) = Contents(PurgeExpired(Begin).st.sessions, k, id)
BY DEF Marked, Contents, In

LEMMA MarkTxFacts ==
  ASSUME WalInv, up, NEW k \in Scopes, NEW id \in Nat \ {0}, NEW status \in Statuses,
         NEW purge \in BOOLEAN
  PROVE  LET t == MarkTx(k, id, status, purge)
             C == Marked(k, id)
             D == hist.decided IN
         /\ C = {} => Fine(t, Starts(D, C))
         /\ C # {} => Fine(t, Starts(D \ C, C))
         /\ C # {} /\ (purge \/ status \notin Pending) =>
               /\ Fine(t, Starts(D, C))
               /\ hist.shorts = 0 => Firm(t.st.sessions, C) /\ Firm(Replay(t.rows).sessions, C)
         /\ ~hist.threw => Within(t.st.sessions)
         /\ C \subseteq 1 .. hist.appends
<1> DEFINE t == MarkTx(k, id, status, purge)
           u == PurgeExpired(Begin)
           C == Marked(k, id)
           D == hist.decided
<1>1. ASSUME NEW B, B \subseteq D
      PROVE  /\ Fine(u, Starts(B, C)) /\ u.st.sessions \in Map /\ Fresh(u.st.sessions)
             /\ ~hist.threw => Within(u.st.sessions)
             /\ now \in Nat
  <2>1. Fine(Begin, Starts(B, C)) /\ (~hist.threw => Within(Begin.st.sessions)) /\ now \in Nat
    BY <1>1, BeginFine
  <2> QED BY <2>1, PurgeExpiredFacts
<1>2. C = Contents(u.st.sessions, k, id) BY MarkedIs
<1>3. t = IF ~Found(u, k, id) THEN u
          ELSE IF purge THEN PurgeMarked(u, k, id)
          ELSE ApplyDecision(u, k, id, status)
  BY DEF MarkTx
<1>4. u.st.sessions \in Loose BY <1>1, MapIsLoose
<1> HIDE DEF u, t, C, D
<1>5. Found(u, k, id) <=> C # {} BY <1>2, <1>4, FoundFacts
<1>6. \A B : Starts(B, C).e = {} /\ Starts(B, C).D = B /\ Starts(B, C).w = (hist.shorts = 0)
             /\ Starts(B, C).a = hist.appends /\ Starts(B, C).n = store.nextId
             /\ Starts(B, C).m = Unacked(hist) \cup C
  BY DEF Starts
<1>7. D \ C \subseteq D /\ D \subseteq D /\ (D \ C) \cap C = {} OBVIOUS
<1>8. C = {} => t = u BY <1>3, <1>5
<1>9. C # {} /\ purge => t = PurgeMarked(u, k, id) BY <1>3, <1>5
<1>10. C # {} /\ ~purge => t = ApplyDecision(u, k, id, status) BY <1>3, <1>5
<1>11. ASSUME C # {}, purge, NEW B, B \subseteq D
       PROVE  /\ Fine(t, Starts(B, C))
              /\ hist.shorts = 0 => Firm(t.st.sessions, C) /\ Firm(Replay(t.rows).sessions, C)
              /\ ~hist.threw => Within(t.st.sessions)
  <2>1. /\ Fine(u, Starts(B, C)) /\ u.st.sessions \in Map /\ now \in Nat /\ Found(u, k, id)
        /\ ~hist.threw => Within(u.st.sessions)
    BY <1>1, <1>5, <1>11
  <2>2. /\ Fine(PurgeMarked(u, k, id), Starts(B, C))
        /\ Within(u.st.sessions) => Within(PurgeMarked(u, k, id).st.sessions)
        /\ Starts(B, C).w => Firm(PurgeMarked(u, k, id).st.sessions, C)
                          /\ Firm(Replay(PurgeMarked(u, k, id).rows).sessions, C)
    BY <1>2, <2>1, PurgeMarkedFacts
  <2> QED BY <1>6, <1>9, <1>11, <2>1, <2>2
<1>12. ASSUME C # {}, ~purge, NEW B, B \subseteq D, status \in Pending => B \cap C = {}
       PROVE  /\ Fine(t, Starts(B, C))
              /\ hist.shorts = 0 /\ status \notin Pending =>
                    Firm(t.st.sessions, C) /\ Firm(Replay(t.rows).sessions, C)
              /\ ~hist.threw => Within(t.st.sessions)
  <2>1. /\ Fine(u, Starts(B, C)) /\ u.st.sessions \in Map /\ now \in Nat /\ Found(u, k, id)
        /\ Fresh(u.st.sessions) /\ Starts(B, C).e = {}
        /\ status \in Pending => Starts(B, C).D \cap Contents(u.st.sessions, k, id) = {}
        /\ Contents(u.st.sessions, k, id) \subseteq Starts(B, C).m
        /\ ~hist.threw => Within(u.st.sessions)
    BY <1>1, <1>2, <1>5, <1>6, <1>12
  <2>2. /\ Fine(ApplyDecision(u, k, id, status), Starts(B, C))
        /\ Within(u.st.sessions) => Within(ApplyDecision(u, k, id, status).st.sessions)
        /\ Starts(B, C).w /\ status \notin Pending =>
              Firm(ApplyDecision(u, k, id, status).st.sessions, C)
              /\ Firm(Replay(ApplyDecision(u, k, id, status).rows).sessions, C)
    BY <1>2, <2>1, ApplyDecisionFacts
  <2> QED BY <1>6, <1>10, <1>12, <2>1, <2>2
<1>13. C = {} => Fine(t, Starts(D, C)) /\ (~hist.threw => Within(t.st.sessions))
  BY <1>1, <1>7, <1>8
<1>14. C # {} => Fine(t, Starts(D \ C, C)) /\ (~hist.threw => Within(t.st.sessions))
  BY <1>7, <1>11, <1>12
<1>15. ASSUME C # {}, purge \/ status \notin Pending
       PROVE  /\ Fine(t, Starts(D, C))
              /\ hist.shorts = 0 => Firm(t.st.sessions, C) /\ Firm(Replay(t.rows).sessions, C)
  BY <1>7, <1>11, <1>12, <1>15
<1>16. C \subseteq 1 .. hist.appends
  <2>1. Fine(u, Starts(D, C)) /\ hist.appends \in Nat BY <1>1, <1>7, BeginFine DEF D
  <2>2. Side(u.st.sessions, store.nextId, hist.appends) BY <1>6, <2>1, FineFacts
  <2> SUFFICES ASSUME NEW x \in In(u.st.sessions, k) PROVE x.content \in 1 .. hist.appends
    BY <1>2 DEF Contents
  <2>3. x \in Item /\ x.content <= hist.appends BY <2>2 DEF Side, Entry
  <2>4. x.content \in 1 .. MaxAppends BY <2>3 DEF Item
  <2> QED BY <2>1, <2>3, <2>4, BudgetAssumption
<1> QED BY <1>13, <1>14, <1>15, <1>16 DEF t, C, D

LEMMA InvFacts ==
  ASSUME WalInv
  PROVE  /\ Told(hist) /\ now \in 0 .. MaxNow /\ hist.appends \in 0 .. MaxAppends
         /\ hist.marks \in 0 .. MaxMarks /\ hist.starts \in 0 .. MaxStarts
         /\ hist.shorts \in Nat /\ hist.left \in [FaultKinds -> Nat]
         /\ hist.acked \in SUBSET [content: 1 .. MaxAppends, id: Nat]
         /\ hist.decided \in SUBSET (1 .. MaxAppends)
BY DEF WalInv, Told, Hist

LEMMA StartsFacts ==
  ASSUME NEW B, NEW C
  PROVE  LET p == Starts(B, C) IN
         /\ p.e = {} /\ p.D = B /\ p.w = (hist.shorts = 0)
         /\ p.a = hist.appends /\ p.v = ~hist.threw
         /\ p.n = store.nextId /\ p.b = store.nextId
         /\ p.c = hist.appends
         /\ p.x = Unacked(hist) /\ p.m = Unacked(hist) \cup C /\ p.s = hist.shorts
BY DEF Starts

LEMMA StartsPlainly ==
  ASSUME NEW B
  PROVE  LET p == Starts(B, {}) IN
         /\ p.e = {} /\ p.D = B /\ p.w = (hist.shorts = 0)
         /\ p.a = hist.appends /\ p.v = ~hist.threw
         /\ p.n = store.nextId /\ p.b = store.nextId
         /\ p.c = hist.appends
         /\ p.x = Unacked(hist) /\ p.m = Unacked(hist) \cup {} /\ p.s = hist.shorts
<1> DEFINE C == {}
<1> HIDE DEF C
<1>1. LET p == Starts(B, C) IN
      /\ p.e = {} /\ p.D = B /\ p.w = (hist.shorts = 0)
      /\ p.a = hist.appends /\ p.v = ~hist.threw
      /\ p.n = store.nextId /\ p.b = store.nextId
      /\ p.c = hist.appends
      /\ p.x = Unacked(hist) /\ p.m = Unacked(hist) \cup C /\ p.s = hist.shorts
  BY StartsFacts
<1> QED BY <1>1 DEF C

LEMMA FineIsSound ==
  ASSUME NEW t, NEW p, Fine(t, p)
  PROVE  Sound(t.st, t.rows, p.a, p.D, p.w)
BY KeptIsSound DEF Fine

LEMMA MarkNotFoundKeeps ==
  ASSUME WalInv, NEW k \in Scopes, NEW id \in Nat \ {0}, NEW status \in Statuses,
         NEW purge \in BOOLEAN, MarkNotFound(k, id, status, purge)
  PROVE  WalInv'
<1> DEFINE t == MarkTx(k, id, status, purge)
           p == Starts(hist.decided, {})
<1>1. up /\ now' = now /\ Marked(k, id) = {} BY DEF MarkNotFound, Marking, Calling
<1>2. Fine(t, p) /\ (~hist.threw => Within(t.st.sessions)) BY <1>1, MarkTxFacts
<1>3. /\ p.e = {} /\ p.D = hist.decided /\ p.w = (hist.shorts = 0) /\ p.a = hist.appends
      /\ p.v = ~hist.threw
      /\ p.x = Unacked(hist) /\ p.m = Unacked(hist) \cup {} /\ p.s = hist.shorts
  BY StartsPlainly, Zenon
<1>4. \/ Answered(t, "not_found") /\ hist' = hist
      \/ Failed(t, hist)
  BY DEF MarkNotFound
<1>5. Told(hist) BY InvFacts
<1> HIDE DEF t, p
<1>6. CASE Answered(t, "not_found") /\ hist' = hist
  <2>1. Sound(t.st, t.rows, hist'.appends, hist'.decided, hist.shorts = 0)
    BY <1>2, <1>3, <1>6, FineIsSound
  <2>2. ~hist.threw => p.v BY <1>3
  <2>3. "not_found" \in Answers /\ "not_found" # "accepted" BY DEF Answers
  <2>4. /\ Answered(t, "not_found") /\ hist' = hist /\ Told(hist')
        /\ p.x \subseteq Unacked(hist')
    BY <1>3, <1>5, <1>6
  <2> QED BY <1>1, <1>2, <1>3, <2>1, <2>2, <2>3, <2>4, AnsweredKeeps
<1>7. CASE Failed(t, hist)
  <2>1. p.m \subseteq Unacked(hist) BY <1>3
  <2> QED BY <2>1, <1>1, <1>2, <1>3, <1>5, <1>7, FailedKeeps
<1> QED BY <1>4, <1>6, <1>7

LEMMA MarkFailedKeeps ==
  ASSUME WalInv, NEW k \in Scopes, NEW id \in Nat \ {0}, NEW status \in Statuses,
         NEW purge \in BOOLEAN, MarkFailed(k, id, status, purge)
  PROVE  WalInv'
<1> DEFINE t == MarkTx(k, id, status, purge)
           C == Marked(k, id)
           p == Starts(hist.decided \ C, C)
           h == [hist EXCEPT !.marks = @ + 1, !.decided = @ \ C,
                             !.acked = {r \in @ : r.content \notin C}]
<1>1. up /\ now' = now /\ C # {} /\ hist.marks < MaxMarks /\ Failed(t, h)
  BY DEF MarkFailed, Marking, Calling
<1>2. Fine(t, p) /\ C \subseteq 1 .. hist.appends BY <1>1, MarkTxFacts
<1>3. /\ p.D = hist.decided \ C /\ p.w = (hist.shorts = 0) /\ p.a = hist.appends
      /\ p.m = Unacked(hist) \cup C /\ p.s = hist.shorts
  BY StartsFacts
<1>4. /\ Told(hist) /\ hist.marks \in 0 .. MaxMarks
      /\ hist.acked \in SUBSET [content: 1 .. MaxAppends, id: Nat]
      /\ hist.decided \in SUBSET (1 .. MaxAppends) /\ hist.appends \in 0 .. MaxAppends
  BY InvFacts
<1>5. /\ h \in Hist /\ h.decided = hist.decided \ C /\ h.left = hist.left
      /\ h.appends = hist.appends /\ h.shorts = hist.shorts /\ h.threw = hist.threw
      /\ h.acked = {r \in hist.acked : r.content \notin C}
  <2> DEFINE m == hist.marks + 1
             d == hist.decided \ C
             q == {r \in hist.acked : r.content \notin C}
  <2>1. m \in 0 .. MaxMarks /\ d \in SUBSET (1 .. MaxAppends)
        /\ q \in SUBSET [content: 1 .. MaxAppends, id: Nat]
    BY <1>1, <1>4, WalAssumption
  <2>2. hist \in Hist BY <1>4 DEF Told
  <2>3. h = [hist EXCEPT !.marks = m, !.decided = d, !.acked = q] BY <2>2 DEF Hist
  <2> HIDE DEF m, d, q, h
  <2> QED BY <2>1, <2>2, <2>3 DEF Hist, d, q
<1> HIDE DEF t, p, C, h
<1>6. Told(h) BY <1>4, <1>5 DEF Told
<1>7. p.a = h.appends /\ p.D = h.decided /\ p.w = (h.shorts = 0) BY <1>3, <1>5
<1>8. p.m \subseteq Unacked(h) /\ p.s = h.shorts
  <2>1. C \subseteq 1 .. MaxAppends BY <1>2, <1>4, BudgetAssumption
  <2> QED BY <1>3, <1>5, <2>1 DEF Unacked
<1> QED BY <1>1, <1>2, <1>5, <1>6, <1>7, <1>8, FailedKeeps

LEMMA SoundMore ==
  ASSUME NEW st, NEW rows, NEW a, NEW D, NEW w, Sound(st, rows, a, D, w), NEW C,
         w => Firm(st.sessions, C) /\ Firm(Replay(rows).sessions, C)
  PROVE  Sound(st, rows, a, D \cup C, w)
BY FirmBoth DEF Sound, Match, StoreOK, FileOK

LEMMA MarkAcceptedKeeps ==
  ASSUME WalInv, NEW k \in Scopes, NEW id \in Nat \ {0}, NEW status \in Statuses,
         NEW purge \in BOOLEAN, MarkAccepted(k, id, status, purge)
  PROVE  WalInv'
<1> DEFINE t == MarkTx(k, id, status, purge)
           C == Marked(k, id)
           gone == purge \/ status \notin Pending
           D == IF gone THEN hist.decided \cup C ELSE hist.decided \ C
           p == Starts(IF gone THEN hist.decided ELSE hist.decided \ C, C)
<1>1. /\ up /\ now' = now /\ C # {} /\ hist.marks < MaxMarks /\ Answered(t, "marked")
      /\ hist' = [hist EXCEPT !.marks = @ + 1, !.decided = IF gone THEN @ \cup C ELSE @ \ C]
  BY DEF MarkAccepted, Marking, Calling
<1>2. /\ Fine(t, p) /\ C \subseteq 1 .. hist.appends
      /\ ~hist.threw => Within(t.st.sessions)
      /\ gone /\ hist.shorts = 0 => Firm(t.st.sessions, C) /\ Firm(Replay(t.rows).sessions, C)
  BY <1>1, MarkTxFacts
<1>3. /\ p.D = (IF gone THEN hist.decided ELSE hist.decided \ C)
      /\ p.w = (hist.shorts = 0) /\ p.a = hist.appends /\ p.e = {} /\ p.v = ~hist.threw
      /\ p.x = Unacked(hist) /\ p.s = hist.shorts
  BY StartsFacts
<1>4. /\ Told(hist) /\ hist.marks \in 0 .. MaxMarks /\ hist.appends \in 0 .. MaxAppends
      /\ hist.decided \in SUBSET (1 .. MaxAppends)
  BY InvFacts
<1>5. /\ hist' \in Hist /\ hist'.decided = D
      /\ hist'.appends = hist.appends /\ hist'.shorts = hist.shorts /\ hist'.threw = hist.threw
      /\ hist'.acked = hist.acked
  <2> DEFINE m == hist.marks + 1
  <2>1. m \in 0 .. MaxMarks BY <1>1, <1>4, WalAssumption
  <2>2. D \in SUBSET (1 .. MaxAppends)
    <3>1. C \subseteq 1 .. MaxAppends BY <1>2, <1>4, BudgetAssumption
    <3> HIDE DEF C, gone
    <3> QED BY <1>4, <3>1
  <2>3. hist \in Hist BY <1>4 DEF Told
  <2>4. hist' = [hist EXCEPT !.marks = m, !.decided = D] BY <1>1, <2>3 DEF Hist
  <2> HIDE DEF m, D
  <2> QED BY <2>1, <2>2, <2>3, <2>4 DEF Hist
<1> HIDE DEF t, p, C
<1>6. Told(hist') BY <1>2, <1>4, <1>5 DEF Told
<1>7. Sound(t.st, t.rows, hist.appends, D, hist.shorts = 0)
  <2>1. Sound(t.st, t.rows, hist.appends, p.D, hist.shorts = 0) BY <1>2, <1>3, FineIsSound
  <2>2. CASE gone
    <3>1. p.D = hist.decided /\ D = hist.decided \cup C BY <1>3, <2>2
    <3> HIDE DEF D, gone
    <3> QED BY <1>2, <2>1, <2>2, <3>1, SoundMore
  <2>3. CASE ~gone
    <3>1. p.D = D BY <1>3, <2>3
    <3> QED BY <2>1, <3>1
  <2> QED BY <2>2, <2>3
<1> HIDE DEF D, gone
<1>8. Sound(t.st, t.rows, hist'.appends, hist'.decided, hist.shorts = 0) BY <1>5, <1>7
<1>9. "marked" \in Answers /\ "marked" # "accepted" BY DEF Answers
<1>10. p.a = hist'.appends /\ (~hist.threw => p.v) BY <1>3, <1>5
<1>11. p.x \subseteq Unacked(hist') BY <1>3, <1>5 DEF Unacked
<1> QED BY <1>1, <1>2, <1>3, <1>5, <1>6, <1>8, <1>9, <1>10, <1>11, AnsweredKeeps

(***************************************************************************)
(* append: the new record, and the items its session sheds.                *)
(***************************************************************************)
LEMMA GrownIs ==
  ASSUME NEW p, NEW v
  PROVE  LET q == Grown(p, v) IN
         /\ q.n = p.n + 1 /\ q.b = p.b /\ q.a = p.a + 1 /\ q.c = p.c /\ q.D = p.D /\ q.w = p.w
         /\ q.e = {p.a + 1} /\ q.v = v /\ q.x = p.x /\ q.m = p.m /\ q.s = p.s
BY DEF Grown

\* The same, of the two values of v that the steps give.
LEMMA GrownOn ==
  ASSUME NEW p
  PROVE  LET q == Grown(p, p.v) IN
         /\ q.n = p.n + 1 /\ q.b = p.b /\ q.a = p.a + 1 /\ q.c = p.c /\ q.D = p.D /\ q.w = p.w
         /\ q.e = {p.a + 1} /\ q.v = p.v /\ q.x = p.x /\ q.m = p.m /\ q.s = p.s
<1> DEFINE v == p.v
<1> HIDE DEF v
<1>1. LET q == Grown(p, v) IN
      /\ q.n = p.n + 1 /\ q.b = p.b /\ q.a = p.a + 1 /\ q.c = p.c /\ q.D = p.D /\ q.w = p.w
      /\ q.e = {p.a + 1} /\ q.v = v /\ q.x = p.x /\ q.m = p.m /\ q.s = p.s
  BY GrownIs
<1> QED BY <1>1 DEF v

LEMMA GrownOff ==
  ASSUME NEW p
  PROVE  LET q == Grown(p, FALSE) IN
         /\ q.n = p.n + 1 /\ q.b = p.b /\ q.a = p.a + 1 /\ q.c = p.c /\ q.D = p.D /\ q.w = p.w
         /\ q.e = {p.a + 1} /\ q.v = FALSE /\ q.x = p.x /\ q.m = p.m /\ q.s = p.s
<1> DEFINE v == FALSE
<1> HIDE DEF v
<1>1. LET q == Grown(p, v) IN
      /\ q.n = p.n + 1 /\ q.b = p.b /\ q.a = p.a + 1 /\ q.c = p.c /\ q.D = p.D /\ q.w = p.w
      /\ q.e = {p.a + 1} /\ q.v = v /\ q.x = p.x /\ q.m = p.m /\ q.s = p.s
  BY GrownIs
<1> QED BY <1>1 DEF v

LEMMA SoundWider ==
  ASSUME NEW st, NEW rows, NEW c \in Nat, NEW D, NEW w, Sound(st, rows, c, D, w), NEW a \in Nat,
         c <= a
  PROVE  Sound(st, rows, a, D, w)
<1> DEFINE n == st.nextId
           m == Replay(rows).nextId
<1>1. /\ n \in Nat \ {0} /\ Side(st.sessions, n, c) /\ m \in Nat \ {0}
      /\ Side(Replay(rows).sessions, m, c)
  BY DEF Sound, Match, StoreOK, FileOK
<1> HIDE DEF n, m
<1>2. Side(st.sessions, n, a) /\ Side(Replay(rows).sessions, m, a) BY <1>1, SideWider
<1> QED BY <1>2 DEF Sound, Match, StoreOK, FileOK, n, m

LEMMA GrowsGains ==
  ASSUME NEW S \in Map, NEW k \in Scopes, NEW item \in Thing, NEW at \in Nat,
         \A x \in In(S, k) : x.id < item.id, NEW B, NEW j, Grows(S, B, k, item, at, j)
  PROVE  /\ Gains(S, B, k, item)
         /\ In(B, k) = ToSet(B[j].items)
<1>1. /\ B \in Map /\ j \in DOMAIN B /\ B[j].scope = k
      /\ Suffix(B[j].items, Append(ItemsOf(S, k), item))
      /\ \A b \in DOMAIN B : b # j => B[b].scope # k /\ \E s \in DOMAIN S : B[b] = S[s]
      /\ \A s \in DOMAIN S : S[s].scope # k => \E b \in DOMAIN B : B[b] = S[s]
  BY DEF Grows
<1>2. S \in Loose /\ B \in Loose BY <1>1, MapIsLoose
<1>3. In(B, k) = ToSet(B[j].items) BY <1>1, <1>2, InFacts
<1>4. \A x \in In(B, k) : x \in In(S, k) \/ x = item
  <2>1. ItemsOf(S, k) \in Seq(Thing) /\ Sorted(ItemsOf(S, k)) BY <1>2, InFacts
  <2> DEFINE L == Append(ItemsOf(S, k), item)
  <2>2. \A x \in ToSet(ItemsOf(S, k)) : x.id < item.id BY DEF In
  <2>3. L \in Seq(Thing) BY <2>1
  <2>4. ToSet(L) = In(S, k) \cup {item} BY <1>2, PutsPushed
  <2>5. B[j].items \in Seq(Thing) BY <1>1, <1>2, LooseFacts
  <2> DEFINE z == B[j].items
  <2>6. z \in Seq(Thing) /\ Suffix(z, L) BY <1>1, <2>5
  <2> HIDE DEF L, z
  <2>7. ToSet(z) \subseteq ToSet(L) BY <2>3, <2>6, SuffixMembers
  <2> QED BY <1>3, <2>4, <2>7 DEF z
<1>5. ASSUME NEW l, l # k PROVE In(B, l) = In(S, l)
  <2>1. CASE At(S, l) = 0 /\ In(S, l) = {} /\ \A i \in DOMAIN S : S[i].scope # l
    <3>1. \A i \in DOMAIN B : B[i].scope # l BY <1>1, <1>5, <2>1
    <3> QED BY <1>2, <2>1, <3>1, InFacts
  <2>2. CASE At(S, l) \in DOMAIN S /\ S[At(S, l)].scope = l
    <3>1. PICK b \in DOMAIN B : B[b] = S[At(S, l)] BY <1>1, <1>5, <2>2
    <3>2. In(S, l) = ToSet(S[At(S, l)].items) BY <1>2, <2>2, InFacts
    <3>3. In(B, l) = ToSet(B[b].items) BY <1>2, <2>2, <3>1, InFacts
    <3> QED BY <3>1, <3>2, <3>3
  <2> QED BY <1>2, <2>1, <2>2, InFacts
<1> QED BY <1>1, <1>3, <1>4, <1>5 DEF Gains

\* The new record is unlike any other.
LEMMA GrownFacts ==
  ASSUME NEW t, NEW p, Fine(t, p), t.st.sessions \in Map, now \in Nat, NEW k \in Scopes,
         p.b = p.n, p.c = p.a, p.D \subseteq 1 .. p.a, p.a + 1 \in p.x,
         NEW item \in Entry, item.id = p.n, item.content = p.a + 1, item.size <= MaxContent,
         NEW B, NEW j, Grows(t.st.sessions, B, k, item, now, j)
  PROVE  Fine(WithStore(t, [sessions |-> B, nextId |-> t.st.nextId + 1]), Grown(p, FALSE))
<1> DEFINE S == t.st.sessions
           n == p.n
           a == p.a
           u == WithStore(t, [sessions |-> B, nextId |-> t.st.nextId + 1])
           R == Replay(t.rows)
           q == Grown(p, FALSE)
<1>0. /\ Kept(t, p.b, p.a, p.c, p.D, p.w) /\ t.st.nextId = n
      /\ a \in Nat /\ Match(t.st, t.rows, p.b, p.a, p.c, p.D, p.w)
      /\ \A m \in t.moments : Sound(m.st, m.rows, a, p.D, p.w)
  BY DEF Fine, Kept
<1>1. /\ n \in Nat \ {0} /\ Side(S, n, a) /\ Short(S) /\ Paired(S, S) /\ (p.w => Firm(S, p.D))
      /\ FileOK(t.rows, n, a, p.D, p.w) /\ Paired(S, R.sessions) /\ (p.w => ~Torn(t.rows))
  BY <1>0 DEF Match, StoreOK
<1>2. Side(R.sessions, R.nextId, a) /\ R.nextId \in Nat /\ R.nextId <= n
  BY <1>1 DEF FileOK
<1>3. /\ u.st.sessions = B /\ u.st.nextId = n + 1 /\ u.rows = t.rows /\ u.moments = t.moments
  BY <1>0 DEF WithStore
<1>4. item \in Thing /\ item \in Item BY ItemIsThing DEF Entry
<1>5. \A l \in Scopes : \A x \in In(S, l) :
         x \in Entry /\ x \in Item /\ x.id \in 1 .. n - 1 /\ x.content <= a /\ x.size <= MaxContent
  BY <1>1 DEF Side, Entry
<1>6. \A l \in Scopes : \A x \in In(R.sessions, l) :
         x \in Item /\ x.id \in 1 .. n - 1 /\ x.content <= a
  <2> SUFFICES ASSUME NEW l \in Scopes, NEW x \in In(R.sessions, l)
               PROVE  x \in Item /\ x.id \in 1 .. n - 1 /\ x.content <= a
    OBVIOUS
  <2>1. x \in Item /\ x.id \in 1 .. R.nextId - 1 /\ x.content <= a BY <1>2 DEF Side, Entry
  <2> QED BY <1>1, <1>2, <2>1
<1>7. \A x \in In(S, k) : x.id < item.id BY <1>1, <1>5
<1>8. Gains(S, B, k, item) BY <1>4, <1>7, GrowsGains DEF S
<1> HIDE DEF S, n, a, u, R, q
<1>9. B \in Map /\ B \in Loose BY <1>8, MapIsLoose DEF Gains
<1>10. \A l \in Scopes : \A x \in In(B, l) : x \in In(S, l) \/ (l = k /\ x = item)
  BY <1>8 DEF Gains
<1>11. Touched(B) /\ Short(B)
  <2> SUFFICES ASSUME NEW b \in DOMAIN B
               PROVE  B[b].at <= now /\ Len(B[b].items) <= MaxPerSession
    BY DEF Touched, Short
  <2>1. CASE b = j BY <2>1 DEF Grows
  <2>2. CASE b # j
    <3>1. PICK s \in DOMAIN S : B[b] = S[s] BY <2>2 DEF Grows, S
    <3> QED BY <1>1, <3>1 DEF Side, Touched, Short
  <2> QED BY <2>1, <2>2
<1>12. Side(B, n + 1, a + 1)
  <2>1. \A l \in Scopes : \A x \in In(B, l) :
           x \in Entry /\ x.id \in 1 .. (n + 1) - 1 /\ x.content <= a + 1 /\ x.size <= MaxContent
    <3> SUFFICES ASSUME NEW l \in Scopes, NEW x \in In(B, l)
                 PROVE  x \in Entry /\ x.id \in 1 .. (n + 1) - 1 /\ x.content <= a + 1
                        /\ x.size <= MaxContent
      OBVIOUS
    <3>1. CASE x \in In(S, l)
      <4>1. /\ x \in Entry /\ x \in Item /\ x.id \in 1 .. n - 1 /\ x.content <= a
            /\ x.size <= MaxContent
        BY <1>5, <3>1
      <4>2. x.content \in Nat BY <4>1, BudgetAssumption DEF Item
      <4> QED BY <1>0, <1>1, <4>1, <4>2
    <3>2. CASE x = item
      <4>1. item.id = n /\ item.content = a + 1 BY DEF n, a
      <4> QED BY <1>0, <1>1, <3>2, <4>1
    <3> QED BY <1>10, <3>1, <3>2
  <2> QED BY <1>9, <1>11, <2>1 DEF Side
<1>13. \A l \in Scopes : \A x \in In(S, l) : x.id # item.id /\ x.content # item.content
  <2> SUFFICES ASSUME NEW l \in Scopes, NEW x \in In(S, l)
               PROVE  x.id # item.id /\ x.content # item.content
    OBVIOUS
  <2>1. x \in Item /\ x.id \in 1 .. n - 1 /\ x.content <= a BY <1>5
  <2>2. x.content \in Nat BY <2>1, BudgetAssumption DEF Item
  <2>3. item.id = n /\ item.content = a + 1 BY DEF n, a
  <2> QED BY <1>0, <1>1, <2>1, <2>2, <2>3
<1>14. \A l \in Scopes : \A x \in In(R.sessions, l) : x.id # item.id /\ x.content # item.content
  <2> SUFFICES ASSUME NEW l \in Scopes, NEW x \in In(R.sessions, l)
               PROVE  x.id # item.id /\ x.content # item.content
    OBVIOUS
  <2>1. x \in Item /\ x.id \in 1 .. n - 1 /\ x.content <= a BY <1>6
  <2>2. x.content \in Nat BY <2>1, BudgetAssumption DEF Item
  <2>3. item.id = n /\ item.content = a + 1 BY DEF n, a
  <2> QED BY <1>0, <1>1, <2>1, <2>2, <2>3
<1>15. Paired(B, B) /\ Paired(B, R.sessions)
  <2>1. Paired(B, B)
    <3> SUFFICES ASSUME NEW l \in Scopes, NEW m \in Scopes, NEW x \in In(B, l), NEW y \in In(B, m),
                        x.id = y.id \/ x.content = y.content
                 PROVE  l = m /\ x.id = y.id /\ x.content = y.content
      BY DEF Paired
    <3>1. CASE x \in In(S, l) /\ y \in In(S, m) BY <1>1, <3>1 DEF Paired
    <3>2. CASE x \in In(S, l) /\ m = k /\ y = item BY <1>13, <3>2
    <3>3. CASE y \in In(S, m) /\ l = k /\ x = item BY <1>13, <3>3
    <3>4. CASE l = k /\ x = item /\ m = k /\ y = item BY <3>4
    <3> QED BY <1>10, <3>1, <3>2, <3>3, <3>4
  <2>2. Paired(B, R.sessions)
    <3> SUFFICES ASSUME NEW l \in Scopes, NEW m \in Scopes, NEW x \in In(B, l),
                        NEW y \in In(R.sessions, m), x.id = y.id \/ x.content = y.content
                 PROVE  l = m /\ x.id = y.id /\ x.content = y.content
      BY DEF Paired
    <3>1. CASE x \in In(S, l) BY <1>1, <3>1 DEF Paired
    <3>2. CASE x = item BY <1>14, <3>2
    <3> QED BY <1>10, <3>1, <3>2
  <2> QED BY <2>1, <2>2
<1>16. p.w => Firm(B, p.D)
  <2> SUFFICES ASSUME p.w, NEW l \in Scopes, NEW x \in In(B, l), x.content \in p.D
               PROVE  x.status \notin Pending
    BY DEF Firm
  <2>1. CASE x \in In(S, l) BY <1>1, <2>1 DEF Firm
  <2>2. CASE x = item
    <3>1. x.content = a + 1 /\ p.D \subseteq 1 .. a BY <2>2 DEF a
    <3> QED BY <1>0, <3>1
  <2> QED BY <1>10, <2>1, <2>2
<1>17. /\ n + 1 \in Nat \ {0} /\ n <= n + 1 /\ a + 1 \in Nat /\ a <= a + 1 BY <1>0, <1>1
<1>18. StoreOK(u.st, a + 1, p.D, p.w)
  BY <1>3, <1>11, <1>12, <1>15, <1>16, <1>17 DEF StoreOK
<1>19. Match(u.st, u.rows, n, a + 1, a, p.D, p.w)
  BY <1>1, <1>3, <1>15, <1>18 DEF Match, R
<1>20. \A m \in u.moments : Sound(m.st, m.rows, a + 1, p.D, p.w)
  BY <1>0, <1>3, <1>17, SoundWider
<1>21. Kept(u, n, a + 1, a, p.D, p.w)
  BY <1>0, <1>1, <1>3, <1>17, <1>19, <1>20 DEF Kept
<1>22. /\ q.n = n + 1 /\ q.b = n /\ q.a = a + 1 /\ q.c = a /\ q.D = p.D /\ q.w = p.w
       /\ q.v = FALSE /\ q.x = p.x /\ q.m = p.m /\ q.s = p.s
  <2>1. p.b = n /\ p.c = a BY DEF n, a
  <2>2. /\ q.n = p.n + 1 /\ q.b = p.b /\ q.a = p.a + 1 /\ q.c = p.c /\ q.D = p.D /\ q.w = p.w
        /\ q.v = FALSE /\ q.x = p.x /\ q.m = p.m /\ q.s = p.s
    BY GrownOff, Zenon DEF q
  <2> QED BY <2>1, <2>2 DEF n, a
<1>23. Owed(u, q)
  <2>1. Owed(t, p) BY DEF Fine
  <2>2. PICK X \in SUBSET (1 .. MaxAppends) :
           Costs(t.rows, X, p.s) /\ Shows(S, R.sessions, p.x \cup X)
    BY <2>1 DEF Owed, Covered, S, R
  <2>3. item.content \in p.x \cup X OBVIOUS
  <2>4. Shows(B, R.sessions, p.x \cup X) BY <1>10, <2>2, <2>3 DEF Shows
  <2>5. Covered(u.st, u.rows, p.x, p.s) BY <1>3, <2>2, <2>4 DEF Covered, R
  <2> QED BY <1>3, <1>22, <2>1, <2>5 DEF Owed
<1>24. Fine(u, q) BY <1>3, <1>21, <1>22, <1>23 DEF Fine
<1> QED BY <1>24 DEF u, q

\* The items that a lane sheds, and those it keeps.
LEMMA NewestSplits ==
  ASSUME NEW items \in Seq(Thing), Sorted(items), Len(items) > 0, NEW n \in Nat \ {0}
  PROVE  LET q == Newest(items, n)
             d == SubSeq(items, 1, Len(items) - Len(q)) IN
         /\ q \in Seq(Thing) /\ Sorted(q) /\ d \in Seq(Thing) /\ Len(d) \in Nat
         /\ ToSet(items) \subseteq ToSet(q) \cup ToSet(d)
         /\ ToSet(q) \subseteq ToSet(items) /\ ToSet(d) \subseteq ToSet(items)
         /\ \A x \in ToSet(q) : \A i \in 1 .. Len(d) : x.id # d[i].id
<1> DEFINE q == Newest(items, n)
           m == Len(items) - Len(q)
           d == SubSeq(items, 1, m)
<1>1. q \in Seq(Thing) /\ Suffix(q, items) BY NewestFacts
<1>2. Sorted(q) /\ ToSet(q) \subseteq ToSet(items) BY <1>1, SuffixOfSorted, SuffixMembers
<1> HIDE DEF q
<1>3. PICK e \in Nat : Len(items) = Len(q) + e /\ \A i \in 1 .. Len(q) : q[i] = items[i + e]
  BY <1>1 DEF Suffix
<1>4. /\ Len(q) \in Nat /\ Len(items) \in Nat /\ DOMAIN q = 1 .. Len(q)
      /\ DOMAIN items = 1 .. Len(items)
  BY <1>1, LenProperties
<1>5. m = e BY <1>3, <1>4
<1>6. /\ d \in Seq(Thing) /\ Len(d) = e /\ \A i \in 1 .. e : d[i] = items[i]
  <2>1. e <= Len(items) BY <1>3, <1>4
  <2>2. d = SubSeq(items, 1, e) BY <1>5
  <2> HIDE DEF d, m
  <2>3. e \in 0 .. Len(items) /\ e - 1 + 1 = e BY <1>4, <2>1
  <2>4. /\ SubSeq(items, 1, e) \in Seq(Thing)
        /\ Len(SubSeq(items, 1, e)) = e
        /\ \A i \in 1 .. e : SubSeq(items, 1, e)[i] = items[i]
    <3>1. CASE e = 0 BY <3>1
    <3>2. CASE e # 0
      <4>1. 1 \in 1 .. Len(items) /\ e \in 1 .. Len(items) /\ 1 <= e BY <1>4, <2>3, <3>2
      <4> QED BY <2>3, <4>1
    <3> QED BY <3>1, <3>2
  <2> QED BY <2>2, <2>4
<1> HIDE DEF d, m
<1>7. DOMAIN d = 1 .. e BY <1>6, LenProperties
<1>8. \A i \in 1 .. e : i \in DOMAIN items BY <1>3, <1>4
<1>9. ToSet(d) \subseteq ToSet(items) BY <1>6, <1>7, <1>8 DEF ToSet
<1>10. ASSUME NEW x \in ToSet(items), x \notin ToSet(d) PROVE x \in ToSet(q)
  <2>1. PICK i \in 1 .. Len(items) : items[i] = x BY <1>4 DEF ToSet
  <2>2. i > e
    <3> SUFFICES ASSUME i <= e PROVE FALSE BY <1>4
    <3>1. i \in 1 .. e /\ d[i] = x BY <1>6, <2>1
    <3> QED BY <1>7, <1>10, <3>1 DEF ToSet
  <2>3. i - e \in 1 .. Len(q) /\ (i - e) + e = i BY <1>3, <1>4, <2>2
  <2>4. q[i - e] = x BY <1>3, <2>1, <2>3
  <2> QED BY <1>4, <2>3, <2>4 DEF ToSet
<1>11. ASSUME NEW x \in ToSet(q), NEW i \in 1 .. Len(d) PROVE x.id # d[i].id
  <2>1. PICK j \in 1 .. Len(q) : q[j] = x BY <1>4 DEF ToSet
  <2>2. x = items[j + e] /\ d[i] = items[i] BY <1>3, <1>6, <2>1
  <2>3. j + e \in DOMAIN items /\ i \in DOMAIN items /\ i < j + e BY <1>3, <1>4, <1>6
  <2>4. items[i].id < items[j + e].id BY <2>3 DEF Sorted
  <2>5. items[i] \in Thing /\ items[j + e] \in Thing BY <1>4, <2>3
  <2>6. items[i].id \in Nat /\ items[j + e].id \in Nat BY <2>5 DEF Thing, Item
  <2> QED BY <2>2, <2>4, <2>6
<1> QED BY <1>1, <1>2, <1>6, <1>9, <1>10, <1>11 DEF q, d, m

\* c[n] is what trimSession has come to once n of the items d are journaled.
Journals(t, k, d, c) ==
    /\ c[0] = t
    /\ \A i \in 1 .. Len(d) : c[i] = Write(c[i - 1], PurgeRow(k, d[i].id))

\* The items beyond the budget of a lane.
Excess(items) == SubSeq(items, 1, Len(items) - Len(Newest(items, MaxPerSession)))

LEMMA TrimSessionRuns ==
  ASSUME NEW t, NEW k, NEW d, d = Excess(t.st.sessions[At(t.st.sessions, k)].items),
         Len(d) \in Nat
  PROVE  \E c : /\ Journals(WithSessions(t, TrimLane(t.st.sessions, k)), k, d, c)
                /\ TrimSession(t, k) = c[Len(d)]
<1> DEFINE Step(y, i) == Write(y, PurgeRow(k, d[i].id))
           Is(n, f) == f = [i \in 0 .. n |-> IF i = 0 THEN WithSessions(t, TrimLane(t.st.sessions, k)) ELSE Step(f[i - 1], i)]
           T == {n \in Nat : \E f : Is(n, f)}
           r == Len(d)
           c == CHOOSE f : Is(r, f)
<1>0. r \in Nat OBVIOUS
<1>1. 0 \in T
  <2>1. Is(0, [i \in 0 .. 0 |-> WithSessions(t, TrimLane(t.st.sessions, k))]) OBVIOUS
  <2> QED BY <2>1
<1>2. ASSUME NEW n \in Nat, n \in T PROVE n + 1 \in T
  <2>1. PICK f : Is(n, f) BY <1>2
  <2> HIDE DEF Step
  <2>2. PICK g : Longer(g, f, n, Step(f[n], n + 1)) BY LongerExists
  <2>3. ASSUME NEW i \in 0 .. n + 1
        PROVE  g[i] = IF i = 0 THEN WithSessions(t, TrimLane(t.st.sessions, k)) ELSE Step(g[i - 1], i)
    <3>1. CASE i \in 0 .. n
      <4>1. f[i] = IF i = 0 THEN WithSessions(t, TrimLane(t.st.sessions, k)) ELSE Step(f[i - 1], i) BY <2>1, <3>1
      <4> QED BY <2>2, <3>1, <4>1 DEF Longer
    <3>2. CASE i = n + 1 BY <2>2, <3>2 DEF Longer
    <3> QED BY <3>1, <3>2
  <2>4. Is(n + 1, g) BY <2>2, <2>3, Zenon DEF Longer
  <2> QED BY <2>4
<1>3. r \in T
  <2> HIDE DEF T, r
  <2> QED BY <1>0, <1>1, <1>2, SetInduction
<1>4. Is(r, c)
  <2>1. \E f : Is(r, f) BY <1>3
  <2> HIDE DEF Is
  <2> QED BY <2>1
<1>5. TrimSession(t, k) = c[r] BY DEF TrimSession, TrimLane, Excess, Fold
<1> HIDE DEF c, r
<1>6. ASSUME NEW i \in 0 .. r PROVE c[i] = IF i = 0 THEN WithSessions(t, TrimLane(t.st.sessions, k)) ELSE Step(c[i - 1], i)
  <2> DEFINE F(l) == IF l = 0 THEN WithSessions(t, TrimLane(t.st.sessions, k)) ELSE Step(c[l - 1], l)
  <2>1. c = [l \in 0 .. r |-> F(l)] BY <1>4
  <2> HIDE DEF F
  <2>2. c[i] = F(i) BY <2>1
  <2> QED BY <2>2 DEF F
<1>7. c[0] = WithSessions(t, TrimLane(t.st.sessions, k)) BY <1>0, <1>6
<1>8. ASSUME NEW i \in 1 .. r PROVE c[i] = Step(c[i - 1], i)
  <2>1. i \in 0 .. r /\ i # 0 BY <1>0
  <2> HIDE DEF Step
  <2> QED BY <1>6, <2>1
<1>9. Journals(WithSessions(t, TrimLane(t.st.sessions, k)), k, d, c) BY <1>7, <1>8 DEF Journals, r
<1> QED BY <1>5, <1>9 DEF r

\* What is left of X once the first m items of d went.
Leaves(X, d, m) == {x \in X : \A i \in 1 .. m : x.id # d[i].id}

LEMMA JournalsFacts ==
  ASSUME NEW t, NEW p, Fine(t, p), ~p.v, now \in Nat, NEW k \in Scopes, NEW d,
         Len(d) \in Nat, \A i \in 1 .. Len(d) : d[i].id \in Nat \ {0},
         \A x \in In(t.st.sessions, k) : \A i \in 1 .. Len(d) : x.id # d[i].id,
         NEW c, Journals(t, k, d, c)
  PROVE  LET u == c[Len(d)]
             R == Replay(t.rows).sessions IN
         /\ Fine(u, p) /\ u.st = t.st
         /\ p.w => Holding(R, Replay(u.rows).sessions, k, Leaves(In(R, k), d, Len(d)))
<1> DEFINE n == Len(d)
           R == Replay(t.rows).sessions
           Held(m) == Holding(R, Replay(c[m].rows).sessions, k, Leaves(In(R, k), d, m))
           T == {m \in Nat : Fine(c[m], p) /\ c[m].st = t.st /\ (p.w => Held(m))}
<1>0. c[0] = t /\ \A i \in 1 .. n : c[i] = Write(c[i - 1], PurgeRow(k, d[i].id))
  BY DEF Journals
<1>00. n \in Nat OBVIOUS
<1>1. /\ n \in Nat /\ \A i \in 1 .. n : d[i].id \in Nat \ {0}
      /\ \A x \in In(t.st.sessions, k) : \A i \in 1 .. n : x.id # d[i].id
  OBVIOUS
<1> HIDE DEF n
<1>2. 0 \in T
  <2>1. Leaves(In(R, k), d, 0) = In(R, k) BY DEF Leaves
  <2>2. Held(0) BY <1>0, <2>1 DEF Holding
  <2> QED BY <1>0, <2>2
<1>3. ASSUME NEW m \in 0 .. n - 1, m \in T PROVE m + 1 \in T
  <2> DEFINE row == PurgeRow(k, d[m + 1].id)
             y == c[m]
             u == c[m + 1]
             id == d[m + 1].id
             W == Replay(y.rows)
  <2>1. m + 1 \in 1 .. n /\ (m + 1) - 1 = m /\ m + 1 \in Nat
    <3> HIDE DEF T, u, y
    <3> QED BY <1>00
  <2>2. u = Write(y, row) BY <1>0, <2>1
  <2>3. Fine(y, p) /\ y.st = t.st /\ (p.w => Held(m)) BY <1>3
  <2>4. id \in Nat \ {0} BY <1>1, <2>1
  <2>5. row \in ShedRows /\ row \in Rows /\ row # Fragment
    BY <2>4 DEF ShedRows, Rows, PurgeRow, Fragment
  <2>6. /\ u.st = y.st /\ u.rows = AddRow(y.rows, row)
        /\ u.moments = y.moments \cup {Moment(y)}
    BY <2>2 DEF Write
  <2>7. /\ y.rows \in Seq(Rows) /\ (p.w => ~Torn(y.rows)) /\ W.sessions \in Map
        /\ Touched(W.sessions) /\ y.st.nextId = p.n
    BY <2>3, FineFacts
  <2>8. p.w => Replay(u.rows) = ApplyRow(W, row) BY <2>5, <2>6, <2>7, AddRowFacts
  <2>9. Holding(W.sessions, ApplyRow(W, row).sessions, k, Spares(In(W.sessions, k), id))
    BY <2>7, PurgeRowFacts
  <2> HIDE DEF y, u, row, id, R
  <2>10. Kept(u, p.b, p.a, p.c, p.D, p.w) BY <2>2, <2>3, <2>5, KeptRow DEF Fine
  <2>11. Fine(u, p)
    <3>1. Drops(y.st.sessions, y.st.sessions) BY DEF Drops
    <3>2. \A x \in In(y.st.sessions, k) : x.id # id BY <1>1, <2>1, <2>3 DEF id
    <3>3. Passes(y.st.sessions, W.sessions, ApplyRow(W, row).sessions)
      <4> SUFFICES ASSUME NEW l \in Scopes, NEW x \in In(y.st.sessions, l),
                          NEW v \in In(W.sessions, l), Alike(x, v)
                   PROVE  v \in In(ApplyRow(W, row).sessions, l)
        BY DEF Passes
      <4>1. l = k => v.id # id BY <3>2 DEF Alike, Same
      <4>2. id # Whole BY <2>4 DEF Whole
      <4> QED BY <2>9, <4>1, <4>2 DEF Holding, Spares
    <3>4. Owed(y, p) BY <2>3 DEF Fine
    <3>5. Owed(u, p) BY <2>5, <2>6, <2>7, <3>1, <3>3, <3>4, OwedRow
    <3> QED BY <2>6, <2>7, <2>10, <3>5 DEF Fine
  <2>12. ASSUME p.w
         PROVE  Holding(R, Replay(u.rows).sessions, k, Leaves(In(R, k), d, m + 1))
    <3>1. Holding(R, W.sessions, k, Leaves(In(R, k), d, m)) BY <2>3, <2>12 DEF y
    <3>2. In(W.sessions, k) = Leaves(In(R, k), d, m) BY <3>1 DEF Holding
    <3>3. Spares(Leaves(In(R, k), d, m), id) = Leaves(In(R, k), d, m + 1)
      <4>1. \A i : i \in 1 .. m + 1 <=> i \in 1 .. m \/ i = m + 1 BY <2>1
      <4>2. id # Whole BY <2>4 DEF Whole
      <4> QED BY <4>1, <4>2 DEF Spares, Leaves, id
    <3>4. Holding(W.sessions, Replay(u.rows).sessions, k, Leaves(In(R, k), d, m + 1))
      BY <2>8, <2>9, <2>12, <3>2, <3>3
    <3> QED BY <3>1, <3>4 DEF Holding
  <2> QED BY <2>1, <2>3, <2>6, <2>11, <2>12 DEF u
<1>4. \A m \in 0 .. n : m \in T
  <2> HIDE DEF T
  <2> QED BY <1>1, <1>2, <1>3, UpTo
<1>5. Fine(c[n], p) /\ c[n].st = t.st /\ (p.w => Held(n)) BY <1>1, <1>4
<1> QED BY <1>5 DEF n

\* The record is in memory and its session within its budget; nothing but it is not in the file.
LEMMA TrimSessionFacts ==
  ASSUME NEW t, NEW p, Fine(t, p), p.e = {}, t.st.sessions \in Map, now \in Nat, NEW k \in Scopes,
         p.b = p.n, p.c = p.a, p.D \subseteq 1 .. p.a, p.a + 1 \in p.x,
         NEW item \in Entry, item.id = p.n, item.content = p.a + 1, item.size <= MaxContent
  PROVE  LET u == TrimSession(Accept(t, k, item), k)
             B == TrimLane(Push(t.st.sessions, k, item, now), k) IN
         /\ u.st.sessions = B /\ Fine(u, Grown(p, p.v))
         /\ \E j : Grows(t.st.sessions, B, k, item, now, j)
         /\ Gains(t.st.sessions, B, k, item)
<1> DEFINE S == t.st.sessions
           P == Push(S, k, item, now)
           B == TrimLane(P, k)
           L == Append(ItemsOf(S, k), item)
           q == Newest(L, MaxPerSession)
           d == SubSeq(L, 1, Len(L) - Len(q))
           acc == Accept(t, k, item)
           u == TrimSession(acc, k)
           R == Replay(t.rows).sessions
           g == Grown(p, FALSE)
           z == WithStore(t, [sessions |-> B, nextId |-> t.st.nextId + 1])
<1>0. /\ t.st.nextId = p.n /\ p.n \in Nat \ {0} /\ Side(S, p.n, p.a) /\ S \in Loose
      /\ \A l \in Scopes : \A x \in In(S, l) : x \in Entry
      /\ \A l \in Scopes : \A x \in In(R, l) : x \in Entry
      /\ p.a \in Nat
  BY FineFacts DEF Fine, Kept
<1>1. item \in Thing /\ item \in Item BY ItemIsThing DEF Entry
<1>2. \A x \in In(S, k) : x.id < item.id BY <1>0 DEF Side
<1>3. \A s \in DOMAIN S : \A x \in ToSet(S[s].items) : x.id < item.id
  <2> SUFFICES ASSUME NEW s \in DOMAIN S, NEW x \in ToSet(S[s].items) PROVE x.id < item.id
    OBVIOUS
  <2>1. S[s].scope \in Scopes BY <1>0, LooseFacts
  <2>2. x \in In(S, S[s].scope) BY <1>0, InFacts
  <2>3. x.id \in 1 .. p.n - 1 BY <1>0, <2>1, <2>2 DEF Side
  <2> QED BY <1>0, <2>3
<1>4. /\ \E j : Grows(S, B, k, item, now, j)
      /\ L \in Seq(Thing) /\ Sorted(L) /\ ToSet(L) = In(S, k) \cup {item}
  BY <1>1, <1>3, GrowsFacts DEF In
<1>5. PICK j : Grows(S, B, k, item, now, j) BY <1>4
<1>6. Gains(S, B, k, item) /\ In(B, k) = ToSet(B[j].items)
  BY <1>1, <1>2, <1>5, GrowsGains
<1>7. Fine(z, g) BY <1>5, GrownFacts
<1>8. PICK h : Pushes(S, P, k, item, now, h) BY <1>1, <1>3, PushFacts
<1>9. P \in Map /\ h \in DOMAIN P /\ P[h].scope = k /\ P[h].items = L BY <1>8 DEF Pushes
<1>10. At(P, k) = h BY <1>9, AtFacts
<1>11. acc.st.sessions = P /\ WithSessions(acc, B) = z
  BY DEF Accept, WithStore, WithSessions
<1> HIDE DEF S, P, L, z, g, R, acc, u
<1>12. B[h].items = q /\ B[h].scope = k /\ h \in DOMAIN B
  <2>1. B = [P EXCEPT ![h].items = Newest(P[h].items, MaxPerSession)] BY <1>10 DEF TrimLane
  <2>2. P[h] \in [scope: Scopes, items: Seq(Thing), at: Nat] BY <1>9, MapFacts, LaneFacts
  <2>3. P \in Seq(Lane) BY <1>9, MapFacts
  <2> HIDE DEF B, q
  <2>4. B[h].items = Newest(P[h].items, MaxPerSession) /\ B[h].scope = P[h].scope
        /\ h \in DOMAIN B
    BY <1>9, <2>1, <2>2, <2>3
  <2> QED BY <1>9, <2>4 DEF q
<1> HIDE DEF B
<1>13. In(B, k) = ToSet(q)
  <2>1. B \in Loose BY <1>6, MapIsLoose DEF Gains
  <2> HIDE DEF q
  <2>2. In(B, k) = ToSet(B[h].items) BY <1>12, <2>1, InFacts
  <2> QED BY <1>12, <2>2
<1>14. Len(L) > 0
  <2>1. L # <<>> BY <1>0, <1>1, <1>2, PutsPushed DEF L
  <2>2. Len(L) \in Nat BY <1>4, LenProperties
  <2> QED BY <1>4, <2>1, <2>2, EmptySeq
<1>15. /\ q \in Seq(Thing) /\ d \in Seq(Thing) /\ Len(d) \in Nat
       /\ ToSet(L) \subseteq ToSet(q) \cup ToSet(d) /\ ToSet(d) \subseteq ToSet(L)
       /\ \A x \in ToSet(q) : \A i \in 1 .. Len(d) : x.id # d[i].id
  BY <1>4, <1>14, NewestSplits, BudgetAssumption
<1>16. d = Excess(acc.st.sessions[At(acc.st.sessions, k)].items)
  BY <1>9, <1>10, <1>11 DEF Excess
<1> HIDE DEF d, q
<1>17. PICK c : Journals(z, k, d, c) /\ u = c[Len(d)]
  <2>1. B = TrimLane(acc.st.sessions, k) BY <1>11 DEF B
  <2>2. \E c : /\ Journals(WithSessions(acc, TrimLane(acc.st.sessions, k)), k, d, c)
               /\ TrimSession(acc, k) = c[Len(d)]
    BY <1>15, <1>16, TrimSessionRuns
  <2> QED BY <1>11, <2>1, <2>2 DEF u
<1>18. \A i \in 1 .. Len(d) : d[i] \in ToSet(L) /\ d[i].id \in Nat \ {0}
  <2> SUFFICES ASSUME NEW i \in 1 .. Len(d) PROVE d[i] \in ToSet(L) /\ d[i].id \in Nat \ {0}
    OBVIOUS
  <2>0. i \in DOMAIN d BY <1>15, LenProperties
  <2>1. d[i] \in ToSet(L) BY <1>15, <2>0 DEF ToSet
  <2>2. CASE d[i] \in In(S, k) BY <1>0, <2>1, <2>2 DEF Side
  <2>3. CASE d[i] = item BY <1>0, <2>1, <2>3
  <2> QED BY <1>4, <2>1, <2>2, <2>3
<1>19. ~g.v /\ g.w = p.w /\ g.e = {p.a + 1}
  <2>1. g.v = FALSE /\ g.w = p.w /\ g.e = {p.a + 1} BY GrownOff, Zenon DEF g
  <2> QED BY <2>1, Zenon
<1>19a. \A x \in In(z.st.sessions, k) : \A i \in 1 .. Len(d) : x.id # d[i].id
  <2>1. z.st.sessions = B BY DEF z, WithStore
  <2> QED BY <1>13, <1>15, <2>1
<1>20. /\ Fine(u, g) /\ u.st = z.st
       /\ g.w => Holding(Replay(z.rows).sessions, Replay(u.rows).sessions, k,
                         Leaves(In(Replay(z.rows).sessions, k), d, Len(d)))
  <2>1. /\ Fine(z, g) /\ now \in Nat /\ Len(d) \in Nat /\ Journals(z, k, d, c)
        /\ \A i \in 1 .. Len(d) : d[i].id \in Nat \ {0}
    BY <1>7, <1>15, <1>17, <1>18
  <2>2. ~g.v BY <1>19
  <2>3. /\ Fine(c[Len(d)], g) /\ c[Len(d)].st = z.st
        /\ g.w => Holding(Replay(z.rows).sessions, Replay(c[Len(d)].rows).sessions, k,
                          Leaves(In(Replay(z.rows).sessions, k), d, Len(d)))
    BY <1>19a, <2>1, <2>2, JournalsFacts, Zenon
  <2>4. u = c[Len(d)] BY <1>17
  <2> QED BY <2>3, <2>4, Zenon
<1>21. z.st.sessions = B /\ z.rows = t.rows BY DEF z, WithStore
<1>22. p.w => Holding(R, Replay(u.rows).sessions, k, Leaves(In(R, k), d, Len(d)))
  BY <1>19, <1>20, <1>21 DEF R
<1>23. ASSUME p.v PROVE p.w /\ Agree(u, {p.a + 1})
  <2> DEFINE U == Replay(u.rows).sessions
  <2>1. p.w /\ Shows(S, R, {}) /\ Shows(R, S, {}) BY <1>23 DEF Fine, Agree, S, R
  <2>2. Holding(R, U, k, Leaves(In(R, k), d, Len(d))) BY <1>22, <2>1
  <2> HIDE DEF U
  <2>3. Shows(B, U, {p.a + 1})
    <3> SUFFICES ASSUME NEW l \in Scopes, NEW x \in In(B, l), x.status # "expired",
                        x.content \notin {p.a + 1}
                 PROVE  \E y \in In(U, l) : Alike(x, y)
      BY DEF Shows
    <3>1. x \in In(S, l) BY <1>6 DEF Gains
    <3>3. PICK y \in In(R, l) : Alike(x, y) BY <2>1, <3>1 DEF Shows
    <3>4. CASE l # k BY <2>2, <3>3, <3>4 DEF Holding
    <3>5. CASE l = k
      <4>1. x \in ToSet(q) BY <1>13, <3>5
      <4>2. \A i \in 1 .. Len(d) : y.id # d[i].id
        BY <1>15, <3>3, <4>1 DEF Alike, Same
      <4>3. y \in Leaves(In(R, k), d, Len(d)) BY <3>3, <3>5, <4>2 DEF Leaves
      <4> QED BY <2>2, <3>3, <3>5, <4>3 DEF Holding
    <3> QED BY <3>4, <3>5
  <2>4. Shows(U, B, {})
    <3> SUFFICES ASSUME NEW l \in Scopes, NEW x \in In(U, l), x.status # "expired"
                 PROVE  \E y \in In(B, l) : Alike(x, y)
      BY DEF Shows
    <3>1. CASE l # k
      <4>1. x \in In(R, l) BY <2>2, <3>1 DEF Holding
      <4>2. PICK y \in In(S, l) : Alike(x, y) BY <2>1, <4>1 DEF Shows
      <4> QED BY <1>6, <3>1, <4>2 DEF Gains
    <3>2. CASE l = k
      <4>1. x \in In(R, k) /\ \A i \in 1 .. Len(d) : x.id # d[i].id
        BY <2>2, <3>2 DEF Holding, Leaves
      <4>2. PICK y \in In(S, k) : Alike(x, y) BY <2>1, <3>2, <4>1 DEF Shows
      <4>3. y \notin ToSet(d)
        <5> SUFFICES ASSUME y \in ToSet(d) PROVE FALSE OBVIOUS
        <5>1. PICK i \in 1 .. Len(d) : d[i] = y BY <1>15, LenProperties DEF ToSet
        <5> QED BY <4>1, <4>2, <5>1 DEF Alike, Same
      <4>4. y \in ToSet(q) BY <1>4, <1>15, <4>3
      <4> QED BY <1>13, <3>2, <4>2, <4>4
    <3> QED BY <3>1, <3>2
  <2>5. u.st.sessions = B BY <1>20, <1>21
  <2> QED BY <2>1, <2>3, <2>4, <2>5 DEF Agree, U
<1>24. Fine(u, Grown(p, p.v))
  <2> DEFINE f == Grown(p, p.v)
  <2>1. /\ f.n = g.n /\ f.b = g.b /\ f.a = g.a /\ f.c = g.c /\ f.D = g.D /\ f.w = g.w
        /\ f.e = {p.a + 1} /\ f.v = p.v /\ f.x = g.x /\ f.m = g.m /\ f.s = g.s
    <3>1. /\ f.n = p.n + 1 /\ f.b = p.b /\ f.a = p.a + 1 /\ f.c = p.c /\ f.D = p.D
          /\ f.w = p.w /\ f.e = {p.a + 1} /\ f.v = p.v
          /\ f.x = p.x /\ f.m = p.m /\ f.s = p.s
      BY GrownOn, Zenon
    <3>2. /\ g.n = p.n + 1 /\ g.b = p.b /\ g.a = p.a + 1 /\ g.c = p.c /\ g.D = p.D
          /\ g.w = p.w /\ g.x = p.x /\ g.m = p.m /\ g.s = p.s
      BY GrownOff, Zenon DEF g
    <3> HIDE DEF f
    <3> QED BY <3>1, <3>2, Zenon
  <2> HIDE DEF f
  <2>2. Kept(u, f.b, f.a, f.c, f.D, f.w) /\ u.st.nextId = f.n BY <1>20, <2>1 DEF Fine
  <2>3. f.w = p.w BY <1>19, <2>1
  <2>4. f.v => f.w /\ Agree(u, f.e) BY <1>23, <2>1, <2>3
  <2>5. Owed(u, f)
    <3>1. Owed(u, g) BY <1>20 DEF Fine
    <3>2. f.x = g.x /\ f.m = g.m /\ f.s = g.s BY <2>1
    <3> QED BY <3>1, <3>2 DEF Owed
  <2>6. Fine(u, f) BY <2>2, <2>4, <2>5 DEF Fine
  <2> QED BY <2>6 DEF f
<1>25. u.st.sessions = B BY <1>20, <1>21
<1> QED BY <1>5, <1>6, <1>24, <1>25 DEF u, B, acc, P, S

(***************************************************************************)
(* trimGlobal and trimSessions.                                            *)
(***************************************************************************)
\* A record, or all those of a scope, leave the store and the file alike.
LEMMA SparesFine ==
  ASSUME NEW t, NEW p, Fine(t, p), now \in Nat, NEW k \in Scopes, NEW id \in Nat,
         NEW u, Kept(u, p.b, p.a, p.c, p.D, p.w), u.st.nextId = t.st.nextId,
         u.rows = AddRow(t.rows, PurgeRow(k, id)),
         NEW y, y.rows = t.rows, Drops(y.st.sessions, t.st.sessions),
         u.moments = t.moments \cup {Moment(y)},
         Holding(t.st.sessions, u.st.sessions, k, Spares(In(t.st.sessions, k), id))
  PROVE  Fine(u, p)
<1> DEFINE S == t.st.sessions
           row == PurgeRow(k, id)
           R == Replay(t.rows)
           U == ApplyRow(R, row)
<1>0. /\ t.rows \in Seq(Rows) /\ (p.w => ~Torn(t.rows)) /\ t.st.nextId = p.n
      /\ R.sessions \in Map /\ Touched(R.sessions)
  BY FineFacts
<1>1. row \in Rows /\ row # Fragment BY DEF Rows, PurgeRow, Fragment
<1>2. Holding(R.sessions, U.sessions, k, Spares(In(R.sessions, k), id))
  BY <1>0, PurgeRowFacts
<1>3. u.rows = AddRow(t.rows, row) OBVIOUS
<1> HIDE DEF row
<1>4. p.w => Replay(u.rows) = U BY <1>0, <1>1, <1>3, AddRowFacts
<1> HIDE DEF U, R
<1>5. /\ Drops(u.st.sessions, S) /\ Passes(u.st.sessions, R.sessions, U.sessions)
      /\ Drops(U.sessions, R.sessions) /\ Passes(U.sessions, S, u.st.sessions)
  BY <1>2, SparedPasses
<1>6. Owed(u, p)
  <2>1. Owed(t, p) BY DEF Fine
  <2> QED BY <1>0, <1>1, <1>3, <1>5, <2>1, OwedRow DEF R, U
<1>7. ASSUME p.v PROVE p.w /\ Agree(u, p.e)
  <2>1. p.w /\ Shows(S, R.sessions, p.e) /\ Shows(R.sessions, S, {})
    BY <1>7 DEF Fine, Agree, R
  <2>2. Shows(u.st.sessions, U.sessions, p.e) BY <1>5, <2>1, ShowsShed
  <2>3. Shows(U.sessions, u.st.sessions, {}) BY <1>5, <2>1, ShowsShed
  <2> QED BY <1>4, <2>1, <2>2, <2>3 DEF Agree
<1> QED BY <1>0, <1>6, <1>7 DEF Fine

LEMMA TailSpares ==
  ASSUME NEW items \in Seq(Thing), Sorted(items), items # <<>>
  PROVE  /\ Tail(items) \in Seq(Thing) /\ Sorted(Tail(items))
         /\ Len(Tail(items)) \in Nat /\ Len(Tail(items)) < Len(items)
         /\ items[1] \in ToSet(items)
         /\ ToSet(Tail(items)) = {x \in ToSet(items) : x.id # items[1].id}
<1> DEFINE q == Tail(items)
<1>1. q \in Seq(Thing) /\ Len(q) = Len(items) - 1 /\ \A i \in 1 .. Len(q) : q[i] = items[i + 1]
  BY HeadTailProperties
<1>2. /\ Len(items) \in Nat \ {0} /\ DOMAIN items = 1 .. Len(items) /\ DOMAIN q = 1 .. Len(q)
      /\ \A i \in DOMAIN items : items[i].id \in Nat
  <2>1. \A i \in DOMAIN items : items[i] \in Thing OBVIOUS
  <2> QED BY <1>1, <2>1, EmptySeq, LenProperties DEF Thing, Item
<1> HIDE DEF q
<1>3. Sorted(q)
  <2> SUFFICES ASSUME NEW i \in DOMAIN q, NEW j \in DOMAIN q, i < j PROVE q[i].id < q[j].id
    BY DEF Sorted
  <2>1. /\ i + 1 \in DOMAIN items /\ j + 1 \in DOMAIN items /\ i + 1 < j + 1
        /\ q[i] = items[i + 1] /\ q[j] = items[j + 1]
    BY <1>1, <1>2
  <2> QED BY <2>1 DEF Sorted
<1>4. 1 \in DOMAIN items BY <1>2
<1>5. ASSUME NEW x \in ToSet(q) PROVE x \in ToSet(items) /\ x.id # items[1].id
  <2>1. PICK i \in 1 .. Len(q) : q[i] = x BY <1>2 DEF ToSet
  <2>2. i + 1 \in DOMAIN items /\ 1 < i + 1 /\ items[i + 1] = x BY <1>1, <1>2, <2>1
  <2>3. items[1].id < items[i + 1].id BY <1>4, <2>2 DEF Sorted
  <2> QED BY <1>2, <1>4, <2>2, <2>3 DEF ToSet
<1>6. ASSUME NEW x \in ToSet(items), x.id # items[1].id PROVE x \in ToSet(q)
  <2>1. PICK i \in 1 .. Len(items) : items[i] = x BY <1>2 DEF ToSet
  <2>2. i - 1 \in 1 .. Len(q) /\ (i - 1) + 1 = i BY <1>1, <1>2, <1>6, <2>1
  <2>3. q[i - 1] = x BY <1>1, <2>1, <2>2
  <2> QED BY <1>2, <2>2, <2>3 DEF ToSet
<1> QED BY <1>1, <1>2, <1>3, <1>4, <1>5, <1>6 DEF q, ToSet

LEMMA PutsShort ==
  ASSUME NEW S \in Loose, Short(S), NEW T, NEW k, NEW q, NEW at, Puts(S, T, k, q, at),
         Len(q) <= MaxPerSession
  PROVE  Short(T)
BY DEF Puts, Short

LEMMA TrimItemFacts ==
  ASSUME NEW t, NEW p, Fine(t, p), now \in Nat, t.st.sessions \in Map,
         OverGlobal(t.st.sessions)
  PROVE  LET u == TrimOldestItem(t) IN
         /\ Fine(u, p) /\ u.st.sessions = ShiftOldest(t.st.sessions)
         /\ u.st.sessions \in Map /\ Fades(u.st.sessions, t.st.sessions)
<1> DEFINE S == t.st.sessions
           o == Oldest(S)
           L == S[o].items
           k == S[o].scope
           q == Tail(L)
           at == S[o].at
           id == L[1].id
           T == [S EXCEPT ![o].items = q]
           V == ShiftOldest(S)
           row == PurgeRow(k, id)
           shifted == WithSessions(t, T)
           y == Write(shifted, row)
           u == TrimOldestItem(t)
<1>0. /\ t.st.nextId = p.n /\ p.n \in Nat \ {0} /\ Side(S, p.n, p.a) /\ S \in Loose /\ Short(S)
      /\ Touched(S) /\ \A l \in Scopes : \A x \in In(S, l) : x \in Entry
  BY FineFacts
<1>1. S # <<>> BY OverIsNotEmpty
<1>2. o \in DOMAIN S BY <1>1, OldestFacts
<1>3. L \in Seq(Thing) /\ Sorted(L) /\ Len(L) \in Nat \ {0} /\ k \in Scopes /\ at \in Nat
  BY <1>2, MapFacts, LaneFacts
<1>4. L # <<>> BY <1>3, EmptySeq
<1>5. u = WithSessions(y, V) BY <1>4 DEF TrimOldestItem
<1>6. V = SetItems(S, o, q) BY <1>4 DEF ShiftOldest
<1>7. V \in Map BY <1>1, ShiftFacts
<1>8. /\ shifted.st.nextId = t.st.nextId /\ shifted.rows = t.rows
      /\ y.st = shifted.st /\ y.rows = AddRow(t.rows, row)
      /\ shifted.st.sessions = T /\ y.moments = t.moments \cup {Moment(shifted)}
  BY DEF WithSessions, WithStore, Write
<1>9. /\ u.st.sessions = V /\ u.st.nextId = t.st.nextId /\ u.rows = AddRow(t.rows, row)
      /\ u.moments = t.moments \cup {Moment(shifted)}
  <2> HIDE DEF u, y, V, T, shifted, row
  <2> QED BY <1>5, <1>8 DEF WithSessions, WithStore
<1>10. In(S, k) = ToSet(L) BY <1>0, <1>2, InFacts
<1> HIDE DEF S, L, q, T, V, shifted, y, u, o
<1>11. /\ q \in Seq(Thing) /\ Sorted(q) /\ Len(q) \in Nat /\ Len(q) < Len(L)
       /\ L[1] \in ToSet(L) /\ ToSet(q) = {x \in ToSet(L) : x.id # L[1].id}
  BY <1>3, <1>4, TailSpares DEF q
<1>12. Puts(S, T, k, q, at) /\ Puts(S, V, k, q, at)
  <2>1. Puts(S, [S EXCEPT ![o].items = q], S[o].scope, q, S[o].at)
    BY <1>0, <1>2, <1>3, <1>11, PutsItems, Zenon
  <2>2. Puts(S, V, k, q, at) BY <1>0, <1>2, <1>6, <1>11, PutsSet
  <2> QED BY <2>1, <2>2 DEF T
<1>13. id \in Nat \ {0}
  <2>1. L[1] \in In(S, k) BY <1>10, <1>11
  <2>2. id \in 1 .. p.n - 1 BY <1>0, <1>3, <2>1 DEF Side
  <2> QED BY <1>0, <2>2
<1>14. ToSet(q) = Spares(In(S, k), id) BY <1>10, <1>11, <1>13 DEF Spares, Whole
<1>15. at <= now BY <1>0, <1>2 DEF Touched
<1>16. Len(q) <= MaxPerSession
  <2>1. Len(L) <= MaxPerSession BY <1>0, <1>2 DEF Short, L
  <2> QED BY <1>3, <1>11, <2>1, BudgetAssumption
<1>17. row \in ShedRows BY <1>3, <1>13 DEF ShedRows
<1> HIDE DEF k, at, id, row
<1>18. \A x \in ToSet(q) : x \in Entry /\ \E z \in In(S, k) :
                              Same(x, z) /\ x.status \in {z.status, "expired"}
  BY <1>0, <1>3, <1>14 DEF Spares, Same
<1>19. /\ Fades(T, S) /\ Touched(T) /\ T \in Loose /\ Short(T)
       /\ Fades(V, S) /\ Touched(V) /\ V \in Loose /\ Short(V)
  BY <1>0, <1>12, <1>15, <1>16, <1>18, FadesPuts, PutsShort
<1>20. Fades(V, T)
  <2>1. \A l \in Scopes : In(V, l) = In(T, l) BY <1>12 DEF Puts
  <2>2. \A l \in Scopes : \A x \in In(V, l) : x \in Entry BY <1>19 DEF Fades
  <2> QED BY <2>1, <2>2 DEF Fades, Same
<1>21. Kept(t, p.b, p.a, p.c, p.D, p.w) BY DEF Fine
<1>22. Kept(shifted, p.b, p.a, p.c, p.D, p.w) BY <1>19, <1>21, KeptStore DEF shifted, S
<1>23. Kept(y, p.b, p.a, p.c, p.D, p.w) BY <1>17, <1>22, KeptRow DEF y
<1>24. y.st.sessions = T BY <1>8
<1>25. Kept(u, p.b, p.a, p.c, p.D, p.w) BY <1>5, <1>19, <1>20, <1>23, <1>24, KeptStore
<1>26. Holding(S, V, k, Spares(In(S, k), id)) BY <1>12, <1>14 DEF Puts, Holding
<1>27. /\ Holding(t.st.sessions, u.st.sessions, k, Spares(In(t.st.sessions, k), id))
       /\ u.rows = AddRow(t.rows, PurgeRow(k, id)) /\ k \in Scopes /\ id \in Nat
  BY <1>3, <1>9, <1>13, <1>26 DEF S, row
<1>28. Drops(shifted.st.sessions, t.st.sessions)
  <2>1. \A l \in Scopes : In(T, l) \subseteq In(S, l) BY <1>12, <1>14 DEF Puts, Spares
  <2> QED BY <1>8, <2>1 DEF Drops, S
<1>29. Fine(u, p) BY <1>8, <1>9, <1>25, <1>27, <1>28, SparesFine
<1> QED BY <1>7, <1>9, <1>19, <1>29 DEF u, S, V

LEMMA TrimOldestFacts ==
  ASSUME NEW t, NEW p, Fine(t, p), now \in Nat, t.st.sessions \in Map,
         OverSessions(t.st.sessions)
  PROVE  LET u == TrimOldestSession(t) IN
         /\ Fine(u, p) /\ u.st.sessions = DropOldest(t.st.sessions)
         /\ u.st.sessions \in Map /\ Fades(u.st.sessions, t.st.sessions)
<1> DEFINE S == t.st.sessions
           o == Oldest(S)
           k == S[o].scope
           at == S[o].at
           V == DropOldest(S)
           row == PurgeRow(k, Whole)
           y == Write(t, row)
           u == TrimOldestSession(t)
<1>0. /\ t.st.nextId = p.n /\ p.n \in Nat \ {0} /\ Side(S, p.n, p.a) /\ S \in Loose /\ Short(S)
      /\ Touched(S)
  BY FineFacts
<1>1. S # <<>> BY OverIsNotEmpty
<1>2. o \in DOMAIN S BY <1>1, OldestFacts
<1>3. k \in Scopes /\ at \in Nat BY <1>2, MapFacts, LaneFacts
<1>5. u = WithSessions(y, V) BY DEF TrimOldestSession
<1>6. V = RemoveAt(S, o) BY DEF DropOldest
<1>7. V \in Map BY <1>1, DropFacts
<1>8. y.st = t.st /\ y.rows = AddRow(t.rows, row) /\ y.moments = t.moments \cup {Moment(t)}
  BY DEF Write
<1>9. /\ u.st.sessions = V /\ u.st.nextId = t.st.nextId /\ u.rows = AddRow(t.rows, row)
      /\ u.moments = t.moments \cup {Moment(t)}
  BY <1>5, <1>8 DEF WithSessions, WithStore
<1>10. Whole \in Nat /\ row \in ShedRows BY <1>3 DEF ShedRows, Whole
<1> HIDE DEF S, V, y, u, o
<1>11. Puts(S, V, k, <<>>, at) BY <1>0, <1>2, <1>6, PutsNone
<1>12. ToSet(<<>>) = {} /\ Len(<<>>) = 0 BY DEF ToSet
<1>15. at <= now BY <1>0, <1>2 DEF Touched
<1> HIDE DEF k, at, row
<1>16. /\ Fades(V, S) /\ Touched(V) /\ V \in Loose
  BY <1>0, <1>11, <1>12, <1>15, FadesPuts
<1>17. Short(V)
  <2>1. Len(<<>>) <= MaxPerSession BY <1>12, BudgetAssumption
  <2> QED BY <1>0, <1>11, <2>1, PutsShort
<1>18. Kept(t, p.b, p.a, p.c, p.D, p.w) BY DEF Fine
<1>19. Kept(y, p.b, p.a, p.c, p.D, p.w) BY <1>10, <1>18, KeptRow DEF y
<1>20. y.st.sessions = S BY <1>8 DEF S
<1>21. Kept(u, p.b, p.a, p.c, p.D, p.w) BY <1>5, <1>16, <1>17, <1>19, <1>20, KeptStore
<1>22. Holding(S, V, k, Spares(In(S, k), Whole))
  <2>1. Spares(In(S, k), Whole) = {} BY DEF Spares
  <2> QED BY <1>11, <1>12, <2>1 DEF Puts, Holding
<1>23. /\ Holding(t.st.sessions, u.st.sessions, k, Spares(In(t.st.sessions, k), Whole))
       /\ u.rows = AddRow(t.rows, PurgeRow(k, Whole)) /\ k \in Scopes
  BY <1>3, <1>9, <1>22 DEF S, row
<1>24. t.rows = t.rows /\ Drops(t.st.sessions, t.st.sessions) BY DEF Drops
<1>25. Fine(u, p) BY <1>9, <1>10, <1>21, <1>23, <1>24, SparesFine
<1> QED BY <1>7, <1>9, <1>16, <1>25 DEF u, S, V

\* c[n] is what n rounds of trimGlobal leave of t, d[n] what they leave of S.
GlobalRounds(t, c, r) ==
    /\ c[0] = t
    /\ \A i \in 1 .. r : c[i] = IF OverGlobal(c[i - 1].st.sessions)
                                THEN TrimOldestItem(c[i - 1]) ELSE c[i - 1]

GlobalMaps(S, d, r) ==
    /\ d[0] = S
    /\ \A i \in 1 .. r : d[i] = IF OverGlobal(d[i - 1]) THEN ShiftOldest(d[i - 1]) ELSE d[i - 1]

\* The same of trimSessions.
SessionRounds(t, c, r) ==
    /\ c[0] = t
    /\ \A i \in 1 .. r : c[i] = IF OverSessions(c[i - 1].st.sessions)
                                THEN TrimOldestSession(c[i - 1]) ELSE c[i - 1]

SessionMaps(S, d, r) ==
    /\ d[0] = S
    /\ \A i \in 1 .. r : d[i] = IF OverSessions(d[i - 1]) THEN DropOldest(d[i - 1]) ELSE d[i - 1]

LEMMA GlobalRoundsRun ==
  ASSUME NEW t, GlobalCount(t.st.sessions) + Len(t.st.sessions) \in Nat
  PROVE  \E c : GlobalRounds(t, c, GlobalCount(t.st.sessions) + Len(t.st.sessions)) /\ TrimGlobal(t) = c[GlobalCount(t.st.sessions) + Len(t.st.sessions)]
<1> DEFINE Step(y, i) == IF OverGlobal(y.st.sessions) THEN TrimOldestItem(y) ELSE y
           Is(n, f) == f = [i \in 0 .. n |-> IF i = 0 THEN t ELSE Step(f[i - 1], i)]
           T == {n \in Nat : \E f : Is(n, f)}
           r == GlobalCount(t.st.sessions) + Len(t.st.sessions)
           c == CHOOSE f : Is(r, f)
<1>0. r \in Nat OBVIOUS
<1>1. 0 \in T
  <2>1. Is(0, [i \in 0 .. 0 |-> t]) OBVIOUS
  <2> QED BY <2>1
<1>2. ASSUME NEW n \in Nat, n \in T PROVE n + 1 \in T
  <2>1. PICK f : Is(n, f) BY <1>2
  <2> HIDE DEF Step
  <2>2. PICK g : Longer(g, f, n, Step(f[n], n + 1)) BY LongerExists
  <2>3. ASSUME NEW i \in 0 .. n + 1 PROVE g[i] = IF i = 0 THEN t ELSE Step(g[i - 1], i)
    <3>1. CASE i \in 0 .. n
      <4>1. f[i] = IF i = 0 THEN t ELSE Step(f[i - 1], i) BY <2>1, <3>1
      <4> QED BY <2>2, <3>1, <4>1 DEF Longer
    <3>2. CASE i = n + 1 BY <2>2, <3>2 DEF Longer
    <3> QED BY <3>1, <3>2
  <2>4. Is(n + 1, g) BY <2>2, <2>3, Zenon DEF Longer
  <2> QED BY <2>4
<1>3. r \in T
  <2> HIDE DEF T, r
  <2> QED BY <1>0, <1>1, <1>2, SetInduction
<1>4. Is(r, c)
  <2>1. \E f : Is(r, f) BY <1>3
  <2> HIDE DEF Is
  <2> QED BY <2>1
<1>5. TrimGlobal(t) = c[r] BY DEF TrimGlobal, While
<1> HIDE DEF c, r
<1>6. ASSUME NEW i \in 0 .. r PROVE c[i] = IF i = 0 THEN t ELSE Step(c[i - 1], i)
  <2> DEFINE F(l) == IF l = 0 THEN t ELSE Step(c[l - 1], l)
  <2>1. c = [l \in 0 .. r |-> F(l)] BY <1>4
  <2> HIDE DEF F
  <2>2. c[i] = F(i) BY <2>1
  <2> QED BY <2>2 DEF F
<1>7. c[0] = t BY <1>0, <1>6
<1>8. ASSUME NEW i \in 1 .. r PROVE c[i] = Step(c[i - 1], i)
  <2>1. i \in 0 .. r /\ i # 0 BY <1>0
  <2> HIDE DEF Step
  <2> QED BY <1>6, <2>1
<1>9. GlobalRounds(t, c, r) BY <1>7, <1>8 DEF GlobalRounds
<1> QED BY <1>5, <1>9 DEF r

LEMMA GlobalMapsRun ==
  ASSUME NEW S, GlobalCount(S) + Len(S) \in Nat
  PROVE  \E c : GlobalMaps(S, c, GlobalCount(S) + Len(S)) /\ TrimGlobally(S) = c[GlobalCount(S) + Len(S)]
<1> DEFINE Step(y, i) == IF OverGlobal(y) THEN ShiftOldest(y) ELSE y
           Is(n, f) == f = [i \in 0 .. n |-> IF i = 0 THEN S ELSE Step(f[i - 1], i)]
           T == {n \in Nat : \E f : Is(n, f)}
           r == GlobalCount(S) + Len(S)
           c == CHOOSE f : Is(r, f)
<1>0. r \in Nat OBVIOUS
<1>1. 0 \in T
  <2>1. Is(0, [i \in 0 .. 0 |-> S]) OBVIOUS
  <2> QED BY <2>1
<1>2. ASSUME NEW n \in Nat, n \in T PROVE n + 1 \in T
  <2>1. PICK f : Is(n, f) BY <1>2
  <2> HIDE DEF Step
  <2>2. PICK g : Longer(g, f, n, Step(f[n], n + 1)) BY LongerExists
  <2>3. ASSUME NEW i \in 0 .. n + 1 PROVE g[i] = IF i = 0 THEN S ELSE Step(g[i - 1], i)
    <3>1. CASE i \in 0 .. n
      <4>1. f[i] = IF i = 0 THEN S ELSE Step(f[i - 1], i) BY <2>1, <3>1
      <4> QED BY <2>2, <3>1, <4>1 DEF Longer
    <3>2. CASE i = n + 1 BY <2>2, <3>2 DEF Longer
    <3> QED BY <3>1, <3>2
  <2>4. Is(n + 1, g) BY <2>2, <2>3, Zenon DEF Longer
  <2> QED BY <2>4
<1>3. r \in T
  <2> HIDE DEF T, r
  <2> QED BY <1>0, <1>1, <1>2, SetInduction
<1>4. Is(r, c)
  <2>1. \E f : Is(r, f) BY <1>3
  <2> HIDE DEF Is
  <2> QED BY <2>1
<1>5. TrimGlobally(S) = c[r] BY DEF TrimGlobally, While
<1> HIDE DEF c, r
<1>6. ASSUME NEW i \in 0 .. r PROVE c[i] = IF i = 0 THEN S ELSE Step(c[i - 1], i)
  <2> DEFINE F(l) == IF l = 0 THEN S ELSE Step(c[l - 1], l)
  <2>1. c = [l \in 0 .. r |-> F(l)] BY <1>4
  <2> HIDE DEF F
  <2>2. c[i] = F(i) BY <2>1
  <2> QED BY <2>2 DEF F
<1>7. c[0] = S BY <1>0, <1>6
<1>8. ASSUME NEW i \in 1 .. r PROVE c[i] = Step(c[i - 1], i)
  <2>1. i \in 0 .. r /\ i # 0 BY <1>0
  <2> HIDE DEF Step
  <2> QED BY <1>6, <2>1
<1>9. GlobalMaps(S, c, r) BY <1>7, <1>8 DEF GlobalMaps
<1> QED BY <1>5, <1>9 DEF r

LEMMA SessionRoundsRun ==
  ASSUME NEW t, Len(t.st.sessions) \in Nat
  PROVE  \E c : SessionRounds(t, c, Len(t.st.sessions)) /\ TrimSessions(t) = c[Len(t.st.sessions)]
<1> DEFINE Step(y, i) == IF OverSessions(y.st.sessions) THEN TrimOldestSession(y) ELSE y
           Is(n, f) == f = [i \in 0 .. n |-> IF i = 0 THEN t ELSE Step(f[i - 1], i)]
           T == {n \in Nat : \E f : Is(n, f)}
           r == Len(t.st.sessions)
           c == CHOOSE f : Is(r, f)
<1>0. r \in Nat OBVIOUS
<1>1. 0 \in T
  <2>1. Is(0, [i \in 0 .. 0 |-> t]) OBVIOUS
  <2> QED BY <2>1
<1>2. ASSUME NEW n \in Nat, n \in T PROVE n + 1 \in T
  <2>1. PICK f : Is(n, f) BY <1>2
  <2> HIDE DEF Step
  <2>2. PICK g : Longer(g, f, n, Step(f[n], n + 1)) BY LongerExists
  <2>3. ASSUME NEW i \in 0 .. n + 1 PROVE g[i] = IF i = 0 THEN t ELSE Step(g[i - 1], i)
    <3>1. CASE i \in 0 .. n
      <4>1. f[i] = IF i = 0 THEN t ELSE Step(f[i - 1], i) BY <2>1, <3>1
      <4> QED BY <2>2, <3>1, <4>1 DEF Longer
    <3>2. CASE i = n + 1 BY <2>2, <3>2 DEF Longer
    <3> QED BY <3>1, <3>2
  <2>4. Is(n + 1, g) BY <2>2, <2>3, Zenon DEF Longer
  <2> QED BY <2>4
<1>3. r \in T
  <2> HIDE DEF T, r
  <2> QED BY <1>0, <1>1, <1>2, SetInduction
<1>4. Is(r, c)
  <2>1. \E f : Is(r, f) BY <1>3
  <2> HIDE DEF Is
  <2> QED BY <2>1
<1>5. TrimSessions(t) = c[r] BY DEF TrimSessions, While
<1> HIDE DEF c, r
<1>6. ASSUME NEW i \in 0 .. r PROVE c[i] = IF i = 0 THEN t ELSE Step(c[i - 1], i)
  <2> DEFINE F(l) == IF l = 0 THEN t ELSE Step(c[l - 1], l)
  <2>1. c = [l \in 0 .. r |-> F(l)] BY <1>4
  <2> HIDE DEF F
  <2>2. c[i] = F(i) BY <2>1
  <2> QED BY <2>2 DEF F
<1>7. c[0] = t BY <1>0, <1>6
<1>8. ASSUME NEW i \in 1 .. r PROVE c[i] = Step(c[i - 1], i)
  <2>1. i \in 0 .. r /\ i # 0 BY <1>0
  <2> HIDE DEF Step
  <2> QED BY <1>6, <2>1
<1>9. SessionRounds(t, c, r) BY <1>7, <1>8 DEF SessionRounds
<1> QED BY <1>5, <1>9 DEF r

LEMMA SessionMapsRun ==
  ASSUME NEW S, Len(S) \in Nat
  PROVE  \E c : SessionMaps(S, c, Len(S)) /\ TrimSessionCount(S) = c[Len(S)]
<1> DEFINE Step(y, i) == IF OverSessions(y) THEN DropOldest(y) ELSE y
           Is(n, f) == f = [i \in 0 .. n |-> IF i = 0 THEN S ELSE Step(f[i - 1], i)]
           T == {n \in Nat : \E f : Is(n, f)}
           r == Len(S)
           c == CHOOSE f : Is(r, f)
<1>0. r \in Nat OBVIOUS
<1>1. 0 \in T
  <2>1. Is(0, [i \in 0 .. 0 |-> S]) OBVIOUS
  <2> QED BY <2>1
<1>2. ASSUME NEW n \in Nat, n \in T PROVE n + 1 \in T
  <2>1. PICK f : Is(n, f) BY <1>2
  <2> HIDE DEF Step
  <2>2. PICK g : Longer(g, f, n, Step(f[n], n + 1)) BY LongerExists
  <2>3. ASSUME NEW i \in 0 .. n + 1 PROVE g[i] = IF i = 0 THEN S ELSE Step(g[i - 1], i)
    <3>1. CASE i \in 0 .. n
      <4>1. f[i] = IF i = 0 THEN S ELSE Step(f[i - 1], i) BY <2>1, <3>1
      <4> QED BY <2>2, <3>1, <4>1 DEF Longer
    <3>2. CASE i = n + 1 BY <2>2, <3>2 DEF Longer
    <3> QED BY <3>1, <3>2
  <2>4. Is(n + 1, g) BY <2>2, <2>3, Zenon DEF Longer
  <2> QED BY <2>4
<1>3. r \in T
  <2> HIDE DEF T, r
  <2> QED BY <1>0, <1>1, <1>2, SetInduction
<1>4. Is(r, c)
  <2>1. \E f : Is(r, f) BY <1>3
  <2> HIDE DEF Is
  <2> QED BY <2>1
<1>5. TrimSessionCount(S) = c[r] BY DEF TrimSessionCount, While
<1> HIDE DEF c, r
<1>6. ASSUME NEW i \in 0 .. r PROVE c[i] = IF i = 0 THEN S ELSE Step(c[i - 1], i)
  <2> DEFINE F(l) == IF l = 0 THEN S ELSE Step(c[l - 1], l)
  <2>1. c = [l \in 0 .. r |-> F(l)] BY <1>4
  <2> HIDE DEF F
  <2>2. c[i] = F(i) BY <2>1
  <2> QED BY <2>2 DEF F
<1>7. c[0] = S BY <1>0, <1>6
<1>8. ASSUME NEW i \in 1 .. r PROVE c[i] = Step(c[i - 1], i)
  <2>1. i \in 0 .. r /\ i # 0 BY <1>0
  <2> HIDE DEF Step
  <2> QED BY <1>6, <2>1
<1>9. SessionMaps(S, c, r) BY <1>7, <1>8 DEF SessionMaps
<1> QED BY <1>5, <1>9 DEF r

LEMMA TrimGlobalFacts ==
  ASSUME NEW t, NEW p, Fine(t, p), now \in Nat, t.st.sessions \in Map
  PROVE  LET u == TrimGlobal(t) IN
         /\ Fine(u, p) /\ u.st.sessions = TrimGlobally(t.st.sessions)
         /\ u.st.sessions \in Map /\ Fades(u.st.sessions, t.st.sessions)
<1> DEFINE S == t.st.sessions
           r == GlobalCount(S) + Len(S)
<1>0. r \in Nat BY MapFacts, CountIsNatural
<1>1. PICK c : GlobalRounds(t, c, r) /\ TrimGlobal(t) = c[r] BY <1>0, GlobalRoundsRun
<1>2. PICK d : GlobalMaps(S, d, r) /\ TrimGlobally(S) = d[r] BY <1>0, GlobalMapsRun
<1>3. Fades(S, S)
  <2>1. Side(S, p.n, p.a) BY FineFacts
  <2> QED BY <2>1, FadesItself
<1> HIDE DEF r, S
<1> DEFINE Good(y, z) == Fine(y, p) /\ y.st.sessions = z /\ z \in Map /\ Fades(z, S)
           T == {m \in Nat : Good(c[m], d[m])}
<1>4. 0 \in T
  <2>1. c[0] = t /\ d[0] = S BY <1>1, <1>2 DEF GlobalRounds, GlobalMaps
  <2>2. Good(t, S) BY <1>3 DEF S
  <2> HIDE DEF Good
  <2> QED BY <2>1, <2>2
<1>5. ASSUME NEW m \in 0 .. r - 1, m \in T PROVE m + 1 \in T
  <2> DEFINE y == c[m]
             z == d[m]
  <2>1. m + 1 \in 1 .. r /\ (m + 1) - 1 = m /\ m + 1 \in Nat
    <3> HIDE DEF T
    <3> QED BY <1>0
  <2>2. Good(y, z) BY <1>5
  <2>3. c[m + 1] = IF OverGlobal(y.st.sessions) THEN TrimOldestItem(y) ELSE y
    BY <1>1, <2>1 DEF GlobalRounds
  <2>4. d[m + 1] = IF OverGlobal(z) THEN ShiftOldest(z) ELSE z BY <1>2, <2>1 DEF GlobalMaps
  <2> HIDE DEF y, z
  <2>5. CASE ~OverGlobal(z)
    <3>1. c[m + 1] = y /\ d[m + 1] = z BY <2>2, <2>3, <2>4, <2>5
    <3> HIDE DEF Good
    <3> QED BY <2>1, <2>2, <3>1
  <2>6. CASE OverGlobal(z)
    <3>1. c[m + 1] = TrimOldestItem(y) /\ d[m + 1] = ShiftOldest(z) BY <2>2, <2>3, <2>4, <2>6
    <3> DEFINE v == TrimOldestItem(y)
    <3>2. /\ Fine(v, p) /\ v.st.sessions = ShiftOldest(z) /\ v.st.sessions \in Map
          /\ Fades(v.st.sessions, z)
      BY <2>2, <2>6, TrimItemFacts
    <3> HIDE DEF v
    <3>3. Fades(v.st.sessions, S) BY <2>2, <3>2, FadesOn
    <3>4. Good(v, ShiftOldest(z)) BY <3>2, <3>3
    <3> HIDE DEF Good
    <3> QED BY <2>1, <3>1, <3>4 DEF v
  <2> QED BY <2>5, <2>6
<1>6. \A m \in 0 .. r : m \in T
  <2> HIDE DEF T
  <2> QED BY <1>0, <1>4, <1>5, UpTo
<1>7. Good(c[r], d[r]) BY <1>0, <1>6
<1> QED BY <1>1, <1>2, <1>7 DEF S

LEMMA TrimSessionsFacts ==
  ASSUME NEW t, NEW p, Fine(t, p), now \in Nat, t.st.sessions \in Map
  PROVE  LET u == TrimSessions(t) IN
         /\ Fine(u, p) /\ u.st.sessions = TrimSessionCount(t.st.sessions)
         /\ u.st.sessions \in Map /\ Fades(u.st.sessions, t.st.sessions)
<1> DEFINE S == t.st.sessions
           r == Len(S)
<1>0. r \in Nat BY MapFacts, CountIsNatural
<1>1. PICK c : SessionRounds(t, c, r) /\ TrimSessions(t) = c[r] BY <1>0, SessionRoundsRun
<1>2. PICK d : SessionMaps(S, d, r) /\ TrimSessionCount(S) = d[r] BY <1>0, SessionMapsRun
<1>3. Fades(S, S)
  <2>1. Side(S, p.n, p.a) BY FineFacts
  <2> QED BY <2>1, FadesItself
<1> HIDE DEF r, S
<1> DEFINE Good(y, z) == Fine(y, p) /\ y.st.sessions = z /\ z \in Map /\ Fades(z, S)
           T == {m \in Nat : Good(c[m], d[m])}
<1>4. 0 \in T
  <2>1. c[0] = t /\ d[0] = S BY <1>1, <1>2 DEF SessionRounds, SessionMaps
  <2>2. Good(t, S) BY <1>3 DEF S
  <2> HIDE DEF Good
  <2> QED BY <2>1, <2>2
<1>5. ASSUME NEW m \in 0 .. r - 1, m \in T PROVE m + 1 \in T
  <2> DEFINE y == c[m]
             z == d[m]
  <2>1. m + 1 \in 1 .. r /\ (m + 1) - 1 = m /\ m + 1 \in Nat
    <3> HIDE DEF T
    <3> QED BY <1>0
  <2>2. Good(y, z) BY <1>5
  <2>3. c[m + 1] = IF OverSessions(y.st.sessions) THEN TrimOldestSession(y) ELSE y
    BY <1>1, <2>1 DEF SessionRounds
  <2>4. d[m + 1] = IF OverSessions(z) THEN DropOldest(z) ELSE z BY <1>2, <2>1 DEF SessionMaps
  <2> HIDE DEF y, z
  <2>5. CASE ~OverSessions(z)
    <3>1. c[m + 1] = y /\ d[m + 1] = z BY <2>2, <2>3, <2>4, <2>5
    <3> HIDE DEF Good
    <3> QED BY <2>1, <2>2, <3>1
  <2>6. CASE OverSessions(z)
    <3>1. c[m + 1] = TrimOldestSession(y) /\ d[m + 1] = DropOldest(z) BY <2>2, <2>3, <2>4, <2>6
    <3> DEFINE v == TrimOldestSession(y)
    <3>2. /\ Fine(v, p) /\ v.st.sessions = DropOldest(z) /\ v.st.sessions \in Map
          /\ Fades(v.st.sessions, z)
      BY <2>2, <2>6, TrimOldestFacts
    <3> HIDE DEF v
    <3>3. Fades(v.st.sessions, S) BY <2>2, <3>2, FadesOn
    <3>4. Good(v, DropOldest(z)) BY <3>2, <3>3
    <3> HIDE DEF Good
    <3> QED BY <2>1, <3>1, <3>4 DEF v
  <2> QED BY <2>5, <2>6
<1>6. \A m \in 0 .. r : m \in T
  <2> HIDE DEF T
  <2> QED BY <1>0, <1>4, <1>5, UpTo
<1>7. Good(c[r], d[r]) BY <1>0, <1>6
<1> QED BY <1>1, <1>2, <1>7 DEF S

(***************************************************************************)
(* append: the row of the record.                                          *)
(***************************************************************************)
LEMMA WrittenIs ==
  ASSUME NEW p, NEW v
  PROVE  LET q == Written(p, v) IN
         /\ q.n = p.n /\ q.b = p.n /\ q.a = p.a /\ q.c = p.a /\ q.D = p.D /\ q.w = p.w
         /\ q.e = {} /\ q.v = v /\ q.x = p.x \ {p.a} /\ q.m = p.m /\ q.s = p.s
BY DEF Written

LEMMA EntryFacts ==
  ASSUME NEW item \in Entry
  PROVE  /\ item \in Item /\ item.at <= now /\ item.id \in Nat /\ item.content \in Nat
         /\ item.content # 0 /\ item.size \in Nat
<1>1. item \in Item /\ item.at <= now BY DEF Entry
<1>2. item.id \in Nat /\ item.content \in 1 .. MaxAppends /\ item.size \in Nat BY <1>1 DEF Item
<1> QED BY <1>1, <1>2, BudgetAssumption

\* The numbers of the record appended last.
LEMMA JournaledFacts ==
  ASSUME NEW t, NEW p, Fine(t, p), now \in Nat, NEW k \in Scopes, NEW item \in Entry,
         Numbered(p, item), item.size <= MaxContent, item.id # 0,
         Claims(t.st.sessions, k, item), Listed(p, t.st.sessions, k, item)
  PROVE  Fine(Write(t, AppendRow(k, item)), Written(p, p.v))
<1> DEFINE S == t.st.sessions
           row == AppendRow(k, item)
           u == Write(t, row)
           R == Replay(t.rows)
           U == ApplyRow(R, row)
           V == Replay(u.rows)
           n == p.n
           a == p.a
           q == Written(p, p.v)
<1>0. /\ Kept(t, p.b, p.a, p.c, p.D, p.w) /\ t.st.nextId = n /\ n \in Nat \ {0}
      /\ S \in Loose /\ p.a \in Nat /\ p.c \in Nat
      /\ StoreOK(t.st, p.a, p.D, p.w) /\ FileOK(t.rows, p.b, p.c, p.D, p.w)
      /\ Paired(S, R.sessions) /\ (p.w => ~Torn(t.rows))
      /\ \A m \in t.moments : Sound(m.st, m.rows, p.a, p.D, p.w)
  BY FineFacts DEF Fine, Kept, Match
<1>0a. /\ p.n = item.id + 1 /\ p.b = item.id /\ p.a = item.content /\ p.a = p.c + 1
       /\ p.D \subseteq 1 .. p.c /\ p.e = {item.content}
  BY Zenon DEF Numbered
<1>1. /\ t.rows \in Seq(Rows) /\ R.nextId \in Nat \ {0} /\ R.nextId <= item.id
      /\ R.sessions \in Map /\ Side(R.sessions, R.nextId, p.c) /\ Touched(R.sessions)
      /\ Paired(R.sessions, R.sessions) /\ (p.w => Firm(R.sessions, p.D))
  BY <1>0, <1>0a DEF FileOK, Side
<1>2. /\ item \in Item /\ item.at <= now /\ item.id \in Nat \ {0} /\ item.content \in Nat
  BY EntryFacts, Zenon
<1>3. row \in Rows /\ row # Fragment
  <2>1. row.op = "append" /\ Fragment.op = "fragment" BY DEF AppendRow, Fragment
  <2> QED BY <1>2, <2>1 DEF Rows, AppendRow
<1>4. /\ u.st = t.st /\ u.rows = AddRow(t.rows, row)
      /\ u.moments = t.moments \cup {[st |-> t.st, rows |-> t.rows]}
  BY DEF Write, Moment
<1>5. u.rows \in Seq(Rows) /\ ~Torn(u.rows) /\ V = IF Torn(t.rows) THEN R ELSE U
  <2> DEFINE rows == t.rows
  <2>1. rows \in Seq(Rows) BY <1>1
  <2>2. u.rows = AddRow(rows, row) BY <1>4
  <2> HIDE DEF rows, row
  <2>3. /\ AddRow(rows, row) \in Seq(Rows) /\ ~Torn(AddRow(rows, row))
        /\ Replay(AddRow(rows, row)) =
             IF Torn(rows) THEN Replay(rows) ELSE ApplyRow(Replay(rows), row)
    BY <1>3, <2>1, AddRowFacts
  <2> HIDE DEF u
  <2> QED BY <2>2, <2>3 DEF rows
<1>6. \A l \in Scopes : \A x \in In(R.sessions, l) :
         /\ x \in Entry /\ x.id \in 1 .. R.nextId - 1 /\ x.content <= p.c /\ x.size <= MaxContent
         /\ x.id < item.id /\ x.id # item.id /\ x.content \in Nat /\ x.content # item.content
         /\ x.content <= a
  <2> SUFFICES ASSUME NEW l \in Scopes, NEW x \in In(R.sessions, l)
               PROVE  /\ x \in Entry /\ x.id \in 1 .. R.nextId - 1 /\ x.content <= p.c
                      /\ x.size <= MaxContent
                      /\ x.id < item.id /\ x.id # item.id /\ x.content \in Nat
                      /\ x.content # item.content /\ x.content <= a
    OBVIOUS
  <2>1. /\ x \in Entry /\ x.id \in 1 .. R.nextId - 1 /\ x.content <= p.c /\ x.size <= MaxContent
    BY <1>1 DEF Side
  <2>2. x.content \in Nat BY <2>1, BudgetAssumption DEF Entry, Item
  <2>3. x.id < item.id /\ x.id # item.id
    <3> HIDE DEF R
    <3> QED BY <1>1, <1>2, <2>1
  <2>4. item.content = p.c + 1 BY <1>0a
  <2>5. x.content # item.content /\ x.content <= a
    <3> DEFINE cc == p.c
               xx == x.content
    <3>1. cc \in Nat /\ xx \in Nat /\ xx <= cc /\ item.content = cc + 1 /\ a = cc + 1
      BY <1>0, <1>0a, <2>1, <2>2, <2>4
    <3> HIDE DEF R, cc, xx, a
    <3>2. xx # cc + 1 /\ xx <= cc + 1 BY <3>1
    <3> QED BY <3>1, <3>2, Zenon DEF xx
  <2> QED BY <2>1, <2>2, <2>3, <2>5
<1>7. /\ U.nextId = IF item.id >= R.nextId THEN item.id + 1 ELSE R.nextId
      /\ U.sessions \in Map /\ Touched(U.sessions)
      /\ Holding(R.sessions, U.sessions, k, In(R.sessions, k) \cup {item})
  BY <1>1, <1>2, <1>6, AppendRowFacts
<1>8. p.a = p.c + 1 /\ n = item.id + 1 /\ a = item.content BY <1>0a
<1>8a. item.content \notin p.D /\ item.content <= a /\ item.id \in 1 .. n - 1
  <2>1. item.content = p.c + 1 BY <1>0a
  <2>2. item.id \in Nat \ {0} BY <1>2
  <2> DEFINE cc == p.c
             aa == item.content
             ii == item.id
             nn == p.n
             DD == p.D
  <2>3. /\ cc \in Nat /\ aa = cc + 1 /\ ii \in Nat \ {0} /\ nn = ii + 1 /\ DD \subseteq 1 .. cc
    BY <1>0, <1>0a, <2>1, <2>2
  <2> HIDE DEF cc, aa, ii, nn, DD
  <2>4. aa \notin DD /\ aa <= aa /\ ii \in 1 .. nn - 1 BY <2>3
  <2> QED BY <2>4, <1>8, Zenon DEF cc, aa, ii, nn, DD, n
<1>8b. item \in Entry /\ item.size <= MaxContent OBVIOUS
<1> HIDE DEF S, R, U, V, u, row, n, a
<1>9. U.nextId = n BY <1>1, <1>2, <1>7, <1>8
<1>10. \A l \in Scopes : \A x \in In(U.sessions, l) : x \in In(R.sessions, l) \/ (l = k /\ x = item)
  BY <1>7 DEF Holding
<1>11. item \in In(U.sessions, k) /\ \A l \in Scopes : In(R.sessions, l) \subseteq In(U.sessions, l)
  BY <1>7 DEF Holding
<1>12. Side(U.sessions, n, a)
  <2>1. U.sessions \in Loose BY <1>7, MapIsLoose
  <2>2. \A l \in Scopes : \A x \in In(U.sessions, l) :
           x \in Entry /\ x.id \in 1 .. n - 1 /\ x.content <= a /\ x.size <= MaxContent
    <3> SUFFICES ASSUME NEW l \in Scopes, NEW x \in In(U.sessions, l)
                 PROVE  x \in Entry /\ x.id \in 1 .. n - 1 /\ x.content <= a
                        /\ x.size <= MaxContent
      OBVIOUS
    <3>1. CASE x \in In(R.sessions, l)
      <4>1. /\ x \in Entry /\ x.id \in 1 .. R.nextId - 1 /\ x.size <= MaxContent
            /\ x.content <= a
        BY <1>6, <3>1
      <4> QED BY <1>1, <1>2, <1>8, <4>1
    <3>2. CASE x = item BY <1>8a, <1>8b, <3>2
    <3> QED BY <1>10, <3>1, <3>2
  <2> QED BY <1>7, <2>1, <2>2 DEF Side
<1>13. Paired(U.sessions, U.sessions)
  <2> SUFFICES ASSUME NEW l \in Scopes, NEW m \in Scopes, NEW x \in In(U.sessions, l),
                      NEW y \in In(U.sessions, m), x.id = y.id \/ x.content = y.content
               PROVE  l = m /\ x.id = y.id /\ x.content = y.content
    BY DEF Paired
  <2>1. CASE x \in In(R.sessions, l) /\ y \in In(R.sessions, m) BY <1>1, <2>1 DEF Paired
  <2>2. CASE x \in In(R.sessions, l) /\ m = k /\ y = item BY <1>6, <2>2
  <2>3. CASE y \in In(R.sessions, m) /\ l = k /\ x = item BY <1>6, <2>3
  <2>4. CASE l = k /\ x = item /\ m = k /\ y = item BY <2>4
  <2> QED BY <1>10, <2>1, <2>2, <2>3, <2>4
<1>14. Paired(S, U.sessions)
  <2> SUFFICES ASSUME NEW l \in Scopes, NEW m \in Scopes, NEW x \in In(S, l),
                      NEW y \in In(U.sessions, m), x.id = y.id \/ x.content = y.content
               PROVE  l = m /\ x.id = y.id /\ x.content = y.content
    BY DEF Paired
  <2>1. CASE y \in In(R.sessions, m) BY <1>0, <2>1 DEF Paired
  <2>2. CASE m = k /\ y = item BY <2>2 DEF Claims, Same, S
  <2> QED BY <1>10, <2>1, <2>2
<1>15. p.w => Firm(U.sessions, p.D)
  <2> SUFFICES ASSUME p.w, NEW l \in Scopes, NEW x \in In(U.sessions, l), x.content \in p.D
               PROVE  x.status \notin Pending
    BY DEF Firm
  <2>1. CASE x \in In(R.sessions, l) BY <1>1, <2>1 DEF Firm
  <2>2. CASE x = item BY <1>8a, <2>2
  <2> QED BY <1>10, <2>1, <2>2
<1>16. Side(R.sessions, R.nextId, a)
  <2>1. p.c <= a /\ a \in Nat BY <1>0, <1>8 DEF a
  <2>2. R.nextId \in Nat /\ R.nextId <= R.nextId BY <1>1
  <2> QED BY <1>0, <1>1, <2>1, <2>2, SideWider
<1>17. FileOK(u.rows, n, a, p.D, p.w) /\ Paired(S, Replay(u.rows).sessions)
  <2>1. V.nextId \in Nat \ {0} /\ V.nextId <= n
    BY <1>0, <1>1, <1>2, <1>5, <1>8, <1>9
  <2>2. V.sessions \in Map /\ Side(V.sessions, V.nextId, a) /\ Paired(V.sessions, V.sessions)
        /\ Paired(S, V.sessions) /\ (p.w => Firm(V.sessions, p.D))
    BY <1>0, <1>1, <1>5, <1>7, <1>9, <1>12, <1>13, <1>14, <1>15, <1>16
  <2> QED BY <1>5, <2>1, <2>2 DEF FileOK, V
<1>18. Match(u.st, u.rows, n, a, a, p.D, p.w)
  BY <1>0, <1>4, <1>5, <1>17 DEF Match, S, a
<1>19. \A m \in u.moments : Sound(m.st, m.rows, a, p.D, p.w)
  <2>1. Sound(t.st, t.rows, p.a, p.D, p.w) BY <1>0, KeptIsSound
  <2> QED BY <1>0, <1>4, <2>1 DEF a
<1>20. Kept(u, n, a, a, p.D, p.w)
  <2>1. n \in Nat /\ n <= u.st.nextId /\ a \in Nat /\ a <= a BY <1>0, <1>4 DEF a
  <2> QED BY <1>18, <1>19, <2>1 DEF Kept
<1>21. ASSUME p.v PROVE p.w /\ Agree(u, {})
  <2>1. p.w /\ Shows(S, R.sessions, {item.content}) /\ Shows(R.sessions, S, {})
        /\ item \in In(S, k)
    BY <1>0a, <1>21 DEF Fine, Agree, S, R, Listed
  <2>2. V = U BY <1>0, <1>5, <2>1
  <2>3. Shows(S, U.sessions, {})
    <3> SUFFICES ASSUME NEW l \in Scopes, NEW x \in In(S, l), x.status # "expired"
                 PROVE  \E y \in In(U.sessions, l) : Alike(x, y)
      BY DEF Shows
    <3>1. CASE x.content # item.content
      <4>1. PICK y \in In(R.sessions, l) : Alike(x, y) BY <2>1, <3>1 DEF Shows
      <4> QED BY <1>11, <4>1
    <3>2. CASE x.content = item.content
      <4>1. l = k /\ x.id = item.id BY <3>2 DEF Claims, Same, S
      <4>2. x = item BY <1>0, <2>1, <4>1, InUnique
      <4> QED BY <1>11, <4>1, <4>2 DEF Alike, Same
    <3> QED BY <3>1, <3>2
  <2>4. Shows(U.sessions, S, {})
    <3> SUFFICES ASSUME NEW l \in Scopes, NEW x \in In(U.sessions, l), x.status # "expired"
                 PROVE  \E y \in In(S, l) : Alike(x, y)
      BY DEF Shows
    <3>1. CASE x \in In(R.sessions, l) BY <2>1, <3>1 DEF Shows
    <3>2. CASE l = k /\ x = item BY <2>1, <3>2 DEF Alike, Same
    <3> QED BY <1>10, <3>1, <3>2
  <2> QED BY <1>4, <2>1, <2>2, <2>3, <2>4 DEF Agree, S, V
<1>22. /\ q.n = n /\ q.b = n /\ q.a = a /\ q.c = a /\ q.D = p.D /\ q.w = p.w
       /\ q.e = {} /\ q.v = p.v /\ q.x = p.x \ {a} /\ q.m = p.m /\ q.s = p.s
  <2>1. /\ q.n = p.n /\ q.b = p.n /\ q.a = p.a /\ q.c = p.a /\ q.D = p.D /\ q.w = p.w
        /\ q.e = {} /\ q.v = p.v /\ q.x = p.x \ {p.a} /\ q.m = p.m /\ q.s = p.s
    <3> DEFINE v == p.v
    <3>1. q = Written(p, v) BY Zenon
    <3> HIDE DEF v, q
    <3>2. /\ q.n = p.n /\ q.b = p.n /\ q.a = p.a /\ q.c = p.a /\ q.D = p.D /\ q.w = p.w
          /\ q.e = {} /\ q.v = v /\ q.x = p.x \ {p.a} /\ q.m = p.m /\ q.s = p.s
      <4>1. LET z == Written(p, v) IN
              /\ z.n = p.n /\ z.b = p.n /\ z.a = p.a /\ z.c = p.a /\ z.D = p.D /\ z.w = p.w
              /\ z.e = {} /\ z.v = v /\ z.x = p.x \ {p.a} /\ z.m = p.m /\ z.s = p.s
        BY WrittenIs
      <4> QED BY <3>1, <4>1
    <3> QED BY <3>2, Zenon DEF v
  <2> HIDE DEF q
  <2> QED BY <2>1, Zenon DEF n, a
<1> HIDE DEF q
<1>23. Kept(u, q.b, q.a, q.c, q.D, q.w) /\ u.st.nextId = q.n
  BY <1>0, <1>4, <1>20, <1>22
<1>24. q.v => q.w /\ Agree(u, q.e) BY <1>21, <1>22, Zenon
<1>25. Owed(t, p) BY DEF Fine
<1>26. PICK X \in SUBSET (1 .. MaxAppends) :
          Costs(t.rows, X, p.s) /\ Shows(S, R.sessions, p.x \cup X)
  BY <1>25 DEF Owed, Covered, S, R
<1>27. Covered(u.st, u.rows, p.x \ {a}, p.s)
  <2>1. /\ Costs(u.rows, X, p.s)
        /\ Torn(t.rows) => \A c : Costs(u.rows, X \cup {c}, p.s)
    <3> DEFINE rows == t.rows
               s == p.s
    <3>1. rows \in Seq(Rows) /\ s \in Nat /\ Costs(rows, X, s)
      BY <1>1, <1>25, <1>26 DEF Owed
    <3>2. u.rows = AddRow(rows, row) BY <1>4
    <3> HIDE DEF rows, s
    <3>3. /\ Costs(AddRow(rows, row), X, s)
          /\ Torn(rows) => \A c : Costs(AddRow(rows, row), X \cup {c}, s)
      BY <1>3, <3>1, CostsRow
    <3> QED BY <3>2, <3>3, Zenon DEF rows, s
  <2>2. CASE Torn(t.rows)
    <3> DEFINE Y == X \cup {a}
    <3>1. a \in 1 .. MaxAppends BY <1>2, <1>8 DEF Item
    <3>2. Y \in SUBSET (1 .. MaxAppends) /\ Costs(u.rows, Y, p.s) BY <1>26, <2>1, <2>2, <3>1
    <3>3. p.x \cup X \subseteq (p.x \ {a}) \cup Y OBVIOUS
    <3> HIDE DEF Y
    <3>4. Shows(S, R.sessions, (p.x \ {a}) \cup Y) BY <1>26, <3>3 DEF Shows
    <3> QED BY <1>4, <1>5, <2>2, <3>2, <3>4 DEF Covered, S, V
  <2>3. CASE ~Torn(t.rows)
    <3>1. Shows(S, U.sessions, (p.x \ {a}) \cup X)
      <4> SUFFICES ASSUME NEW l \in Scopes, NEW x \in In(S, l), x.status # "expired",
                          x.content \notin (p.x \ {a}) \cup X
                   PROVE  \E y \in In(U.sessions, l) : Alike(x, y)
        BY DEF Shows
      <4>1. CASE x.content # a
        <5>1. PICK y \in In(R.sessions, l) : Alike(x, y) BY <1>26, <4>1 DEF Shows
        <5> QED BY <1>11, <5>1
      <4>2. CASE x.content = a
        <5>1. l = k /\ Same(x, item) /\ x.status = item.status BY <1>8, <4>2 DEF Claims, S
        <5> QED BY <1>11, <5>1 DEF Alike
      <4> QED BY <4>1, <4>2
    <3> QED BY <1>4, <1>5, <1>26, <2>1, <2>3, <3>1 DEF Covered, S, V
  <2> QED BY <2>2, <2>3
<1>28. Owed(u, q)
  <2>1. Covered(t.st, t.rows, p.m, p.s) BY <1>25, CoveredMore DEF Owed
  <2>2. \A m \in u.moments : Covered(m.st, m.rows, p.m, p.s) BY <1>4, <1>25, <2>1 DEF Owed
  <2>3. q.x \subseteq q.m /\ q.s \in Nat /\ q.x = p.x \ {a} /\ q.m = p.m /\ q.s = p.s
    BY <1>22, <1>25 DEF Owed
  <2> QED BY <1>27, <2>2, <2>3 DEF Owed
<1>29. Fine(u, q) BY <1>23, <1>24, <1>28 DEF Fine
<1> QED BY <1>29 DEF u, q, row

(***************************************************************************)
(* append, whole.                                                          *)
(***************************************************************************)
LEMMA ClaimsFacts ==
  ASSUME NEW S, NEW B, NEW T, NEW k \in Scopes, NEW n \in Nat, NEW a \in Nat, Side(S, n, a),
         NEW item, item.id = n, item.content = a + 1, Gains(S, B, k, item), Fades(T, B)
  PROVE  Claims(T, k, item)
<1> SUFFICES ASSUME NEW l \in Scopes, NEW x \in In(T, l),
                    x.id = item.id \/ x.content = item.content
             PROVE  l = k /\ Same(x, item) /\ x.status \in {item.status, "expired"}
  BY DEF Claims
<1>1. PICK y \in In(B, l) : Same(x, y) /\ x.status \in {y.status, "expired"} BY DEF Fades
<1>2. x.id = y.id /\ x.content = y.content BY <1>1 DEF Same
<1>3. y \in In(S, l) \/ (l = k /\ y = item) BY DEF Gains
<1>4. CASE y \in In(S, l)
  <2>1. y.id \in 1 .. n - 1 /\ y.content <= a /\ y \in Entry BY <1>4 DEF Side
  <2>2. y.content \in Nat BY <2>1, EntryFacts
  <2> DEFINE i == y.id
             c == y.content
  <2>3. i \in 1 .. n - 1 /\ c <= a /\ c \in Nat BY <2>1, <2>2
  <2> HIDE DEF i, c
  <2>4. i # n /\ c # a + 1 BY <2>3
  <2> QED BY <1>2, <2>4 DEF i, c
<1>5. CASE l = k /\ y = item BY <1>1, <1>5
<1> QED BY <1>3, <1>4, <1>5

LEMMA WithinIsBudgets ==
  ASSUME NEW S, Within(S), Short(S)
  PROVE  WithinBudgets(S)
<1>1. S \in Map /\ GlobalCount(S) <= MaxGlobal /\ Len(S) <= MaxSessions BY DEF Within
<1>2. \A i \in DOMAIN S : Len(S[i].items) \in Nat \ {0} /\ Len(S[i].items) <= MaxPerSession
  BY <1>1, MapFacts DEF Short
<1>3. \A i \in DOMAIN S : Len(S[i].items) \in 1 .. MaxPerSession
  <2> TAKE i \in DOMAIN S
  <2> DEFINE m == Len(S[i].items)
  <2>1. m \in Nat \ {0} /\ m <= MaxPerSession BY <1>2
  <2> HIDE DEF m
  <2>2. m \in 1 .. MaxPerSession BY <2>1, BudgetAssumption
  <2> QED BY <2>2 DEF m
<1> QED BY <1>1, <1>3 DEF WithinBudgets

LEMMA FineFits ==
  ASSUME NEW t, NEW p, Fine(t, p), Within(t.st.sessions)
  PROVE  Fits(t.st.sessions, now, p.n, Item)
<1> DEFINE S == t.st.sessions
<1>1. /\ Side(S, p.n, p.a) /\ S \in Loose /\ Touched(S) /\ Short(S)
      /\ S \in Map /\ GlobalCount(S) <= MaxGlobal /\ Len(S) <= MaxSessions
  BY FineFacts DEF Within
<1> HIDE DEF S
<1>2. ASSUME NEW i \in DOMAIN S, NEW x \in ToSet(S[i].items)
      PROVE  x \in Item /\ x.id \in 1 .. p.n - 1
  <2>1. S[i].scope \in Scopes BY <1>1, LooseFacts
  <2>2. x \in In(S, S[i].scope) BY <1>1, InFacts
  <2>3. x \in Entry /\ x.id \in 1 .. p.n - 1 BY <1>1, <2>1, <2>2 DEF Side
  <2> QED BY <2>3 DEF Entry
<1>3. \A i \in DOMAIN S : Len(S[i].items) <= MaxPerSession /\ S[i].at <= now
  BY <1>1 DEF Short, Touched
<1>4. Fits(S, now, p.n, Item) BY <1>1, <1>2, <1>3 DEF Fits
<1> QED BY <1>4 DEF S

LEMMA NewItemFacts ==
  ASSUME now \in Nat, NEW t, t.st.nextId \in Nat \ {0}, NEW c \in 1 .. MaxAppends,
         NEW size \in Sizes, ~Rejected(size), NEW status \in NewStatuses
  PROVE  LET item == NewItem(t, c, size, status) IN
         /\ item \in Entry /\ item \in Item /\ item \in Thing
         /\ item.id = t.st.nextId /\ item.content = c /\ item.size <= MaxContent
<1> DEFINE item == NewItem(t, c, size, status)
<1>1. /\ item.id = t.st.nextId /\ item.content = c /\ item.size = size /\ item.at = now
  BY DEF NewItem
<1>2. item \in Item
  <2>1. t.st.nextId \in Nat /\ size \in Nat /\ now + Ttl \in Nat /\ status \in Statuses
    BY BudgetAssumption, WalAssumption
  <2> QED BY <2>1 DEF NewItem, Item
<1>3. item.size <= MaxContent BY <1>1, BudgetAssumption DEF Rejected
<1>4. item \in Entry
  <2>1. item.at <= now BY <1>1
  <2> QED BY <1>2, <2>1 DEF Entry
<1>5. item \in Thing BY <1>2, ItemIsThing
<1> QED BY <1>1, <1>2, <1>3, <1>4, <1>5

LEMMA AppendsIs ==
  ASSUME NEW D, NEW v
  PROVE  LET q == Appends(D, v) IN
         /\ q.n = store.nextId + 1 /\ q.b = q.n /\ q.a = hist.appends + 1 /\ q.c = q.a
         /\ q.D = D /\ q.w = (hist.shorts = 0) /\ q.e = {} /\ q.v = v
         /\ q.x = Unacked(hist) \ {hist.appends + 1} /\ q.m = Unacked(hist) \cup {}
         /\ q.s = hist.shorts
<1> DEFINE p == Starts(D, {})
           g == Grown(p, v)
<1>1. /\ g.n = p.n + 1 /\ g.a = p.a + 1 /\ g.D = p.D /\ g.w = p.w
      /\ g.x = p.x /\ g.m = p.m /\ g.s = p.s
  BY GrownIs, Zenon
<1>2. /\ g.n = store.nextId + 1 /\ g.a = hist.appends + 1 /\ g.D = D /\ g.w = (hist.shorts = 0)
      /\ g.x = Unacked(hist) /\ g.m = Unacked(hist) \cup {} /\ g.s = hist.shorts
  BY <1>1, StartsPlainly, Zenon
<1> DEFINE q == Written(g, v)
<1>3. /\ q.n = g.n /\ q.b = g.n /\ q.a = g.a /\ q.c = g.a /\ q.D = g.D /\ q.w = g.w
      /\ q.e = {} /\ q.v = v /\ q.x = g.x \ {g.a} /\ q.m = g.m /\ q.s = g.s
  BY WrittenIs, Zenon
<1>4. q = Appends(D, v) BY Zenon DEF Appends
<1> HIDE DEF q, g, p
<1> QED BY <1>2, <1>3, <1>4, Zenon

LEMMA AppendsOfThrew ==
  LET q == Appends(hist.decided, ~hist.threw) IN
  /\ q.a = hist.appends + 1 /\ q.D = hist.decided /\ q.w = (hist.shorts = 0) /\ q.e = {}
  /\ q.v = ~hist.threw
  /\ q.x = Unacked(hist) \ {hist.appends + 1} /\ q.m = Unacked(hist) /\ q.s = hist.shorts
<1> DEFINE v == ~hist.threw
           q == Appends(hist.decided, v)
<1> HIDE DEF v
<1>1. /\ q.a = hist.appends + 1 /\ q.D = hist.decided /\ q.w = (hist.shorts = 0) /\ q.e = {}
      /\ q.v = v
      /\ q.x = Unacked(hist) \ {hist.appends + 1} /\ q.m = Unacked(hist) \cup {}
      /\ q.s = hist.shorts
  BY AppendsIs
<1>2. Unacked(hist) \cup {} = Unacked(hist) OBVIOUS
<1> HIDE DEF q
<1> QED BY <1>1, <1>2, Zenon DEF q, v

\* The next content was not answered for yet.
LEMMA NextUnacked ==
  ASSUME Told(hist), hist.appends < MaxAppends
  PROVE  hist.appends + 1 \in Unacked(hist)
<1> DEFINE a == hist.appends
<1>1. /\ a \in 0 .. MaxAppends /\ a < MaxAppends /\ MaxAppends \in Nat
      /\ hist.acked \in SUBSET [content: 1 .. MaxAppends, id: Nat]
      /\ \A r \in hist.acked : r.content <= a
  BY BudgetAssumption DEF Told, Hist
<1> HIDE DEF a
<1>2. a + 1 \in 1 .. MaxAppends BY <1>1
<1>3. ASSUME NEW r \in hist.acked PROVE r.content # a + 1
  <2> DEFINE c == r.content
  <2>1. c \in 1 .. MaxAppends /\ c <= a BY <1>1
  <2> HIDE DEF c
  <2> QED BY <1>1, <2>1 DEF c
<1> QED BY <1>2, <1>3 DEF Unacked, a

LEMMA AppendTxFacts ==
  ASSUME WalInv, up, hist.appends < MaxAppends, NEW k \in Scopes, NEW size \in Sizes,
         ~Rejected(size), NEW status \in NewStatuses
  PROVE  LET t == AppendTx(k, size, status) IN
         /\ Fine(t, Appends(hist.decided, ~hist.threw))
         /\ Within(t.st.sessions) /\ WithinBudgets(t.st.sessions)
<1> DEFINE D == hist.decided
           p == Starts(D, {})
           P == PurgeExpired(Begin)
           S == P.st.sessions
           c == hist.appends + 1
           item == NewItem(P, c, size, status)
           B == TrimLane(Push(S, k, item, now), k)
           t1 == TrimSession(Accept(P, k, item), k)
           t2 == TrimGlobal(t1)
           t3 == TrimSessions(t2)
           g == Grown(p, p.v)
           T == t3.st.sessions
<1>1. /\ now \in Nat /\ hist.appends \in Nat /\ Fine(Begin, p)
      /\ (~hist.threw => Within(Begin.st.sessions)) /\ D \subseteq 1 .. hist.appends
      /\ c \in 1 .. MaxAppends
  <2>1. D \subseteq 1 .. hist.appends BY InvFacts DEF Told
  <2>2. now \in Nat /\ hist.appends \in Nat /\ Fine(Begin, p)
        /\ (~hist.threw => Within(Begin.st.sessions))
    BY BeginFine
  <2>3. c \in 1 .. MaxAppends
    <3>1. hist.appends \in Nat /\ hist.appends < MaxAppends /\ MaxAppends \in Nat
      BY <2>2, BudgetAssumption
    <3> QED BY <3>1
  <2> QED BY <2>1, <2>2, <2>3
<1>2. /\ p.e = {} /\ p.D = D /\ p.a = hist.appends /\ p.c = hist.appends
      /\ p.n = store.nextId /\ p.b = store.nextId /\ p.x = Unacked(hist)
  BY StartsPlainly, Zenon
<1>2a. p.v = ~hist.threw BY StartsPlainly, Zenon
<1>3. AppendTx(k, size, status) = Write(t3, AppendRow(k, item)) BY Zenon DEF AppendTx
<1> HIDE DEF D, p
<1>4. Fine(P, p) /\ S \in Map /\ (~hist.threw => Within(S)) BY <1>1, PurgeExpiredFacts
<1>5. P.st.nextId = p.n /\ p.n \in Nat \ {0} /\ Side(S, p.n, p.a) BY <1>4, FineFacts
<1> HIDE DEF P, c
<1>6. /\ item \in Entry /\ item \in Item /\ item \in Thing
      /\ item.id = p.n /\ item.content = c /\ item.size <= MaxContent
  BY <1>1, <1>5, NewItemFacts
<1>6a. c = p.a + 1 BY <1>2 DEF c
<1> HIDE DEF item, S
<1>7. /\ t1.st.sessions = B /\ Fine(t1, g) /\ B \in Map /\ Gains(S, B, k, item)
  <2>1. p.b = p.n /\ p.c = p.a /\ p.D \subseteq 1 .. p.a BY <1>1, <1>2
  <2>2. item.content = p.a + 1 /\ p.a + 1 \in p.x BY <1>2, <1>6, <1>6a, NextUnacked, InvFacts
  <2>3. /\ Fine(P, p) /\ p.e = {} /\ P.st.sessions \in Map /\ now \in Nat
        /\ item \in Entry /\ item.id = p.n /\ item.size <= MaxContent
    BY <1>1, <1>2, <1>4, <1>6 DEF S
  <2>4. t1.st.sessions = B /\ Fine(t1, Grown(p, p.v)) /\ Gains(S, B, k, item)
    BY <2>1, <2>2, <2>3, TrimSessionFacts, Zenon DEF S
  <2> QED BY <2>4 DEF Gains
<1> HIDE DEF t1, B, g
<1>8. /\ Fine(t2, g) /\ t2.st.sessions = TrimGlobally(B) /\ t2.st.sessions \in Map
      /\ Fades(t2.st.sessions, B)
  BY <1>1, <1>7, TrimGlobalFacts
<1> HIDE DEF t2
<1>9. /\ Fine(t3, g) /\ T = TrimSessionCount(TrimGlobally(B)) /\ T \in Map
      /\ Fades(T, t2.st.sessions)
  BY <1>1, <1>8, TrimSessionsFacts
<1> HIDE DEF t3
<1>10. Fades(T, B) BY <1>8, <1>9, FadesOn
<1>11. T = Trimmed(B) BY <1>9 DEF Trimmed
<1>12. Within(T) BY <1>7, <1>9, <1>11, TrimmedFacts DEF Within
<1>13. WithinBudgets(T)
  <2>1. Short(T) BY <1>9, FineFacts
  <2> QED BY <1>12, <2>1, WithinIsBudgets
<1>14. Claims(T, k, item)
  <2> DEFINE a == p.a
             n == p.n
  <2>1. a \in Nat /\ n \in Nat /\ item.id = n /\ item.content = a + 1 /\ Side(S, n, a)
    BY <1>1, <1>2, <1>5, <1>6, <1>6a DEF S
  <2> HIDE DEF a, n, T
  <2> QED BY <1>7, <1>10, <2>1, ClaimsFacts
<1>15. ~hist.threw => item \in In(T, k)
  <2> SUFFICES ASSUME ~hist.threw PROVE item \in In(T, k) OBVIOUS
  <2>1. Within(P.st.sessions) BY <1>4 DEF S
  <2>2. Fits(S, now, p.n, Item) BY <1>4, <2>1, FineFits DEF S
  <2> DEFINE n == p.n
  <2>3. n \in Nat \ {0} /\ Fits(S, now, n, Item) /\ item.id = n BY <1>5, <1>6, <2>2
  <2> HIDE DEF n
  <2>4. item \in ToSet(ItemsOf(Trimmed(B), k)) BY <1>1, <1>6, <2>3, AppendedKeeps DEF B
  <2> QED BY <1>11, <2>4 DEF In
<1>16. g = Grown(p, p.v) /\ g.v = p.v BY GrownOn, Zenon DEF g
<1>17. Listed(g, T, k, item)
  <2>1. g.v => ~hist.threw BY <1>2a, <1>16, Zenon
  <2> HIDE DEF T
  <2> QED BY <1>15, <2>1, Zenon DEF Listed
<1>18. Numbered(g, item)
  <2>1. /\ g.n = p.n + 1 /\ g.b = p.b /\ g.a = p.a + 1 /\ g.c = p.c /\ g.D = p.D
        /\ g.e = {p.a + 1}
    BY GrownOn, Zenon DEF g
  <2>2. p.b = p.n /\ p.c = p.a /\ p.D \subseteq 1 .. p.a BY <1>1, <1>2
  <2>3. item.id = p.n /\ item.content = p.a + 1 BY <1>6, <1>6a
  <2>4. /\ g.n = item.id + 1 /\ g.b = item.id /\ g.a = item.content /\ g.a = g.c + 1
        /\ g.D \subseteq 1 .. g.c /\ g.e = {item.content}
    BY <2>1, <2>2, <2>3, Zenon
  <2> QED BY <2>4, Zenon DEF Numbered
<1> DEFINE u == Write(t3, AppendRow(k, item))
<1>19. Fine(u, Written(g, g.v))
  <2>1. item.id # 0 BY <1>5, <1>6
  <2>2. Claims(t3.st.sessions, k, item) /\ Listed(g, t3.st.sessions, k, item)
    BY <1>14, <1>17
  <2> HIDE DEF T
  <2> QED BY <1>1, <1>6, <1>9, <1>18, <2>1, <2>2, JournaledFacts
<1>20. u.st = t3.st BY DEF Write
<1>21. Fine(u, Appends(D, ~hist.threw))
  <2>1. Written(g, g.v) = Appends(D, ~hist.threw)
    BY <1>2a, <1>16, Zenon DEF Appends, p
  <2> HIDE DEF u
  <2> QED BY <1>19, <2>1
<1>22. Within(u.st.sessions) /\ WithinBudgets(u.st.sessions) BY <1>12, <1>13, <1>20
<1> HIDE DEF u
<1> DEFINE t == AppendTx(k, size, status)
<1>23. t = u BY <1>3 DEF u, t3, t2, t1, item, P, c
<1> HIDE DEF t
<1>24. Fine(t, Appends(D, ~hist.threw)) /\ Within(t.st.sessions) /\ WithinBudgets(t.st.sessions)
  BY <1>21, <1>22, <1>23
<1> QED BY <1>24 DEF t, D

LEMMA AppendRejectedKeeps ==
  ASSUME WalInv, NEW k \in Scopes, NEW size \in Sizes, NEW status \in NewStatuses,
         AppendRejected(k, size, status)
  PROVE  WalInv'
<1> DEFINE t == AppendTx(k, size, status)
           p == Starts(hist.decided, {})
<1>1. up /\ now' = now /\ Rejected(size) BY DEF AppendRejected, Appending, Calling
<1>2. Fine(t, p) /\ (~hist.threw => Within(t.st.sessions))
  <2>1. t = PurgeExpired(Begin) BY <1>1 DEF AppendTx
  <2>2. Fine(Begin, p) /\ (~hist.threw => Within(Begin.st.sessions)) /\ now \in Nat
    BY <1>1, BeginFine
  <2> HIDE DEF p, t
  <2>3. Fine(PurgeExpired(Begin), p)
        /\ (Within(Begin.st.sessions) => Within(PurgeExpired(Begin).st.sessions))
    BY <2>2, PurgeExpiredFacts
  <2> QED BY <2>1, <2>2, <2>3
<1>3. /\ p.e = {} /\ p.D = hist.decided /\ p.w = (hist.shorts = 0) /\ p.a = hist.appends
      /\ p.v = ~hist.threw
      /\ p.x = Unacked(hist) /\ p.m = Unacked(hist) \cup {} /\ p.s = hist.shorts
  BY StartsPlainly, Zenon
<1>4. \/ Answered(t, "rejected") /\ hist' = hist
      \/ Failed(t, hist)
  BY DEF AppendRejected
<1>5. Told(hist) BY InvFacts
<1> HIDE DEF t, p
<1>6. CASE Answered(t, "rejected") /\ hist' = hist
  <2>1. Sound(t.st, t.rows, hist'.appends, hist'.decided, hist.shorts = 0)
    BY <1>2, <1>3, <1>6, FineIsSound
  <2>2. ~hist.threw => p.v BY <1>3
  <2>3. "rejected" \in Answers /\ "rejected" # "accepted" BY DEF Answers
  <2>4. /\ Answered(t, "rejected") /\ hist' = hist /\ Told(hist')
        /\ p.x \subseteq Unacked(hist')
    BY <1>3, <1>5, <1>6
  <2> QED BY <1>1, <1>2, <1>3, <2>1, <2>2, <2>3, <2>4, AnsweredKeeps
<1>7. CASE Failed(t, hist)
  <2>1. p.m \subseteq Unacked(hist) BY <1>3
  <2> QED BY <2>1, <1>1, <1>2, <1>3, <1>5, <1>7, FailedKeeps
<1> QED BY <1>4, <1>6, <1>7

LEMMA CountedFacts ==
  ASSUME WalInv, hist.appends < MaxAppends
  PROVE  /\ Told(Counted) /\ Counted \in Hist /\ Counted.appends = hist.appends + 1
         /\ Counted.decided = hist.decided /\ Counted.left = hist.left
         /\ Counted.shorts = hist.shorts /\ Counted.threw = hist.threw
         /\ Counted.acked = hist.acked /\ hist.appends + 1 \in 1 .. MaxAppends
<1> DEFINE m == hist.appends + 1
<1>1. Told(hist) /\ hist \in Hist /\ hist.appends \in 0 .. MaxAppends BY InvFacts DEF Told
<1>2. m \in 0 .. MaxAppends /\ m \in 1 .. MaxAppends /\ 1 .. hist.appends \subseteq 1 .. m
  BY <1>1, BudgetAssumption
<1>3. Counted = [hist EXCEPT !.appends = m] BY <1>1 DEF Counted, Hist
<1> HIDE DEF m
<1>4. /\ Counted \in Hist /\ Counted.appends = m
      /\ Counted.decided = hist.decided /\ Counted.left = hist.left
      /\ Counted.shorts = hist.shorts /\ Counted.threw = hist.threw
      /\ Counted.acked = hist.acked
  BY <1>1, <1>2, <1>3 DEF Hist
<1>5. Told(Counted)
  <2>1. hist.decided \subseteq 1 .. hist.appends /\ (hist.shorts > 0 => hist.threw)
    BY <1>1 DEF Told
  <2>2. ASSUME NEW r \in hist.acked PROVE r.content <= m
    <3> DEFINE c == r.content
               a == hist.appends
    <3>1. c \in 1 .. MaxAppends /\ c <= a /\ a \in 0 .. MaxAppends /\ m = a + 1
      BY <1>1 DEF Told, Hist, m
    <3> HIDE DEF c, a
    <3> QED BY <3>1, BudgetAssumption DEF c
  <2> QED BY <1>2, <1>4, <2>1, <2>2 DEF Told
<1> QED BY <1>2, <1>4, <1>5 DEF m

LEMMA AppendFailedKeeps ==
  ASSUME WalInv, NEW k \in Scopes, NEW size \in Sizes, NEW status \in NewStatuses,
         AppendFailed(k, size, status)
  PROVE  WalInv'
<1> DEFINE t == AppendTx(k, size, status)
           h == Counted
           p == Appends(hist.decided, ~hist.threw)
<1>1. /\ up /\ now' = now /\ ~Rejected(size) /\ hist.appends < MaxAppends /\ Failed(t, h)
  BY DEF AppendFailed, Appending, Calling
<1>2. Fine(t, p) BY <1>1, AppendTxFacts
<1>3. /\ p.D = hist.decided /\ p.w = (hist.shorts = 0) /\ p.a = hist.appends + 1
      /\ p.m = Unacked(hist) /\ p.s = hist.shorts
  BY AppendsOfThrew, Zenon
<1>4. /\ Told(h) /\ h.left = hist.left /\ h.appends = hist.appends + 1
      /\ h.decided = hist.decided /\ h.shorts = hist.shorts /\ h.acked = hist.acked
  BY <1>1, CountedFacts
<1> HIDE DEF t, p, h
<1>5. p.a = h.appends /\ p.D = h.decided /\ p.w = (h.shorts = 0) BY <1>3, <1>4
<1>6. p.m \subseteq Unacked(h) /\ p.s = h.shorts BY <1>3, <1>4 DEF Unacked
<1> QED BY <1>1, <1>2, <1>4, <1>5, <1>6, FailedKeeps

LEMMA AppendAcceptedKeeps ==
  ASSUME WalInv, NEW k \in Scopes, NEW size \in Sizes, NEW status \in NewStatuses,
         AppendAccepted(k, size, status)
  PROVE  WalInv'
<1> DEFINE t == AppendTx(k, size, status)
           v == ~hist.threw
           p == Appends(hist.decided, v)
           r == [content |-> hist.appends + 1, id |-> store.nextId]
<1>1. /\ up /\ now' = now /\ ~Rejected(size) /\ hist.appends < MaxAppends
      /\ Answered(t, "accepted")
      /\ hist' = [Counted EXCEPT !.acked = @ \cup {r}]
  BY DEF AppendAccepted, Appending, Calling
<1>2. Fine(t, p) /\ Within(t.st.sessions) /\ WithinBudgets(t.st.sessions)
  BY <1>1, AppendTxFacts
<1>3. /\ p.D = hist.decided /\ p.w = (hist.shorts = 0) /\ p.a = hist.appends + 1 /\ p.e = {}
      /\ p.v = v /\ p.x = Unacked(hist) \ {hist.appends + 1} /\ p.s = hist.shorts
  BY AppendsOfThrew, Zenon
<1>4. /\ Told(Counted) /\ Counted \in Hist /\ Counted.appends = hist.appends + 1
      /\ Counted.decided = hist.decided /\ Counted.shorts = hist.shorts
      /\ Counted.threw = hist.threw /\ hist.appends + 1 \in 1 .. MaxAppends
      /\ Counted.acked = hist.acked /\ hist.appends \in Nat
  BY <1>1, CountedFacts, InvFacts
<1>5. store.nextId \in Nat BY <1>1 DEF WalInv, Sound, Match, StoreOK
<1>6. r \in [content: 1 .. MaxAppends, id: Nat] /\ r.content = hist.appends + 1 BY <1>4, <1>5
<1> HIDE DEF t, p, r
<1>7. /\ hist' \in Hist /\ hist'.appends = hist.appends + 1 /\ hist'.decided = hist.decided
      /\ hist'.shorts = hist.shorts /\ hist'.threw = hist.threw
      /\ hist'.acked = hist.acked \cup {r}
  <2> DEFINE h == Counted
             q == h.acked \cup {r}
  <2>1. h \in Hist BY <1>4
  <2>2. h.acked \in SUBSET [content: 1 .. MaxAppends, id: Nat] BY <2>1 DEF Hist
  <2>3. q \in SUBSET [content: 1 .. MaxAppends, id: Nat] BY <1>6, <2>2
  <2>4. hist' = [h EXCEPT !.acked = q] BY <1>1, <2>1 DEF Hist
  <2>5. /\ h.appends = hist.appends + 1 /\ h.decided = hist.decided
        /\ h.shorts = hist.shorts /\ h.threw = hist.threw /\ q = hist.acked \cup {r}
    BY <1>4
  <2> HIDE DEF q, h
  <2> QED BY <2>1, <2>3, <2>4, <2>5 DEF Hist
<1>8. Told(hist')
  <2>1. Counted.decided \subseteq 1 .. Counted.appends /\ (Counted.shorts > 0 => Counted.threw)
    BY <1>4 DEF Told
  <2>2. \A x \in hist.acked : x.content <= hist.appends + 1 BY <1>4 DEF Told
  <2>3. r.content <= hist.appends + 1 BY <1>4, <1>6
  <2>4. \A x \in hist'.acked : x.content <= hist'.appends BY <1>7, <2>2, <2>3
  <2> QED BY <1>4, <1>7, <2>1, <2>4 DEF Told
<1>9. Sound(t.st, t.rows, hist'.appends, hist'.decided, hist.shorts = 0)
  BY <1>2, <1>3, <1>7, FineIsSound
<1>10. "accepted" \in Answers BY DEF Answers
<1>11. p.a = hist'.appends /\ (~hist.threw => p.v) BY <1>3, <1>7
<1>12. p.x \subseteq Unacked(hist') BY <1>3, <1>6, <1>7 DEF Unacked
<1> HIDE DEF v
<1> QED BY <1>1, <1>2, <1>3, <1>7, <1>8, <1>9, <1>10, <1>11, <1>12, AnsweredKeeps

(***************************************************************************)
(* The start: what the replay left, within its budgets.                    *)
(***************************************************************************)
\* Every record of T is one of S.
Inside(T, S) == \A k \in Scopes : In(T, k) \subseteq In(S, k)

LEMMA DerivesInside ==
  ASSUME NEW B \in Map, NEW T \in Map, Derives(B, T), Short(B), Touched(B)
  PROVE  Inside(T, B) /\ Short(T) /\ Touched(T)
<1>1. B \in Loose /\ T \in Loose BY MapIsLoose
<1>2. ASSUME NEW t \in DOMAIN T
      PROVE  \E b \in DOMAIN B : /\ T[t].scope = B[b].scope /\ T[t].at = B[b].at
                                 /\ ToSet(T[t].items) \subseteq ToSet(B[b].items)
                                 /\ Len(T[t].items) <= Len(B[b].items)
                                 /\ Len(T[t].items) \in Nat /\ Len(B[b].items) \in Nat
  <2>1. PICK b \in DOMAIN B : /\ T[t].scope = B[b].scope /\ T[t].at = B[b].at
                              /\ Suffix(T[t].items, B[b].items)
    BY DEF Derives
  <2>2. /\ T[t].items \in Seq(Thing) /\ B[b].items \in Seq(Thing)
    BY <1>1, LooseFacts
  <2> QED BY <2>1, <2>2, SuffixMembers, LenProperties
<1>3. Touched(T) BY <1>2 DEF Touched
<1>4. Short(T)
  <2> SUFFICES ASSUME NEW t \in DOMAIN T PROVE Len(T[t].items) <= MaxPerSession BY DEF Short
  <2>1. PICK b \in DOMAIN B : /\ Len(T[t].items) <= Len(B[b].items)
                              /\ Len(T[t].items) \in Nat /\ Len(B[b].items) \in Nat
    BY <1>2
  <2>2. Len(B[b].items) <= MaxPerSession BY DEF Short
  <2> QED BY <2>1, <2>2, BudgetAssumption
<1>5. Inside(T, B)
  <2> SUFFICES ASSUME NEW k \in Scopes, NEW x \in In(T, k) PROVE x \in In(B, k)
    BY DEF Inside
  <2>1. /\ At(T, k) \in DOMAIN T /\ T[At(T, k)].scope = k
        /\ ItemsOf(T, k) = T[At(T, k)].items
    BY <1>1, InFacts
  <2>2. x \in ToSet(T[At(T, k)].items) BY <2>1 DEF In
  <2>3. PICK b \in DOMAIN B : B[b].scope = k /\ x \in ToSet(B[b].items) BY <1>2, <2>1, <2>2
  <2> QED BY <1>1, <2>3, InFacts
<1> QED BY <1>3, <1>4, <1>5

LEMMA InsideFades ==
  ASSUME NEW S, NEW T, Inside(T, S), \A k \in Scopes : \A x \in In(S, k) : x \in Entry
  PROVE  Fades(T, S)
BY DEF Inside, Fades, Same

\* The lanes of a map, each with its newest items.
Newests(S) == [i \in DOMAIN S |-> [S[i] EXCEPT !.items = Newest(S[i].items, MaxPerSession)]]

LEMMA NewestsFacts ==
  ASSUME NEW S \in Map, Touched(S)
  PROVE  LET N == Newests(S) IN
         N \in Map /\ Inside(N, S) /\ Short(N) /\ Touched(N)
<1> DEFINE N == Newests(S)
<1>1. S \in Seq(Lane) /\ Len(S) \in Nat /\ DOMAIN S = 1 .. Len(S) /\ ScopesUnique(S)
  BY MapFacts
<1>2. N = [i \in 1 .. Len(S) |-> [S[i] EXCEPT !.items = Newest(S[i].items, MaxPerSession)]]
  BY <1>1 DEF Newests
<1>3. ASSUME NEW i \in DOMAIN S
      PROVE  /\ N[i] \in Lane /\ N[i].scope = S[i].scope /\ N[i].at = S[i].at
             /\ Suffix(N[i].items, S[i].items) /\ Len(N[i].items) <= MaxPerSession
  <2> DEFINE s == S[i]
             q == Newest(s.items, MaxPerSession)
  <2>1. /\ s \in [scope: Scopes, items: Seq(Thing), at: Nat] /\ s.items \in Seq(Thing)
        /\ Len(s.items) \in Nat \ {0} /\ Sorted(s.items)
    BY MapFacts, LaneFacts
  <2>2. N[i] = [s EXCEPT !.items = q] BY <1>1, <1>2
  <2> HIDE DEF s, N
  <2>3. q \in Seq(Thing) /\ Suffix(q, s.items) /\ Len(q) \in 1 .. MaxPerSession
    BY <2>1, NewestFacts, BudgetAssumption
  <2>4. Sorted(q) BY <2>1, <2>3, SuffixOfSorted
  <2> HIDE DEF q
  <2>5. Len(q) > 0 /\ Len(q) <= MaxPerSession BY <2>3, BudgetAssumption
  <2>6. /\ N[i].scope = s.scope /\ N[i].at = s.at /\ N[i].items = q
        /\ N[i] \in [scope: Scopes, items: Seq(Thing), at: Nat]
    BY <2>1, <2>2, <2>3
  <2>7. N[i] \in Lane BY <2>4, <2>5, <2>6 DEF Lane
  <2> QED BY <2>3, <2>5, <2>6, <2>7 DEF s
<1>4. N \in Seq(Lane) /\ Len(N) = Len(S) /\ DOMAIN N = DOMAIN S
  <2> DEFINE F(i) == [S[i] EXCEPT !.items = Newest(S[i].items, MaxPerSession)]
             m == Len(S)
  <2>1. N = [i \in 1 .. m |-> F(i)] /\ m \in Nat BY <1>1, <1>2
  <2>2. \A i \in 1 .. m : F(i) \in Lane
    <3> TAKE i \in 1 .. m
    <3>1. N[i] = F(i) BY <2>1
    <3> HIDE DEF F, N
    <3> QED BY <1>1, <1>3, <3>1
  <2> HIDE DEF F, m, N
  <2>3. N \in Seq(Lane) BY <2>1, <2>2, IsASeq
  <2>4. DOMAIN N = 1 .. m BY <2>1
  <2>5. Len(N) = m BY <2>1, <2>3, <2>4, LenProperties
  <2> QED BY <1>1, <2>3, <2>4, <2>5 DEF m
<1> HIDE DEF N
<1>5. N \in Map
  <2>1. ScopesUnique(N) BY <1>1, <1>3, <1>4 DEF ScopesUnique
  <2> QED BY <1>4, <2>1 DEF Map
<1>6. Short(N) /\ Touched(N) BY <1>3, <1>4 DEF Short, Touched
<1>7. S \in Loose /\ N \in Loose BY <1>5, MapIsLoose
<1>8. Inside(N, S)
  <2> SUFFICES ASSUME NEW k \in Scopes, NEW x \in In(N, k) PROVE x \in In(S, k)
    BY DEF Inside
  <2> DEFINE i == At(N, k)
  <2>1. i \in DOMAIN N /\ N[i].scope = k /\ ItemsOf(N, k) = N[i].items BY <1>7, InFacts
  <2> HIDE DEF i
  <2>2. x \in ToSet(N[i].items) BY <2>1 DEF In
  <2>3. i \in DOMAIN S /\ S[i].scope = k /\ Suffix(N[i].items, S[i].items)
    BY <1>3, <1>4, <2>1
  <2>4. N[i].items \in Seq(Thing) /\ S[i].items \in Seq(Thing)
    BY <1>7, <2>1, <2>3, LooseFacts
  <2>5. x \in ToSet(S[i].items) BY <2>2, <2>3, <2>4, SuffixMembers
  <2> QED BY <1>7, <2>3, <2>5, InFacts
<1> QED BY <1>5, <1>6, <1>8 DEF N

LEMMA LoadedFacts ==
  ASSUME NEW S \in Map, NEW n, NEW a, Side(S, n, a)
  PROVE  LET T == EnforceReplayBudgets(S) IN
         /\ Within(T) /\ Short(T) /\ T \in Loose /\ Inside(T, S) /\ Fades(T, S)
         /\ Side(T, n, a)
<1> DEFINE N == Newests(S)
           T == EnforceReplayBudgets(S)
<1>1. T = Trimmed(N) BY DEF EnforceReplayBudgets, Trimmed, Newests
<1>2. Touched(S) /\ \A k \in Scopes : \A x \in In(S, k) : x \in Entry BY DEF Side
<1>3. N \in Map /\ Inside(N, S) /\ Short(N) /\ Touched(N) BY <1>2, NewestsFacts
<1> HIDE DEF N, T
<1>4. /\ T \in Map /\ Derives(N, T)
      /\ GlobalCount(T) <= MaxGlobal /\ Len(T) <= MaxSessions
  BY <1>1, <1>3, TrimmedFacts
<1>5. Inside(T, N) /\ Short(T) /\ Touched(T) BY <1>3, <1>4, DerivesInside
<1>6. Within(T) /\ T \in Loose BY <1>4, MapIsLoose DEF Within
<1>7. Inside(T, S) BY <1>3, <1>5 DEF Inside
<1>8. Fades(T, S) BY <1>2, <1>7, InsideFades
<1>9. Echoes(T, S) BY <1>8, FadesEcho
<1>10. Side(T, n, a) BY <1>5, <1>6, <1>9, EchoSide
<1> QED BY <1>5, <1>6, <1>7, <1>8, <1>10 DEF T

(***************************************************************************)
(* The start: the compaction.                                              *)
(***************************************************************************)
\* The rows of a session.
LaneRows(s) == [j \in DOMAIN s.items |-> AppendRow(s.scope, s.items[j])]

\* c[n] are the rows of the first n sessions.
Compacts(S, c) == c[0] = <<>> /\ \A i \in 1 .. Len(S) : c[i] = c[i - 1] \o LaneRows(S[i])

LEMMA CompactRuns ==
  ASSUME NEW S, Len(S) \in Nat
  PROVE  \E c : Compacts(S, c) /\ Compacted(S) = c[Len(S)]
<1> DEFINE Step(y, i) == y \o LaneRows(S[i])
           Is(n, f) == f = [i \in 0 .. n |-> IF i = 0 THEN <<>> ELSE Step(f[i - 1], i)]
           T == {n \in Nat : \E f : Is(n, f)}
           r == Len(S)
           c == CHOOSE f : Is(r, f)
<1>0. r \in Nat OBVIOUS
<1>1. 0 \in T
  <2>1. Is(0, [i \in 0 .. 0 |-> <<>>]) OBVIOUS
  <2> QED BY <2>1
<1>2. ASSUME NEW n \in Nat, n \in T PROVE n + 1 \in T
  <2>1. PICK f : Is(n, f) BY <1>2
  <2> HIDE DEF Step
  <2>2. PICK g : Longer(g, f, n, Step(f[n], n + 1)) BY LongerExists
  <2>3. ASSUME NEW i \in 0 .. n + 1 PROVE g[i] = IF i = 0 THEN <<>> ELSE Step(g[i - 1], i)
    <3>1. CASE i \in 0 .. n
      <4>1. f[i] = IF i = 0 THEN <<>> ELSE Step(f[i - 1], i) BY <2>1, <3>1
      <4> QED BY <2>2, <3>1, <4>1 DEF Longer
    <3>2. CASE i = n + 1 BY <2>2, <3>2 DEF Longer
    <3> QED BY <3>1, <3>2
  <2>4. Is(n + 1, g) BY <2>2, <2>3, Zenon DEF Longer
  <2> QED BY <2>4
<1>3. r \in T
  <2> HIDE DEF T, r
  <2> QED BY <1>0, <1>1, <1>2, SetInduction
<1>4. Is(r, c)
  <2>1. \E f : Is(r, f) BY <1>3
  <2> HIDE DEF Is
  <2> QED BY <2>1
<1>5. Compacted(S) = c[r] BY DEF Compacted, LaneRows, Fold
<1> HIDE DEF c, r
<1>6. ASSUME NEW i \in 0 .. r PROVE c[i] = IF i = 0 THEN <<>> ELSE Step(c[i - 1], i)
  <2> DEFINE F(l) == IF l = 0 THEN <<>> ELSE Step(c[l - 1], l)
  <2>1. c = [l \in 0 .. r |-> F(l)] BY <1>4
  <2> HIDE DEF F
  <2>2. c[i] = F(i) BY <2>1
  <2> QED BY <2>2 DEF F
<1>7. c[0] = <<>> BY <1>0, <1>6
<1>8. ASSUME NEW i \in 1 .. r PROVE c[i] = Step(c[i - 1], i)
  <2> HIDE DEF Step
  <2> QED BY <1>0, <1>6
<1>9. Compacts(S, c)
  <2>1. \A i \in 1 .. r : c[i] = c[i - 1] \o LaneRows(S[i]) BY <1>8
  <2> HIDE DEF Step
  <2> QED BY <1>7, <2>1 DEF Compacts, r
<1> QED BY <1>5, <1>9 DEF r

\* The rows append the records of the first n sessions of T, lane by lane.
Lists(rows, T, n) ==
    /\ rows \in Seq(Rows)
    /\ \A r \in DOMAIN rows : \E l \in 1 .. n : \E x \in ToSet(T[l].items) :
          rows[r] = AppendRow(T[l].scope, x)
    /\ \A r, s \in DOMAIN rows :
          r < s /\ rows[r].scope = rows[s].scope => rows[r].item.id < rows[s].item.id
    /\ \A l \in 1 .. n : \A x \in ToSet(T[l].items) :
          \E r \in DOMAIN rows : rows[r] = AppendRow(T[l].scope, x)

LEMMA AppendRowIs ==
  ASSUME NEW k, NEW x
  PROVE  /\ AppendRow(k, x).op = "append" /\ AppendRow(k, x).scope = k
         /\ AppendRow(k, x).item = x /\ AppendRow(k, x) # Fragment
         /\ k \in Scopes /\ x \in Item => AppendRow(k, x) \in Rows
<1>1. AppendRow(k, x).op = "append" /\ Fragment.op = "fragment" BY DEF AppendRow, Fragment
<1>2. AppendRow(k, x) # Fragment BY <1>1
<1> QED BY <1>2 DEF AppendRow, Rows

LEMMA LaneRowsFacts ==
  ASSUME NEW s \in Lane, ToSet(s.items) \subseteq Item
  PROVE  LET q == LaneRows(s) IN
         /\ q \in Seq(Rows) /\ Len(q) = Len(s.items) /\ Len(q) \in Nat
         /\ \A i \in 1 .. Len(q) : /\ i \in DOMAIN s.items
                                   /\ q[i] = AppendRow(s.scope, s.items[i])
<1> DEFINE F(j) == AppendRow(s.scope, s.items[j])
           m == Len(s.items)
           q == LaneRows(s)
<1>1. s.items \in Seq(Thing) /\ s.scope \in Scopes BY LaneFacts
<1>2. m \in Nat /\ DOMAIN s.items = 1 .. m BY <1>1, LenProperties
<1>3. q = [j \in 1 .. m |-> F(j)] BY <1>2 DEF LaneRows
<1>4. \A j \in 1 .. m : F(j) \in Rows
  <2> TAKE j \in 1 .. m
  <2>1. s.items[j] \in Item BY <1>2 DEF ToSet
  <2> QED BY <1>1, <2>1, AppendRowIs
<1> HIDE DEF F, m, q
<1>5. q \in Seq(Rows) /\ DOMAIN q = 1 .. m BY <1>2, <1>3, <1>4, IsASeq
<1>6. Len(q) = m BY <1>2, <1>5, LenProperties
<1>7. \A i \in 1 .. m : q[i] = F(i) BY <1>3
<1> QED BY <1>2, <1>5, <1>6, <1>7 DEF F, m, q

LEMMA ListsStep ==
  ASSUME NEW T \in Map, NEW n \in 0 .. Len(T) - 1, NEW rows, Lists(rows, T, n),
         ToSet(T[n + 1].items) \subseteq Item
  PROVE  Lists(rows \o LaneRows(T[n + 1]), T, n + 1)
<1> DEFINE s == T[n + 1]
           q == LaneRows(s)
           a == Len(rows)
           b == Len(q)
           all == rows \o q
<1>1. /\ Len(T) \in Nat /\ DOMAIN T = 1 .. Len(T) /\ ScopesUnique(T)
      /\ \A i \in DOMAIN T : T[i] \in Lane
  BY MapFacts
<1>2. /\ n \in Nat /\ n + 1 \in DOMAIN T /\ \A l \in 1 .. n : l \in DOMAIN T /\ l # n + 1
      /\ \A l : l \in 1 .. n + 1 <=> l \in 1 .. n \/ l = n + 1
  BY <1>1
<1>3. s \in Lane /\ s.items \in Seq(Thing) /\ Sorted(s.items) BY <1>1, <1>2, LaneFacts
<1>4. /\ q \in Seq(Rows) /\ b = Len(s.items) /\ b \in Nat
      /\ \A i \in 1 .. b : i \in DOMAIN s.items /\ q[i] = AppendRow(s.scope, s.items[i])
  BY <1>3, LaneRowsFacts
<1>5. rows \in Seq(Rows) /\ a \in Nat /\ DOMAIN rows = 1 .. a BY LenProperties DEF Lists
<1> HIDE DEF q, s
<1>6. /\ all \in Seq(Rows) /\ Len(all) = a + b
      /\ \A i \in 1 .. a + b : all[i] = IF i <= a THEN rows[i] ELSE q[i - a]
  BY <1>4, <1>5, ConcatProperties
<1> HIDE DEF all, a, b
<1>7. DOMAIN all = 1 .. a + b BY <1>6, LenProperties
<1>8. ASSUME NEW r \in DOMAIN all
      PROVE  \/ r \in DOMAIN rows /\ all[r] = rows[r]
             \/ /\ r - a \in 1 .. b /\ r - a \in DOMAIN s.items /\ r > a
                /\ all[r] = AppendRow(s.scope, s.items[r - a])
  <2>1. r \in 1 .. a + b BY <1>7
  <2>2. CASE r <= a BY <1>5, <1>6, <2>1, <2>2
  <2>3. CASE ~(r <= a)
    <3>0. a \in Nat /\ b \in Nat BY <1>4, <1>5
    <3>1. r - a \in 1 .. b /\ r > a BY <2>1, <2>3, <3>0
    <3>2. all[r] = q[r - a] BY <1>6, <2>1, <2>3
    <3> QED BY <1>4, <3>1, <3>2
  <2> QED BY <2>2, <2>3
<1>9. \A r \in DOMAIN all : \E l \in 1 .. n + 1 : \E x \in ToSet(T[l].items) :
         all[r] = AppendRow(T[l].scope, x)
  <2> TAKE r \in DOMAIN all
  <2>1. CASE r \in DOMAIN rows /\ all[r] = rows[r]
    <3>1. PICK l \in 1 .. n : \E x \in ToSet(T[l].items) : rows[r] = AppendRow(T[l].scope, x)
      BY <2>1 DEF Lists
    <3>2. l \in 1 .. n + 1 BY <1>2
    <3> QED BY <2>1, <3>1, <3>2
  <2>2. CASE r - a \in DOMAIN s.items /\ all[r] = AppendRow(s.scope, s.items[r - a])
    <3>1. s.items[r - a] \in ToSet(s.items) BY <2>2 DEF ToSet
    <3> QED BY <1>2, <2>2, <3>1 DEF s
  <2> QED BY <1>8, <2>1, <2>2
<1>10. ASSUME NEW r \in DOMAIN all, NEW t \in DOMAIN all, r < t, all[r].scope = all[t].scope
       PROVE  all[r].item.id < all[t].item.id
  <2>0. r \in Int /\ t \in Int BY <1>7
  <2>1. CASE r \in DOMAIN rows /\ all[r] = rows[r] /\ t \in DOMAIN rows /\ all[t] = rows[t]
    BY <1>10, <2>1 DEF Lists
  <2>2. CASE /\ r \in DOMAIN rows /\ all[r] = rows[r]
             /\ all[t] = AppendRow(s.scope, s.items[t - a])
    <3>1. PICK l \in 1 .. n : \E x \in ToSet(T[l].items) : rows[r] = AppendRow(T[l].scope, x)
      BY <2>2 DEF Lists
    <3>2. all[r].scope = T[l].scope /\ all[t].scope = T[n + 1].scope
      BY <2>2, <3>1, AppendRowIs DEF s
    <3>3. l = n + 1 BY <1>1, <1>2, <1>10, <3>2 DEF ScopesUnique
    <3> QED BY <1>2, <3>3
  <2>3. CASE /\ r - a \in DOMAIN s.items /\ all[r] = AppendRow(s.scope, s.items[r - a])
             /\ t - a \in DOMAIN s.items /\ all[t] = AppendRow(s.scope, s.items[t - a])
    <3>1. r - a < t - a BY <1>5, <1>10, <2>0
    <3>2. s.items[r - a].id < s.items[t - a].id BY <1>3, <2>3, <3>1 DEF Sorted
    <3> QED BY <2>3, <3>2, AppendRowIs
  <2>4. CASE r > a /\ t \in DOMAIN rows BY <1>5, <1>10, <2>0, <2>4
  <2> QED BY <1>8, <2>1, <2>2, <2>3, <2>4
<1>11. ASSUME NEW l \in 1 .. n + 1, NEW x \in ToSet(T[l].items)
       PROVE  \E r \in DOMAIN all : all[r] = AppendRow(T[l].scope, x)
  <2>1. CASE l \in 1 .. n
    <3>1. PICK r \in DOMAIN rows : rows[r] = AppendRow(T[l].scope, x) BY <2>1 DEF Lists
    <3>2. r \in 1 .. a + b /\ r <= a BY <1>4, <1>5, <3>1
    <3> QED BY <1>6, <1>7, <3>1, <3>2
  <2>2. CASE l = n + 1
    <3>0. DOMAIN s.items = 1 .. b BY <1>3, <1>4, LenProperties
    <3>1. PICK j \in 1 .. b : s.items[j] = x BY <2>2, <3>0 DEF ToSet, s
    <3>2. j + a \in 1 .. a + b /\ ~(j + a <= a) /\ (j + a) - a = j BY <1>4, <1>5
    <3>3. all[j + a] = q[j] BY <1>6, <3>2
    <3>4. all[j + a] = AppendRow(s.scope, x) BY <1>4, <3>1, <3>3
    <3> QED BY <1>7, <2>2, <3>2, <3>4 DEF s
  <2> QED BY <1>2, <2>1, <2>2
<1>12. Lists(all, T, n + 1) BY <1>6, <1>9, <1>10, <1>11 DEF Lists
<1> QED BY <1>12 DEF all, q, s

LEMMA CompactedLists ==
  ASSUME NEW T \in Map, \A i \in DOMAIN T : ToSet(T[i].items) \subseteq Item
  PROVE  Lists(Compacted(T), T, Len(T))
<1> DEFINE n == Len(T)
<1>1. n \in Nat /\ DOMAIN T = 1 .. n BY MapFacts
<1>2. PICK c : Compacts(T, c) /\ Compacted(T) = c[n] BY <1>1, CompactRuns
<1> DEFINE W == {m \in Nat : Lists(c[m], T, m)}
<1>3. 0 \in W
  <2>1. c[0] = <<>> BY <1>2 DEF Compacts
  <2>2. Lists(<<>>, T, 0)
    <3>1. <<>> \in Seq(Rows) /\ DOMAIN <<>> = {} BY EmptySeq
    <3>2. 1 .. 0 = {} OBVIOUS
    <3> QED BY <3>1, <3>2 DEF Lists
  <2> QED BY <2>1, <2>2
<1>4. ASSUME NEW m \in 0 .. n - 1, m \in W PROVE m + 1 \in W
  <2>1. m + 1 \in 1 .. n /\ (m + 1) - 1 = m /\ m + 1 \in Nat BY <1>1
  <2>2. c[m + 1] = c[m] \o LaneRows(T[m + 1]) BY <1>2, <2>1 DEF Compacts
  <2>3. Lists(c[m], T, m) BY <1>4
  <2>4. ToSet(T[m + 1].items) \subseteq Item BY <1>1, <2>1
  <2>5. Lists(c[m] \o LaneRows(T[m + 1]), T, m + 1) BY <2>3, <2>4, ListsStep
  <2> QED BY <2>1, <2>2, <2>5
<1>5. \A m \in 0 .. n : m \in W
  <2> HIDE DEF W, n
  <2> QED BY <1>1, <1>3, <1>4, UpTo
<1>6. Lists(c[n], T, n) BY <1>1, <1>5
<1> QED BY <1>2, <1>6

\* The records of the scope k among the first m rows.
Got(rows, m, k) == {rows[i].item : i \in {j \in 1 .. m : rows[j].scope = k}}

\* Q is what a replay of the first m rows gives back.
Rebuilt(Q, rows, m, n) ==
    /\ Q.sessions \in Map /\ Touched(Q.sessions)
    /\ Q.nextId \in Nat \ {0} /\ Q.nextId <= n
    /\ \A k : In(Q.sessions, k) = Got(rows, m, k)
    /\ \A i \in 1 .. m : rows[i].item.id < Q.nextId

LEMMA ListedRows ==
  ASSUME NEW T \in Map, NEW n, NEW a, Side(T, n, a), NEW rows, Lists(rows, T, Len(T)),
         NEW r \in DOMAIN rows
  PROVE  LET k == rows[r].scope
             x == rows[r].item IN
         /\ rows[r] = AppendRow(k, x) /\ k \in Scopes /\ x \in In(T, k)
         /\ x \in Entry /\ x.id \in 1 .. n - 1 /\ x.content <= a /\ x.size <= MaxContent
<1>1. DOMAIN T = 1 .. Len(T) /\ T \in Loose BY MapFacts, MapIsLoose
<1>2. PICK l \in 1 .. Len(T) : \E y \in ToSet(T[l].items) : rows[r] = AppendRow(T[l].scope, y)
  BY DEF Lists
<1>3. PICK y \in ToSet(T[l].items) : rows[r] = AppendRow(T[l].scope, y) BY <1>2
<1> DEFINE k == T[l].scope
<1>4. rows[r].scope = k /\ rows[r].item = y BY <1>3, AppendRowIs
<1>5. l \in DOMAIN T /\ k \in Scopes BY <1>1, LooseFacts
<1>6. y \in In(T, k) BY <1>1, <1>5, InFacts
<1> HIDE DEF k
<1>7. y \in Entry /\ y.id \in 1 .. n - 1 /\ y.content <= a /\ y.size <= MaxContent
  BY <1>5, <1>6 DEF Side
<1>8. rows[r] = AppendRow(k, y) BY <1>3 DEF k
<1> QED BY <1>4, <1>5, <1>6, <1>7, <1>8

LEMMA InEmpty ==
  /\ <<>> \in Map /\ Touched(<<>>)
  /\ \A k : In(<<>>, k) = {}
<1>1. <<>> \in Seq(Lane) /\ DOMAIN <<>> = {} BY EmptySeq
<1>2. <<>> \in Map BY <1>1 DEF Map, ScopesUnique
<1>3. <<>> \in Loose BY <1>2, MapIsLoose
<1>4. ASSUME NEW k PROVE In(<<>>, k) = {}
  <2>1. \/ In(<<>>, k) = {}
        \/ At(<<>>, k) \in DOMAIN <<>>
    BY <1>3, InFacts
  <2> QED BY <1>1, <2>1
<1> QED BY <1>1, <1>2, <1>4 DEF Touched

LEMMA RebuildFacts ==
  ASSUME NEW T \in Map, NEW n \in Nat \ {0}, NEW a, Side(T, n, a), now \in Nat,
         NEW rows, Lists(rows, T, Len(T)), NEW c, Replays(rows, c)
  PROVE  \A m \in 0 .. Len(rows) : Rebuilt(c[m], rows, m, n)
<1> DEFINE N == Len(rows)
           W == {m \in Nat : Rebuilt(c[m], rows, m, n)}
<1>1. rows \in Seq(Rows) /\ N \in Nat /\ DOMAIN rows = 1 .. N BY LenProperties DEF Lists
<1>2. 0 \in W
  <2>1. c[0] = EmptyStore BY DEF Replays
  <2>2. c[0].sessions = <<>> /\ c[0].nextId = 1 BY <2>1 DEF EmptyStore
  <2>3. 1 .. 0 = {} /\ 1 \in Nat \ {0} /\ 1 <= n OBVIOUS
  <2>4. \A k : Got(rows, 0, k) = {} BY <2>3 DEF Got
  <2>5. Rebuilt(c[0], rows, 0, n) BY <2>2, <2>3, <2>4, InEmpty DEF Rebuilt
  <2> QED BY <2>5
<1>3. ASSUME NEW m \in 0 .. N - 1, m \in W PROVE m + 1 \in W
  <2> DEFINE st == c[m]
             k == rows[m + 1].scope
             x == rows[m + 1].item
             row == AppendRow(k, x)
             U == ApplyRow(st, row)
  <2>1. /\ m + 1 \in 1 .. N /\ (m + 1) - 1 = m /\ m + 1 \in Nat /\ m \in Nat
        /\ \A i : i \in 1 .. m + 1 <=> i \in 1 .. m \/ i = m + 1
        /\ \A i \in 1 .. m : i \in 1 .. N /\ i < m + 1 /\ i # m + 1
    <3> HIDE DEF N, W
    <3> QED BY <1>1
  <2>2. /\ rows[m + 1] = row /\ k \in Scopes /\ x \in In(T, k)
        /\ x \in Entry /\ x.id \in 1 .. n - 1 /\ x.size <= MaxContent
    BY <1>1, <2>1, ListedRows
  <2>3. c[m + 1] = U BY <2>1, <2>2 DEF Replays, N
  <2>4. Rebuilt(st, rows, m, n) BY <1>3
  <2> HIDE DEF st, k, x, U, N
  <2>5. \A y \in In(st.sessions, k) : y.id < x.id
    <3> TAKE y \in In(st.sessions, k)
    <3>1. y \in Got(rows, m, k) BY <2>4 DEF Rebuilt
    <3>2. PICK i \in 1 .. m : rows[i].scope = k /\ rows[i].item = y BY <3>1 DEF Got
    <3>3. i \in DOMAIN rows /\ m + 1 \in DOMAIN rows /\ i < m + 1
      BY <1>1, <2>1
    <3>4. rows[m + 1].scope = k /\ rows[m + 1].item = x BY DEF k, x
    <3>5. \A r, s \in DOMAIN rows :
              r < s /\ rows[r].scope = rows[s].scope => rows[r].item.id < rows[s].item.id
      BY DEF Lists
    <3> QED BY <3>2, <3>3, <3>4, <3>5
  <2>6. x \in Item /\ x.at <= now /\ x.id \in Nat BY <2>2, EntryFacts
  <2>7. /\ U.nextId = IF x.id >= st.nextId THEN x.id + 1 ELSE st.nextId
        /\ U.sessions \in Map /\ Touched(U.sessions)
        /\ Holding(st.sessions, U.sessions, k, In(st.sessions, k) \cup {x})
    BY <2>2, <2>4, <2>5, <2>6, AppendRowFacts DEF Rebuilt, U
  <2>8. U.nextId \in Nat \ {0} /\ U.nextId <= n /\ st.nextId <= U.nextId /\ x.id < U.nextId
        /\ st.nextId \in Nat
    <3>1. st.nextId \in Nat \ {0} /\ st.nextId <= n BY <2>4 DEF Rebuilt
    <3> DEFINE i == x.id
               j == st.nextId
               l == U.nextId
    <3>2. /\ i \in 1 .. n - 1 /\ i \in Nat /\ j \in Nat \ {0} /\ j <= n
          /\ l = IF i >= j THEN i + 1 ELSE j
      BY <2>2, <2>6, <2>7, <3>1
    <3> HIDE DEF i, j, l
    <3>3. l \in Nat \ {0} /\ l <= n /\ j <= l /\ i < l BY <3>2
    <3> QED BY <3>1, <3>3 DEF i, j, l
  <2>9. ASSUME NEW l PROVE In(U.sessions, l) = Got(rows, m + 1, l)
    <3>1. Got(rows, m + 1, l) = IF l = k THEN Got(rows, m, l) \cup {x} ELSE Got(rows, m, l)
      <4>1. rows[m + 1].scope = k /\ rows[m + 1].item = x BY DEF k, x
      <4> QED BY <2>1, <4>1 DEF Got
    <3>2. In(st.sessions, l) = Got(rows, m, l) /\ In(st.sessions, k) = Got(rows, m, k)
      BY <2>4 DEF Rebuilt
    <3> QED BY <2>7, <3>1, <3>2 DEF Holding
  <2>10. \A i \in 1 .. m + 1 : rows[i].item.id < U.nextId
    <3> TAKE i \in 1 .. m + 1
    <3>1. CASE i \in 1 .. m
      <4>1. rows[i].item.id < st.nextId BY <2>4, <3>1 DEF Rebuilt
      <4>2. rows[i].item \in Entry BY <1>1, <2>1, <3>1, ListedRows
      <4>3. rows[i].item.id \in Nat BY <4>2, EntryFacts
      <4> DEFINE j == rows[i].item.id
      <4>4. j \in Nat /\ j < st.nextId BY <4>1, <4>3
      <4> HIDE DEF j
      <4>5. j < U.nextId BY <2>8, <4>4
      <4> QED BY <4>5 DEF j
    <3>2. CASE i = m + 1 BY <2>8, <3>2 DEF x
    <3> QED BY <2>1, <3>1, <3>2
  <2>11. Rebuilt(U, rows, m + 1, n) BY <2>7, <2>8, <2>9, <2>10 DEF Rebuilt
  <2> QED BY <2>1, <2>3, <2>11
<1>4. \A m \in 0 .. N : m \in W
  <2> HIDE DEF W, N
  <2> QED BY <1>1, <1>2, <1>3, UpTo
<1> QED BY <1>4

LEMMA RebuiltFacts ==
  ASSUME NEW T \in Map, NEW n \in Nat \ {0}, NEW a, Side(T, n, a),
         NEW rows, Lists(rows, T, Len(T)), NEW m \in 0 .. Len(rows), NEW Q, Rebuilt(Q, rows, m, n)
  PROVE  /\ Side(Q.sessions, Q.nextId, a) /\ Inside(Q.sessions, T)
         /\ m = Len(rows) => Inside(T, Q.sessions)
<1>1. rows \in Seq(Rows) /\ Len(rows) \in Nat /\ DOMAIN rows = 1 .. Len(rows)
  BY LenProperties DEF Lists
<1>2. /\ Q.sessions \in Map /\ Touched(Q.sessions) /\ Q.nextId \in Nat \ {0}
      /\ \A k : In(Q.sessions, k) = Got(rows, m, k)
      /\ \A i \in 1 .. m : rows[i].item.id < Q.nextId
  BY DEF Rebuilt
<1>3. Q.sessions \in Loose /\ T \in Loose BY <1>2, MapIsLoose
<1>4. ASSUME NEW k \in Scopes, NEW x \in In(Q.sessions, k)
      PROVE  /\ x \in Entry /\ x.id \in 1 .. Q.nextId - 1 /\ x.content <= a
             /\ x.size <= MaxContent /\ x \in In(T, k)
  <2>1. PICK i \in 1 .. m : rows[i].scope = k /\ rows[i].item = x BY <1>2, <1>4 DEF Got
  <2>2. i \in DOMAIN rows BY <1>1
  <2>3. /\ x \in In(T, k) /\ x \in Entry /\ x.id \in 1 .. n - 1 /\ x.content <= a
        /\ x.size <= MaxContent
    BY <2>1, <2>2, ListedRows
  <2>4. x.id < Q.nextId BY <1>2, <2>1
  <2> DEFINE j == x.id
             l == Q.nextId
  <2>5. j \in 1 .. n - 1 /\ j < l /\ l \in Nat BY <1>2, <2>3, <2>4
  <2> HIDE DEF j, l
  <2>6. j \in 1 .. l - 1 BY <2>5
  <2> QED BY <2>3, <2>6 DEF j, l
<1>5. ASSUME m = Len(rows), NEW k \in Scopes, NEW x \in In(T, k)
      PROVE  x \in In(Q.sessions, k)
  <2> DEFINE l == At(T, k)
  <2>1. l \in DOMAIN T /\ T[l].scope = k /\ ItemsOf(T, k) = T[l].items BY <1>3, <1>5, InFacts
  <2> HIDE DEF l
  <2>2. DOMAIN T = 1 .. Len(T) BY MapFacts
  <2>3. x \in ToSet(T[l].items) BY <1>5, <2>1 DEF In
  <2>4. PICK r \in DOMAIN rows : rows[r] = AppendRow(T[l].scope, x)
    BY <2>1, <2>2, <2>3 DEF Lists
  <2>5. rows[r].scope = k /\ rows[r].item = x BY <2>1, <2>4, AppendRowIs
  <2>6. r \in 1 .. m BY <1>1, <1>5
  <2>7. x \in Got(rows, m, k) BY <2>5, <2>6 DEF Got
  <2> QED BY <1>2, <2>7
<1>6. Side(Q.sessions, Q.nextId, a) BY <1>2, <1>3, <1>4 DEF Side
<1> QED BY <1>4, <1>5, <1>6 DEF Inside

\* A replay of q gives back some of T, and an id that no record has.
Rebuilds(q, T, n, a) ==
    /\ q \in Seq(Rows) /\ ~Torn(q)
    /\ Replay(q).sessions \in Map
    /\ Replay(q).nextId \in Nat \ {0} /\ Replay(q).nextId <= n
    /\ Side(Replay(q).sessions, Replay(q).nextId, a)
    /\ Inside(Replay(q).sessions, T)

LEMMA CompactedFacts ==
  ASSUME NEW T \in Map, NEW n \in Nat \ {0}, NEW a, Side(T, n, a), now \in Nat
  PROVE  LET rows == Compacted(T) IN
         /\ rows \in Seq(Rows) /\ Len(rows) \in Nat
         /\ \A m \in 0 .. Len(rows) : Rebuilds(SubSeq(rows, 1, m), T, n, a)
         /\ Rebuilds(rows, T, n, a) /\ Inside(T, Replay(rows).sessions)
<1> DEFINE rows == Compacted(T)
           N == Len(rows)
<1>1. \A i \in DOMAIN T : ToSet(T[i].items) \subseteq Item
  <2> SUFFICES ASSUME NEW i \in DOMAIN T, NEW x \in ToSet(T[i].items) PROVE x \in Item
    OBVIOUS
  <2>1. T \in Loose BY MapIsLoose
  <2>2. T[i].scope \in Scopes /\ x \in In(T, T[i].scope) BY <2>1, LooseFacts, InFacts
  <2> QED BY <2>2 DEF Side, Entry
<1>2. Lists(rows, T, Len(T)) BY <1>1, CompactedLists
<1> HIDE DEF rows
<1>3. rows \in Seq(Rows) /\ N \in Nat /\ DOMAIN rows = 1 .. N BY <1>2, LenProperties DEF Lists
<1>4. PICK c : Replays(rows, c) /\ Replay(rows) = c[N] BY <1>3, ReplayRuns
<1>5. ASSUME NEW m \in 0 .. N, NEW q, q \in Seq(Rows), Len(q) = m, \A i \in 1 .. m : q[i] = rows[i]
      PROVE  Rebuilds(q, T, n, a) /\ Replay(q) = c[m]
  <2>1. PICK d : Replays(q, d) /\ Replay(q) = d[m] BY <1>5, ReplayRuns
  <2>2. m \in Nat /\ m <= N BY <1>3
  <2>3. c[m] = d[m] BY <1>3, <1>4, <1>5, <2>1, <2>2, ReplaysAgree
  <2>4. Rebuilt(c[m], rows, m, n) BY <1>2, <1>4, RebuildFacts
  <2>5. Side(c[m].sessions, c[m].nextId, a) /\ Inside(c[m].sessions, T)
    BY <1>2, <2>4, RebuiltFacts
  <2>6. ~Torn(q)
    <3> SUFFICES ASSUME q # <<>>, Last(q) = Fragment PROVE FALSE BY DEF Torn
    <3>1. m # 0 BY <1>5, EmptySeq
    <3>2. m \in 1 .. m /\ m \in DOMAIN rows BY <1>3, <2>2, <3>1
    <3>3. Last(q) = rows[m] BY <1>5, <3>2 DEF Last
    <3>4. rows[m] # Fragment BY <1>2, <3>2, ListedRows, AppendRowIs
    <3> QED BY <3>3, <3>4
  <2> QED BY <1>5, <2>1, <2>3, <2>4, <2>5, <2>6 DEF Rebuilds, Rebuilt
<1>6. ASSUME NEW m \in 0 .. N PROVE Rebuilds(SubSeq(rows, 1, m), T, n, a)
  <2>1. /\ SubSeq(rows, 1, m) \in Seq(Rows) /\ Len(SubSeq(rows, 1, m)) = m
        /\ \A i \in 1 .. m : SubSeq(rows, 1, m)[i] = rows[i]
    <3>1. CASE m = 0 BY <1>3, <3>1
    <3>2. CASE m # 0
      <4>1. 1 \in 1 .. N /\ m \in 1 .. N /\ 1 <= m BY <1>3, <3>2
      <4> QED BY <1>3, <4>1
    <3> QED BY <3>1, <3>2
  <2> QED BY <1>5, <2>1
<1>7. Rebuilds(rows, T, n, a)
  <2>1. N \in 0 .. N BY <1>3
  <2> QED BY <1>3, <1>5, <2>1
<1>8. Inside(T, Replay(rows).sessions)
  <2>1. N \in 0 .. N BY <1>3
  <2>2. Rebuilt(c[N], rows, N, n) BY <1>2, <1>4, <2>1, RebuildFacts
  <2> QED BY <1>2, <1>4, <2>1, <2>2, RebuiltFacts
<1> QED BY <1>3, <1>6, <1>7, <1>8 DEF rows

LEMMA RebuildsFile ==
  ASSUME NEW q, NEW T, NEW n \in Nat, NEW a, NEW D, NEW w, Rebuilds(q, T, n, a), Paired(T, T),
         w => Firm(T, D), \A k \in Scopes : \A x \in In(T, k) : x \in Entry
  PROVE  /\ FileOK(q, n, a, D, w) /\ FileOK(q, Replay(q).nextId, a, D, w)
         /\ Paired(T, Replay(q).sessions)
<1> DEFINE U == Replay(q).sessions
<1>1. /\ q \in Seq(Rows) /\ U \in Map /\ Replay(q).nextId \in Nat \ {0} /\ Replay(q).nextId <= n
      /\ Side(U, Replay(q).nextId, a) /\ Inside(U, T)
  BY DEF Rebuilds
<1> HIDE DEF U
<1>2. Inside(T, T) BY DEF Inside
<1>3. Fades(U, T) /\ Fades(T, T) BY <1>1, <1>2, InsideFades
<1>4. Echoes(U, T) /\ Echoes(T, T) BY <1>3, FadesEcho
<1>5. Paired(U, U) /\ Paired(T, U) BY <1>4, EchoPaired
<1>6. w => Firm(U, D) BY <1>3, FadesFirm
<1>7. Replay(q).nextId <= Replay(q).nextId BY <1>1
<1> QED BY <1>1, <1>5, <1>6, <1>7 DEF FileOK, U

\* What a start reads from the journal, and writes to it.
LEMMA StartFacts ==
  ASSUME WalInv, ~up
  PROVE  LET L == Load(journal)
             rows == Compacted(L.sessions)
             a == hist.appends
             D == hist.decided
             w == hist.shorts = 0 IN
         /\ L.nextId \in Nat \ {0}
         /\ StoreOK(L, a, D, w) /\ Within(L.sessions)
         /\ Len(rows) \in Nat
         /\ \A m \in 0 .. Len(rows) : Rebuilds(SubSeq(rows, 1, m), L.sessions, L.nextId, a)
         /\ Rebuilds(rows, L.sessions, L.nextId, a)
         /\ Inside(L.sessions, Replay(rows).sessions)
         /\ \A k \in Scopes : \A x \in In(L.sessions, k) : x \in Entry
<1> DEFINE R == Replay(journal)
           S == R.sessions
           n == R.nextId
           a == hist.appends
           D == hist.decided
           w == hist.shorts = 0
           T == EnforceReplayBudgets(S)
           L == Load(journal)
           rows == Compacted(T)
<1>1. FileOK(journal, n, a, D, w) BY DEF WalInv
<1>2. now \in Nat BY BudgetAssumption, InvFacts
<1> HIDE DEF w, a, D
<1>3. /\ n \in Nat \ {0} /\ S \in Map /\ Side(S, n, a) /\ Paired(S, S) /\ (w => Firm(S, D))
  BY <1>1 DEF FileOK
<1>4. L.sessions = T /\ L.nextId = n BY DEF Load
<1> HIDE DEF R, S, n, T
<1>5. /\ Within(T) /\ Short(T) /\ T \in Loose /\ Fades(T, S) /\ Side(T, n, a)
  BY <1>3, LoadedFacts DEF T
<1>6. Echoes(T, S) BY <1>5, FadesEcho
<1>7. Paired(T, T) BY <1>3, <1>6, EchoPaired
<1>8. w => Firm(T, D) BY <1>3, <1>5, FadesFirm
<1>9. T \in Map /\ \A k \in Scopes : \A x \in In(T, k) : x \in Entry BY <1>5 DEF Within, Side
<1>10. /\ Len(rows) \in Nat /\ \A m \in 0 .. Len(rows) : Rebuilds(SubSeq(rows, 1, m), T, n, a)
       /\ Rebuilds(rows, T, n, a) /\ Inside(T, Replay(rows).sessions)
  BY <1>2, <1>3, <1>5, <1>9, CompactedFacts
<1> HIDE DEF L, rows
<1>11. StoreOK(L, a, D, w) BY <1>3, <1>4, <1>5, <1>7, <1>8 DEF StoreOK
<1>12. rows = Compacted(L.sessions) BY <1>4 DEF rows
<1> QED BY <1>3, <1>4, <1>5, <1>9, <1>10, <1>11, <1>12 DEF L, a, D, w

LEMMA StartKeeps ==
  ASSUME WalInv, Start
  PROVE  WalInv'
<1> DEFINE L == Load(journal)
           rows == Compacted(L.sessions)
           T == L.sessions
           U == Replay(rows).sessions
           a == hist.appends
           D == hist.decided
           w == hist.shorts = 0
<1>1. /\ ~up /\ hist.starts < MaxStarts /\ now' = now /\ up' = TRUE /\ store' = L
      /\ journal' = rows /\ answer' = "none" /\ hist' = [hist EXCEPT !.starts = @ + 1]
  BY DEF Start, Starting
<1>2. /\ L.nextId \in Nat \ {0}
      /\ StoreOK(L, a, D, w) /\ Within(T) /\ Rebuilds(rows, T, L.nextId, a) /\ Inside(T, U)
      /\ \A k \in Scopes : \A x \in In(T, k) : x \in Entry
  BY <1>1, StartFacts
<1>3. /\ Told(hist) /\ now \in 0 .. MaxNow /\ hist.starts \in 0 .. MaxStarts BY InvFacts
<1>4. /\ Told(hist') /\ hist'.appends = a /\ hist'.decided = D
      /\ hist'.shorts = hist.shorts /\ hist'.threw = hist.threw /\ hist'.acked = hist.acked
      /\ hist.shorts \in Nat
  <2> DEFINE m == hist.starts + 1
  <2>1. m \in 0 .. MaxStarts BY <1>1, <1>3, WalAssumption
  <2>2. hist \in Hist BY <1>3 DEF Told
  <2>3. hist' = [hist EXCEPT !.starts = m] BY <1>1, <2>2 DEF Hist
  <2> HIDE DEF m
  <2>4. /\ hist' \in Hist /\ hist'.appends = a /\ hist'.decided = D
        /\ hist'.shorts = hist.shorts /\ hist'.threw = hist.threw /\ hist'.acked = hist.acked
        /\ hist.shorts \in Nat
    BY <2>1, <2>2, <2>3 DEF Hist
  <2> QED BY <1>3, <2>4 DEF Told
<1> HIDE DEF L, rows, a, D, w
<1>5. Paired(T, T) /\ (w => Firm(T, D)) BY <1>2 DEF StoreOK
<1> HIDE DEF T
<1>6. FileOK(rows, L.nextId, a, D, w) /\ Paired(T, U) BY <1>2, <1>5, RebuildsFile DEF U
<1>7. ~Torn(rows) BY <1>2 DEF Rebuilds
<1>8. Sound(L, rows, a, D, w) BY <1>2, <1>6, <1>7 DEF Sound, Match, T, U
<1>9. Sound(store', journal', hist'.appends, hist'.decided, hist'.shorts = 0)
  BY <1>1, <1>4, <1>8 DEF w
<1>10. Inside(U, T) BY <1>2 DEF Rebuilds, U
<1>11. Shows(T, U, {}) /\ Shows(U, T, {})
  BY <1>2, <1>10 DEF Inside, Shows, Alike, Same
<1>12. store'.sessions = T /\ Replay(journal').sessions = U BY <1>1 DEF T, U
<1>13. answer' \in Answers /\ answer' # "accepted" BY <1>1 DEF Answers
<1>14. up' = TRUE BY <1>1
<1>15. /\ Within(store'.sessions) /\ Shows(store'.sessions, Replay(journal').sessions, {})
       /\ Shows(Replay(journal').sessions, store'.sessions, {})
  BY <1>2, <1>11, <1>12
<1>16. Covered(store', journal', Unacked(hist'), hist'.shorts)
  <2> DEFINE s == hist.shorts
             E == Unacked(hist')
             X == {}
  <2>1. X \in SUBSET (1 .. MaxAppends) OBVIOUS
  <2>2. Cardinality(X) = 0 BY FS_EmptySet
  <2>3. s \in Nat BY <1>4
  <2> HIDE DEF X, s, E
  <2>4. Costs(rows, X, s) BY <1>7, <2>2, <2>3 DEF Costs
  <2>5. Shows(T, U, E \cup X) BY <1>11 DEF Shows
  <2>6. Covered(L, rows, E, s) BY <2>1, <2>4, <2>5 DEF Covered, T, U
  <2> QED BY <1>1, <1>4, <2>6 DEF s, E
<1> QED BY <1>1, <1>3, <1>4, <1>9, <1>13, <1>14, <1>15, <1>16, UpAgain

LEMMA StartDiesKeeps ==
  ASSUME WalInv, StartDies
  PROVE  WalInv'
<1> DEFINE L == Load(journal)
           rows == Compacted(L.sessions)
           T == L.sessions
           a == hist.appends
           D == hist.decided
           w == hist.shorts = 0
<1>1. /\ ~up /\ hist.starts < MaxStarts /\ now' = now /\ up' = up /\ store' = store
      /\ answer' = answer /\ hist.left["compaction"] > 0
      /\ hist' = [hist EXCEPT !.starts = @ + 1, !.left["compaction"] = @ - 1]
      /\ \E m \in 0 .. Len(rows) - 1 : \/ journal' = SubSeq(rows, 1, m)
                                       \/ journal' = Append(SubSeq(rows, 1, m), Fragment)
  BY DEF StartDies, Starting, Fault
<1>2. /\ L.nextId \in Nat \ {0} /\ StoreOK(L, a, D, w) /\ Len(rows) \in Nat
      /\ \A m \in 0 .. Len(rows) : Rebuilds(SubSeq(rows, 1, m), T, L.nextId, a)
      /\ \A k \in Scopes : \A x \in In(T, k) : x \in Entry
  BY <1>1, StartFacts
<1>3. /\ Told(hist) /\ now \in 0 .. MaxNow /\ hist.starts \in 0 .. MaxStarts
      /\ hist.left \in [FaultKinds -> Nat]
  BY InvFacts
<1>4. /\ Told(hist') /\ hist'.appends = a /\ hist'.decided = D
      /\ hist'.shorts = hist.shorts /\ hist'.threw = hist.threw /\ hist'.acked = hist.acked
  <2> DEFINE m == hist.starts + 1
             left == [hist.left EXCEPT !["compaction"] = hist.left["compaction"] - 1]
  <2>0. hist.starts < MaxStarts /\ hist.starts \in 0 .. MaxStarts /\ MaxStarts \in Nat
    BY <1>1, <1>3, WalAssumption, Zenon
  <2>1. m \in 0 .. MaxStarts BY <2>0
  <2>2. hist \in Hist BY <1>3 DEF Told
  <2>3. hist' = [hist EXCEPT !.starts = m, !.left = left] BY <1>1, <2>2 DEF Hist
  <2>4. left \in [FaultKinds -> Nat]
    <3>1. "compaction" \in FaultKinds BY DEF FaultKinds
    <3>2. hist.left["compaction"] - 1 \in Nat BY <1>1, <1>3, <3>1
    <3> QED BY <1>3, <3>1, <3>2
  <2> HIDE DEF m, left
  <2>5. /\ hist' \in Hist /\ hist'.appends = a /\ hist'.decided = D
        /\ hist'.shorts = hist.shorts /\ hist'.threw = hist.threw /\ hist'.acked = hist.acked
    BY <2>1, <2>2, <2>3, <2>4 DEF Hist
  <2> QED BY <1>3, <2>5 DEF Told
<1> HIDE DEF L, rows, a, D, w
<1>5. Paired(T, T) /\ (w => Firm(T, D)) BY <1>2 DEF StoreOK
<1> HIDE DEF T
<1>6. PICK m \in 0 .. Len(rows) - 1 : \/ journal' = SubSeq(rows, 1, m)
                                      \/ journal' = Append(SubSeq(rows, 1, m), Fragment)
  BY <1>1
<1> DEFINE q == SubSeq(rows, 1, m)
<1>7. Rebuilds(q, T, L.nextId, a) BY <1>2
<1> HIDE DEF q
<1>8. FileOK(q, Replay(q).nextId, a, D, w) /\ ~Torn(q) /\ q \in Seq(Rows)
  <2>1. L.nextId \in Nat BY <1>2
  <2> DEFINE n == L.nextId
  <2>2. n \in Nat /\ Rebuilds(q, T, n, a) BY <1>7, <2>1
  <2> HIDE DEF n
  <2>3. FileOK(q, Replay(q).nextId, a, D, w) BY <1>2, <1>5, <2>2, RebuildsFile
  <2> QED BY <1>7, <2>3 DEF Rebuilds
<1>9. FileOK(journal', Replay(journal').nextId, a, D, w)
  <2>1. CASE journal' = q BY <1>8, <2>1
  <2>2. CASE journal' = Append(q, Fragment)
    <3>1. Fragment \in Rows BY DEF Rows
    <3>2. AddRow(q, Fragment) = Append(q, Fragment) BY <1>8, <3>1, AddRowFacts
    <3> DEFINE b == Replay(q).nextId
    <3>3. FileOK(q, b, a, D, w) BY <1>8
    <3> HIDE DEF b
    <3>4. FileOK(AddRow(q, Fragment), b, a, D, w)
          /\ Replay(AddRow(q, Fragment)) = Replay(q)
      BY <3>3, FileTorn
    <3> QED BY <2>2, <3>2, <3>4 DEF b
  <2> QED BY <1>6, <2>1, <2>2 DEF q
<1>10. FileOK(journal', Replay(journal').nextId, hist'.appends, hist'.decided, hist'.shorts = 0)
  BY <1>4, <1>9 DEF w
<1>11. up = FALSE /\ store = EmptyStore /\ answer \in Answers \ {"accepted"}
  BY <1>1 DEF WalInv, Answers
<1> QED BY <1>1, <1>3, <1>4, <1>10, <1>11, DownAgain

(***************************************************************************)
(* The invariant.                                                          *)
(***************************************************************************)
LEMMA StopKeeps ==
  ASSUME WalInv, Stop
  PROVE  WalInv'
<1> DEFINE a == hist.appends
           D == hist.decided
           w == hist.shorts = 0
<1>1. /\ up /\ now' = now /\ up' = FALSE /\ store' = EmptyStore /\ answer' = "none"
      /\ journal' = journal /\ hist' = hist
  BY DEF Stop
<1>2. Told(hist) /\ now \in 0 .. MaxNow /\ hist.appends \in 0 .. MaxAppends BY InvFacts
<1>3. FileOK(journal, store.nextId, a, D, w) BY <1>1 DEF WalInv, Sound, Match
<1>4. a \in Nat /\ a <= a BY <1>2, BudgetAssumption
<1> HIDE DEF a, D, w
<1>5. FileOK(journal, Replay(journal).nextId, a, D, w)
  <2> DEFINE b == store.nextId
  <2>1. FileOK(journal, b, a, D, w) BY <1>3
  <2> HIDE DEF b
  <2> QED BY <1>4, <2>1, FileWider
<1>6. FileOK(journal', Replay(journal').nextId, hist'.appends, hist'.decided, hist'.shorts = 0)
  BY <1>1, <1>5 DEF a, D, w
<1>7. Told(hist') /\ answer' \in Answers \ {"accepted"} BY <1>1, <1>2 DEF Answers
<1> QED BY <1>1, <1>2, <1>6, <1>7, DownAgain

\* Nothing changes but the clock.
LEMMA LaterKeeps ==
  ASSUME WalInv, now' \in now .. MaxNow, UNCHANGED <<up, store, journal, answer, hist>>
  PROVE  WalInv'
<1>1. /\ up' = up /\ store' = store /\ journal' = journal /\ answer' = answer /\ hist' = hist
  OBVIOUS
<1>2. now \in 0 .. MaxNow BY InvFacts
<1>3. now \in Nat /\ now' \in Nat /\ now <= now' /\ now' \in 0 .. MaxNow
  BY <1>2, BudgetAssumption
<1>4. up' => Sound(store, journal, hist.appends, hist.decided, hist.shorts = 0)'
  <2> SUFFICES ASSUME up' PROVE Sound(store, journal, hist.appends, hist.decided, hist.shorts = 0)'
    OBVIOUS
  <2>1. Sound(store', journal', hist'.appends, hist'.decided, hist'.shorts = 0)
    BY <1>1 DEF WalInv
  <2> QED BY <1>3, <2>1, SoundLater
<1>5. ~up' => FileOK(journal, Replay(journal).nextId, hist.appends, hist.decided, hist.shorts = 0)'
  <2> SUFFICES ASSUME ~up'
               PROVE  FileOK(journal, Replay(journal).nextId, hist.appends, hist.decided,
                             hist.shorts = 0)'
    OBVIOUS
  <2>1. FileOK(journal', Replay(journal').nextId, hist'.appends, hist'.decided, hist'.shorts = 0)
    BY <1>1 DEF WalInv
  <2> QED BY <1>3, <2>1, FileLater
<1>6. up' /\ ~hist'.threw =>
         /\ Within(store'.sessions)
         /\ Shows(store'.sessions, Replay(journal').sessions, {})
         /\ Shows(Replay(journal').sessions, store'.sessions, {})
  BY <1>1 DEF WalInv
<1>7. /\ ~up' => store' = EmptyStore
      /\ answer' = "accepted" => up' /\ WithinBudgets(store'.sessions)
      /\ answer' \in {"none", "rejected", "accepted", "not_found", "marked", "threw"}
      /\ up' \in BOOLEAN /\ hist' \in Hist /\ hist'.decided \subseteq 1 .. hist'.appends
      /\ (hist'.shorts > 0 => hist'.threw)
      /\ \A r \in hist'.acked : r.content <= hist'.appends
      /\ up' => Covered(store', journal', Unacked(hist'), hist'.shorts)
  BY <1>1 DEF WalInv
<1> QED BY <1>3, <1>4, <1>5, <1>6, <1>7 DEF WalInv

LEMMA WalStarts == Init => WalInv
<1> SUFFICES ASSUME Init PROVE WalInv OBVIOUS
<1>1. PICK left \in Faults :
        hist = [acked |-> {}, decided |-> {}, appends |-> 0, marks |-> 0,
                starts |-> 0, left |-> left, threw |-> FALSE, shorts |-> 0]
  BY DEF Init
<1>2. now = 0 /\ up = FALSE /\ store = EmptyStore /\ journal = <<>> /\ answer = "none"
  BY DEF Init
<1>3. left \in [FaultKinds -> Nat] /\ now \in 0 .. MaxNow /\ MaxAppends \in Nat
      /\ MaxMarks \in Nat /\ MaxStarts \in Nat
  BY <1>2, BudgetAssumption, WalAssumption
<1>4. /\ hist \in Hist /\ hist.decided = {} /\ hist.appends = 0 /\ hist.shorts = 0
      /\ hist.acked = {}
  BY <1>1, <1>3 DEF Hist
<1>5. Replay(journal) = EmptyStore BY <1>2, ReplayOfNone
<1>6. EmptyStore.sessions = <<>> /\ EmptyStore.nextId = 1 BY DEF EmptyStore
<1>7. /\ <<>> \in Map /\ <<>> \in Loose /\ Touched(<<>>) /\ \A k : In(<<>>, k) = {}
  BY InEmpty, MapIsLoose
<1>8. journal \in Seq(Rows) BY <1>2, EmptySeq
<1>9. Side(<<>>, 1, 0) BY <1>7 DEF Side
<1>10. Paired(<<>>, <<>>) /\ Firm(<<>>, {}) BY <1>7 DEF Paired, Firm
<1>11. FileOK(journal, Replay(journal).nextId, hist.appends, hist.decided, hist.shorts = 0)
  BY <1>4, <1>5, <1>6, <1>7, <1>8, <1>9, <1>10 DEF FileOK
<1>12. /\ hist.decided \subseteq 1 .. hist.appends /\ ~(hist.shorts > 0)
       /\ up \in BOOLEAN /\ ~up /\ answer # "accepted"
       /\ answer \in {"none", "rejected", "accepted", "not_found", "marked", "threw"}
  <2>1. hist.decided \subseteq 1 .. hist.appends /\ ~(hist.shorts > 0) BY <1>4
  <2>2. up \in BOOLEAN /\ ~up BY <1>2
  <2>3. answer # "accepted"
        /\ answer \in {"none", "rejected", "accepted", "not_found", "marked", "threw"}
    BY <1>2
  <2> QED BY <2>1, <2>2, <2>3
<1>13. (\A r \in hist.acked : r.content <= hist.appends)
  BY <1>4
<1> QED BY <1>2, <1>3, <1>4, <1>11, <1>12, <1>13, Zenon DEF WalInv

LEMMA WalStep == WalInv /\ [Next]_wvars => WalInv'
<1> SUFFICES ASSUME WalInv, [Next]_wvars PROVE WalInv' OBVIOUS
<1>1. ASSUME NEW k \in Scopes, NEW size \in Sizes, NEW status \in NewStatuses,
             \/ AppendRejected(k, size, status)
             \/ AppendAccepted(k, size, status)
             \/ AppendFailed(k, size, status)
      PROVE  WalInv'
  BY <1>1, AppendRejectedKeeps, AppendAcceptedKeeps, AppendFailedKeeps
<1>2. ASSUME NEW k \in Scopes, NEW id \in KnownIds, NEW status \in Statuses,
             NEW purge \in BOOLEAN,
             \/ MarkNotFound(k, id, status, purge)
             \/ MarkAccepted(k, id, status, purge)
             \/ MarkFailed(k, id, status, purge)
      PROVE  WalInv'
  <2>1. id \in Nat \ {0} BY DEF KnownIds
  <2> QED BY <1>2, <2>1, MarkNotFoundKeeps, MarkAcceptedKeeps, MarkFailedKeeps
<1>3. CASE Start BY <1>3, StartKeeps
<1>4. CASE StartDies BY <1>4, StartDiesKeeps
<1>5. CASE Stop BY <1>5, StopKeeps
<1>6. now \in 0 .. MaxNow /\ now \in Nat BY InvFacts, BudgetAssumption
<1>7. CASE Tick
  <2>1. now < MaxNow /\ now' = now + 1 /\ UNCHANGED <<up, store, journal, answer, hist>>
    BY <1>7 DEF Tick, ClockTicks
  <2>2. now' \in now .. MaxNow BY <1>6, <2>1, BudgetAssumption
  <2> QED BY <2>1, <2>2, LaterKeeps
<1>8. CASE UNCHANGED wvars
  <2>1. now' = now /\ UNCHANGED <<up, store, journal, answer, hist>> BY <1>8 DEF wvars
  <2>2. now' \in now .. MaxNow BY <1>6, <2>1, BudgetAssumption
  <2> QED BY <2>1, <2>2, LaterKeeps
<1> QED BY <1>1, <1>2, <1>3, <1>4, <1>5, <1>7, <1>8 DEF Next

LEMMA WalInvariant == Spec => []WalInv
BY WalStarts, WalStep, PTL DEF Spec

(***************************************************************************)
(* What the invariant gives.                                               *)
(***************************************************************************)
LEMMA StoreShape ==
  ASSUME WalInv
  PROVE  /\ store.nextId \in Nat \ {0}
         /\ Side(store.sessions, store.nextId, hist.appends)
         /\ Paired(store.sessions, store.sessions)
         /\ hist.shorts = 0 => Firm(store.sessions, hist.decided)
         /\ journal \in Seq(Rows)
<1>1. CASE up BY <1>1 DEF WalInv, Sound, Match, StoreOK, FileOK
<1>2. CASE ~up
  <2>1. store.sessions = <<>> /\ store.nextId = 1 /\ journal \in Seq(Rows)
    BY <1>2 DEF WalInv, EmptyStore, FileOK
  <2>2. /\ <<>> \in Map /\ <<>> \in Loose /\ Touched(<<>>) /\ \A k : In(<<>>, k) = {}
    BY InEmpty, MapIsLoose
  <2> QED BY <2>1, <2>2 DEF Side, Paired, Firm
<1> QED BY <1>1, <1>2

\* The contents that await review are those of pending records.
LEMMA PendingMembers ==
  ASSUME NEW st, st.sessions \in Loose, NEW c
  PROVE  c \in PendingIn(st) <=>
            \E k \in Scopes : \E x \in In(st.sessions, k) :
                x.status \in Pending /\ x.exp > now /\ x.content = c
<1> DEFINE S == st.sessions
<1>1. c \in PendingIn(st) <=>
        \E s \in ToSet(S) : \E x \in ToSet(s.items) :
            x.status \in Pending /\ x.exp > now /\ x.content = c
  BY DEF PendingIn
<1> HIDE DEF S
<1>2. S \in Loose BY DEF S
<1>3. ASSUME NEW s \in ToSet(S), NEW x \in ToSet(s.items)
      PROVE  s.scope \in Scopes /\ x \in In(S, s.scope)
  <2>1. PICK i \in DOMAIN S : S[i] = s BY MapMembers
  <2> QED BY <1>2, <2>1, LooseFacts, InFacts
<1>4. ASSUME NEW k \in Scopes, NEW x \in In(S, k)
      PROVE  \E s \in ToSet(S) : x \in ToSet(s.items)
  <2>1. At(S, k) \in DOMAIN S /\ ItemsOf(S, k) = S[At(S, k)].items BY <1>2, <1>4, InFacts
  <2>2. S[At(S, k)] \in ToSet(S) BY <2>1, MapMembers
  <2> QED BY <2>1, <2>2 DEF In
<1>5. (\E s \in ToSet(S) : \E x \in ToSet(s.items) :
          x.status \in Pending /\ x.exp > now /\ x.content = c)
      <=> \E k \in Scopes : \E x \in In(S, k) :
          x.status \in Pending /\ x.exp > now /\ x.content = c
  BY <1>3, <1>4, Zenon
<1> QED BY <1>1, <1>5 DEF S

LEMMA WalInvTypes == WalInv => TypeOK
<1> SUFFICES ASSUME WalInv PROVE TypeOK OBVIOUS
<1> DEFINE S == store.sessions
           n == store.nextId
<1>1. /\ n \in Nat \ {0} /\ Side(S, n, hist.appends) /\ Paired(S, S) /\ journal \in Seq(Rows)
  BY StoreShape
<1>2. /\ now \in 0 .. MaxNow /\ up \in BOOLEAN /\ hist \in Hist
      /\ answer \in {"none", "rejected", "accepted", "not_found", "marked", "threw"}
  BY DEF WalInv
<1>3. S \in Loose /\ Touched(S) BY <1>1 DEF Side
<1> HIDE DEF S, n
<1>4. ASSUME NEW i \in DOMAIN S, NEW x \in ToSet(S[i].items)
      PROVE  /\ S[i].scope \in Scopes /\ x \in In(S, S[i].scope)
             /\ x \in Item /\ x.id \in Nat /\ x.id < n
  <2>1. S[i].scope \in Scopes /\ x \in In(S, S[i].scope) BY <1>3, LooseFacts, InFacts
  <2>2. x \in Entry /\ x.id \in 1 .. n - 1 BY <1>1, <2>1 DEF Side
  <2>3. x \in Item BY <2>2, EntryFacts
  <2> DEFINE m == x.id
  <2>4. m \in 1 .. n - 1 BY <2>2
  <2> HIDE DEF m
  <2>5. m \in Nat /\ m < n BY <1>1, <2>4
  <2> QED BY <2>1, <2>3, <2>5 DEF m
<1>5. ASSUME NEW s \in ToSet(S)
      PROVE  s.scope \in Scopes /\ s.at \in 0 .. now /\ ToSet(s.items) \subseteq Item
  <2>1. PICK i \in DOMAIN S : S[i] = s BY MapMembers
  <2>2. s.scope \in Scopes /\ s.at \in Nat BY <1>3, <2>1, LooseFacts
  <2>3. s.at <= now BY <1>3, <2>1 DEF Touched
  <2>4. s.at \in 0 .. now BY <1>2, <2>2, <2>3
  <2> QED BY <1>4, <2>1, <2>2, <2>4
<1>6. ToSet(journal) \subseteq Rows
  <2>1. DOMAIN journal = 1 .. Len(journal) /\ \A i \in 1 .. Len(journal) : journal[i] \in Rows
    BY <1>1, LenProperties
  <2> QED BY <2>1 DEF ToSet
<1>7. IdsUnique
  <2> SUFFICES ASSUME NEW i \in DOMAIN S, NEW j \in DOMAIN S,
                      NEW x \in DOMAIN S[i].items, NEW y \in DOMAIN S[j].items
               PROVE  LET a == S[i].items[x]
                          b == S[j].items[y]
                      IN  a.id < n /\ (a.id = b.id => i = j /\ x = y)
    BY DEF IdsUnique, S, n
  <2> DEFINE a == S[i].items[x]
             b == S[j].items[y]
  <2>1. a \in ToSet(S[i].items) /\ b \in ToSet(S[j].items) BY DEF ToSet
  <2> HIDE DEF a, b
  <2>2. /\ S[i].scope \in Scopes /\ a \in In(S, S[i].scope) /\ a.id \in Nat /\ a.id < n
        /\ S[j].scope \in Scopes /\ b \in In(S, S[j].scope) /\ b.id \in Nat
    BY <1>4, <2>1
  <2>3. ASSUME a.id = b.id PROVE i = j /\ x = y
    <3>1. S[i].scope = S[j].scope BY <1>1, <2>2, <2>3 DEF Paired
    <3>2. i = j BY <1>3, <3>1, LooseFacts DEF ScopesUnique
    <3>3. Sorted(S[i].items) /\ S[i].items \in Seq(Thing) BY <1>3, LooseFacts
    <3>4. x \in Int /\ y \in Int BY <3>2, <3>3, LenProperties
    <3>5. ~(x < y)
      <4>1. x < y => a.id < b.id BY <3>2, <3>3 DEF Sorted, a, b
      <4> QED BY <2>2, <2>3, <4>1
    <3>6. ~(y < x)
      <4>1. y < x => b.id < a.id BY <3>2, <3>3 DEF Sorted, a, b
      <4> QED BY <2>2, <2>3, <4>1
    <3> QED BY <3>2, <3>4, <3>5, <3>6
  <2> QED BY <2>2, <2>3 DEF a, b
<1> QED BY <1>1, <1>2, <1>5, <1>6, <1>7 DEF TypeOK, S, n

LEMMA WalInvDecided == WalInv => DecidedStaysDecided
<1> SUFFICES ASSUME WalInv, hist.shorts = 0, NEW c \in PendingIn(store), c \in hist.decided
             PROVE  FALSE
  BY DEF DecidedStaysDecided
<1>1. store.sessions \in Loose /\ Firm(store.sessions, hist.decided) BY StoreShape DEF Side
<1>2. PICK k \in Scopes : \E x \in In(store.sessions, k) :
         x.status \in Pending /\ x.exp > now /\ x.content = c
  BY <1>1, PendingMembers
<1> QED BY <1>1, <1>2 DEF Firm

\* What a map shows, the other one shows too.
LEMMA ShowsPending ==
  ASSUME NEW s, NEW t, NEW E, s.sessions \in Loose, t.sessions \in Loose,
         Shows(s.sessions, t.sessions, E),
         \A k \in Scopes : \A x \in In(s.sessions, k) : x \in Entry
  PROVE  PendingIn(s) \subseteq PendingIn(t) \cup E
<1> SUFFICES ASSUME NEW c \in PendingIn(s), c \notin E PROVE c \in PendingIn(t) OBVIOUS
<1>1. PICK k \in Scopes : \E x \in In(s.sessions, k) :
         x.status \in Pending /\ x.exp > now /\ x.content = c
  BY PendingMembers
<1>2. PICK x \in In(s.sessions, k) : x.status \in Pending /\ x.exp > now /\ x.content = c
  BY <1>1
<1>3. x.status # "expired" /\ x.content \notin E BY <1>2, PendingIsNotExpired, EntryFacts
<1>4. PICK y \in In(t.sessions, k) : Alike(x, y) BY <1>3 DEF Shows
<1>5. y.status \in Pending /\ y.exp > now /\ y.content = c BY <1>2, <1>4 DEF Alike, Same
<1> QED BY <1>5, PendingMembers

LEMMA WalInvAgrees == WalInv => ReplayAgrees
<1> SUFFICES ASSUME WalInv, up, ~hist.threw
             PROVE  PendingIn(Replay(journal)) = PendingIn(store)
  BY DEF ReplayAgrees
<1> DEFINE R == Replay(journal)
<1>1. /\ Shows(store.sessions, R.sessions, {}) /\ Shows(R.sessions, store.sessions, {})
  BY DEF WalInv
<1>2. /\ store.sessions \in Loose
      /\ \A k \in Scopes : \A x \in In(store.sessions, k) : x \in Entry
  BY StoreShape DEF Side
<1>3. FileOK(journal, store.nextId, hist.appends, hist.decided, hist.shorts = 0)
  BY DEF WalInv, Sound, Match
<1>4. R.sessions \in Loose /\ \A k \in Scopes : \A x \in In(R.sessions, k) : x \in Entry
  BY <1>3 DEF FileOK, Side
<1> HIDE DEF R
<1>5. PendingIn(store) \subseteq PendingIn(R) \cup {} BY <1>1, <1>2, <1>4, ShowsPending
<1>6. PendingIn(R) \subseteq PendingIn(store) \cup {} BY <1>1, <1>2, <1>4, ShowsPending
<1> QED BY <1>5, <1>6 DEF R

\* What was lost is among what was paid for.
LEMMA WalInvCosts == WalInv => ShortWriteCostsOne
<1> SUFFICES ASSUME WalInv, up PROVE Cardinality(Lost) <= hist.shorts
  BY DEF ShortWriteCostsOne
<1> DEFINE R == Replay(journal)
           E == Unacked(hist)
           A == {r.content : r \in hist.acked}
           s == hist.shorts
<1>1. s \in Nat /\ A \subseteq 1 .. MaxAppends /\ A \cap E = {}
  BY InvFacts DEF Unacked
<1>2. PICK X \in SUBSET (1 .. MaxAppends) :
         Costs(journal, X, s) /\ Shows(store.sessions, R.sessions, E \cup X)
  BY DEF WalInv, Covered
<1>3. /\ store.sessions \in Loose
      /\ \A k \in Scopes : \A x \in In(store.sessions, k) : x \in Entry
  BY StoreShape DEF Side
<1>4. FileOK(journal, store.nextId, hist.appends, hist.decided, hist.shorts = 0)
  BY DEF WalInv, Sound, Match
<1>5. R.sessions \in Loose BY <1>4 DEF FileOK, Side
<1>6. Lost = (A \cap PendingIn(store)) \ PendingIn(R) BY DEF Lost
<1> HIDE DEF R, E, A, s
<1>7. PendingIn(store) \subseteq PendingIn(R) \cup (E \cup X) BY <1>2, <1>3, <1>5, ShowsPending
<1>8. Lost \subseteq X BY <1>1, <1>6, <1>7
<1> DEFINE m == Cardinality(X)
           l == Cardinality(Lost)
<1>9. IsFiniteSet(X) /\ m \in Nat BY CostsFacts
<1>10. l \in Nat /\ l <= m BY <1>8, <1>9, FS_Subset, FS_CardinalityType
<1>11. m + (IF Torn(journal) THEN 1 ELSE 0) <= s BY <1>2 DEF Costs
<1> HIDE DEF m, l
<1>12. l <= s BY <1>1, <1>9, <1>10, <1>11
<1> QED BY <1>12 DEF l, s

\* The recovery store keeps its types whatever call fails and whenever the
\* process dies, and its ids stay distinct: the counter a replay restores is
\* past every record it brought back (applyWalRecord), so that a mark can only
\* mean one record.
THEOREM WalTypeCorrect == Spec => []TypeOK
BY WalInvariant, WalInvTypes, PTL

\* A record that a reviewer was told is out of the pending set is never
\* pending again, through any process death, failed write or half-written
\* compaction, as long as no write was cut short: each mark is journaled
\* before it is answered, and neither a trim, a replay nor a compaction undoes
\* it.
THEOREM DecidedStays == Spec => []DecidedStaysDecided
BY WalInvariant, WalInvDecided, PTL

\* While no write failed, the rows on disk would give back what the running
\* store shows a reader: the trims of an append journal what they shed before
\* the record of the append itself is written.
THEOREM ReplayAgreesAlways == Spec => []ReplayAgrees
BY WalInvariant, WalInvAgrees, PTL

\* An append is answered accepted only with the store within all its budgets,
\* whatever an earlier call that threw between two trims left behind.
THEOREM AnswersWithinBudgets == Spec => []AnsweredWithinBudgets
<1>1. WalInv => AnsweredWithinBudgets BY DEF WalInv, AnsweredWithinBudgets
<1> QED BY <1>1, WalInvariant, PTL

\* A write that was cut short takes at most one acknowledged record with it:
\* the row that continues its line is lost and no later one, and what the row
\* was to journal is one record, whatever rows a call writes after it.
THEOREM ShortWritesCostOneEach == Spec => []ShortWriteCostsOne
BY WalInvariant, WalInvCosts, PTL

=============================================================================
