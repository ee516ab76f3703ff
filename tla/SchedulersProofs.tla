-------------------------- MODULE SchedulersProofs --------------------------
(***************************************************************************)
(* Proofs about Schedulers, for any script, any delays and any number of   *)
(* events: ListScheduler, HeapScheduler and CalendarScheduler implement    *)
(* EventQueue (ListAndHeapRefinement, CalendarRefinement), and the         *)
(* calendar's bookkeeping stays true (ShapeKept).                          *)
(*                                                                         *)
(* The heap's loops are functions on their states.  LoopEnds proves once   *)
(* what a loop does that keeps an invariant and comes closer to its end;   *)
(* for each loop what remains is one round (RiseRound, SinkRound,          *)
(* ToRootRound).  The heap order is broken at one place only while a loop  *)
(* runs, and what holds there (Bridged) is that the entries below it are   *)
(* not earlier than the one above it.                                      *)
(*                                                                         *)
(* The calendar holds the list's events, each in the bucket of its time,   *)
(* with counters that match (GoodCal), and its cursor is at or before the  *)
(* bucket of every event (CalOK).  Rebuilding keeps the order of equal     *)
(* times because such events share a bucket (Resized); the year test of    *)
(* the search accepts exactly the events of the current year (ThisYear),   *)
(* so the head it stops at is the earliest event (HeadIsEarliest).         *)
(***************************************************************************)
EXTENDS Schedulers, SequenceTheorems, FiniteSetTheorems, NaturalsInduction,
        WellFoundedInduction, TLAPS

-----------------------------------------------------------------------------
(* Numbers *)

\* Every nonempty set of natural numbers has a least element.
LEMMA LeastNumber ==
    ASSUME NEW T \in SUBSET Nat, T # {}
    PROVE  \E x \in T : \A y \in T : x <= y
<1> DEFINE R == {ss \in Nat \X Nat : ss[1] < ss[2]}
<1>1. IsWellFoundedOn(R, Nat)
  BY NatLessThanWellFounded DEF OpToRel
<1>2. PICK x \in T : \A y \in T : ~(<<y, x>> \in R)
  BY <1>1, WFMin, Zenon
<1>3. ASSUME NEW y \in T PROVE ~(y < x)
  <2>1. <<y, x>> \in Nat \X Nat /\ <<y, x>>[1] = y /\ <<y, x>>[2] = x
    OBVIOUS
  <2> QED  BY <1>2, <2>1
<1> QED  BY <1>3

\* Induction on natural numbers, for the members of a set.
LEMMA InductionOnNat ==
    ASSUME NEW T, 0 \in T, \A n \in Nat : n \in T => n + 1 \in T
    PROVE  Nat \subseteq T
<1> SUFFICES ASSUME Nat \ T # {} PROVE FALSE
  OBVIOUS
<1>1. PICK x \in Nat \ T : \A y \in Nat \ T : x <= y
  BY LeastNumber
<1>2. x # 0 /\ x - 1 \in Nat
  BY <1>1
<1>3. x - 1 \in T
  BY <1>1, <1>2
<1> QED  BY <1>1, <1>2, <1>3

-----------------------------------------------------------------------------
(* Loops *)

\* The recursion that defines the rounds of a loop has a solution.
LEMMA RoundsDef ==
    ASSUME NEW S, NEW F \in [S -> S], NEW a \in S
    PROVE  Rounds(F, a) = [k \in Nat |-> IF k = 0 THEN a ELSE F[Rounds(F, a)[k - 1]]]
<1> DEFINE Solves(g, n) == /\ g \in [0 .. n -> S] /\ g[0] = a
                           /\ \A k \in 1 .. n : g[k] = F[g[k - 1]]
           T == {n \in Nat : \E g \in [0 .. n -> S] : Solves(g, n)}
<1>1. 0 \in T
  <2> DEFINE g == [k \in 0 .. 0 |-> a]
  <2>1. g \in [0 .. 0 -> S] /\ Solves(g, 0)
    OBVIOUS
  <2> HIDE DEF g
  <2> QED  BY <2>1
<1>2. ASSUME NEW n \in Nat, n \in T PROVE n + 1 \in T
  <2>1. PICK g \in [0 .. n -> S] : Solves(g, n)
    BY <1>2
  <2> DEFINE h == [k \in 0 .. n + 1 |-> IF k = n + 1 THEN F[g[n]] ELSE g[k]]
  <2>2. h \in [0 .. n + 1 -> S] /\ h[0] = a
    <3>1. g[n] \in S
      BY <2>1
    <3> QED  BY <2>1, <3>1
  <2>3. ASSUME NEW k \in 1 .. n + 1 PROVE h[k] = F[h[k - 1]]
    BY <2>1
  <2> HIDE DEF h
  <2>4. n + 1 \in Nat /\ Solves(h, n + 1)
    BY <2>2, <2>3
  <2> HIDE DEF Solves
  <2> QED  BY <2>2, <2>4
<1>3. Nat \subseteq T
  <2> HIDE DEF T
  <2> QED  BY <1>1, <1>2, InductionOnNat
<1>4. ASSUME NEW m \in Nat, NEW g, NEW h, NEW n \in Nat, n <= m, Solves(g, n), Solves(h, m)
      PROVE  g[n] = h[n]
  <2> DEFINE U == {k \in Nat : k <= n => g[k] = h[k]}
  <2>1. 0 \in U
    BY <1>4
  <2>2. ASSUME NEW k \in Nat, k \in U PROVE k + 1 \in U
    <3> SUFFICES ASSUME k + 1 <= n PROVE g[k + 1] = h[k + 1]
      OBVIOUS
    <3>1. g[k] = h[k] /\ k + 1 \in 1 .. n /\ k + 1 \in 1 .. m /\ (k + 1) - 1 = k
      BY <1>4, <2>2
    <3> QED  BY <1>4, <3>1
  <2>3. Nat \subseteq U
    <3> HIDE DEF U
    <3> QED  BY <2>1, <2>2, InductionOnNat
  <2> QED  BY <2>3
<1> DEFINE at(n) == CHOOSE g \in [0 .. n -> S] : Solves(g, n)
           f == [n \in Nat |-> at(n)[n]]
<1>5. ASSUME NEW n \in Nat PROVE Solves(at(n), n)
  BY <1>3
<1> HIDE DEF at
<1>6. f = [k \in Nat |-> IF k = 0 THEN a ELSE F[f[k - 1]]]
  <2>1. ASSUME NEW k \in Nat PROVE f[k] = IF k = 0 THEN a ELSE F[f[k - 1]]
    <3>1. CASE k = 0
      BY <1>5, <3>1
    <3>2. CASE k # 0
      <4>1. k - 1 \in Nat /\ k - 1 <= k /\ k \in 1 .. k
        BY <3>2
      <4>2. at(k)[k] = F[at(k)[k - 1]]
        BY <1>5, <4>1
      <4>3. at(k - 1)[k - 1] = at(k)[k - 1]
        <5> HIDE DEF Solves
        <5> QED  BY <1>4, <1>5, <4>1
      <4> QED  BY <3>2, <4>1, <4>2, <4>3
    <3> QED  BY <3>1, <3>2
  <2> QED  BY <2>1
<1> QED  BY <1>6 DEF Rounds

\* A loop that changes nothing once it is over, keeps an invariant until then
\* and comes closer to its end with each round is over after enough of them.
LEMMA LoopEnds ==
    ASSUME NEW S, NEW F \in [S -> S], NEW I \in SUBSET S, NEW O \in SUBSET S,
           NEW m \in [S -> Nat], NEW n \in Nat, NEW a \in I, m[a] <= n,
           \A s \in O : F[s] = s,
           \A s \in I \ O : F[s] \in I /\ m[F[s]] < m[s]
    PROVE  Rounds(F, a)[n] \in I \cap O
<1> DEFINE r == Rounds(F, a)
           T == {k \in Nat : r[k] \in I /\ (r[k] \in O \/ m[r[k]] + k <= n)}
<1>1. r = [k \in Nat |-> IF k = 0 THEN a ELSE F[r[k - 1]]]
  BY RoundsDef
<1> HIDE DEF r
<1>2. 0 \in T
  BY <1>1
<1>3. ASSUME NEW k \in Nat, k \in T PROVE k + 1 \in T
  <2>1. r[k + 1] = F[r[k]] /\ r[k] \in I /\ (r[k] \in O \/ m[r[k]] + k <= n)
    BY <1>1, <1>3
  <2>2. CASE r[k] \in O
    BY <2>1, <2>2
  <2>3. CASE r[k] \notin O
    <3>1. m[r[k]] \in Nat /\ F[r[k]] \in I /\ m[F[r[k]]] \in Nat /\ m[F[r[k]]] < m[r[k]]
      BY <2>1, <2>3
    <3> QED  BY <2>1, <2>3, <3>1
  <2> QED  BY <2>2, <2>3
<1>4. Nat \subseteq T
  <2> HIDE DEF T
  <2> QED  BY <1>2, <1>3, InductionOnNat
<1>5. r[n] \in I /\ (r[n] \in O \/ m[r[n]] + n <= n)
  BY <1>4
<1>6. r[n] \in O
  <2> SUFFICES ASSUME r[n] \in I \ O PROVE FALSE
    BY <1>5
  <2>1. m[r[n]] \in Nat /\ F[r[n]] \in I /\ m[F[r[n]]] \in Nat /\ m[F[r[n]]] < m[r[n]]
    OBVIOUS
  <2> QED  BY <1>5, <2>1
<1> QED  BY <1>5, <1>6 DEF r

-----------------------------------------------------------------------------
(* The order of the events *)

NotLater(e, f) == ~KEY_LESS_THAN(f, e)

\* KEY_LESS_THAN is a strict total order.
LEMMA KeyOrder ==
    ASSUME NEW e \in Event, NEW f \in Event
    PROVE  /\ KEY_LESS_THAN(e, f) => NotLater(e, f) /\ e # f
           /\ NotLater(e, f) /\ e # f => KEY_LESS_THAN(e, f)
           /\ NotLater(e, e)
           /\ \A g \in Event : NotLater(e, f) /\ NotLater(f, g) => NotLater(e, g)
<1>1. e.time \in Nat /\ e.uid \in Nat /\ f.time \in Nat /\ f.uid \in Nat
  BY DEF Event
<1>2. e.time = f.time /\ e.uid = f.uid => e = f
  BY DEF Event
<1>3. \A g \in Event : g.time \in Nat /\ g.uid \in Nat
  BY DEF Event
<1> QED  BY <1>1, <1>2, <1>3 DEF KEY_LESS_THAN, NotLater

-----------------------------------------------------------------------------
(* The heap *)

\* The parent of an entry comes before it.
LEMMA ParentIs ==
    ASSUME NEW j \in Nat, j > 1
    PROVE  /\ parent(j) \in Nat /\ 1 <= parent(j) /\ parent(j) < j
           /\ \A i \in Nat : parent(j) = i <=> j = 2 * i \/ j = 2 * i + 1
  BY DEF parent

Distinct(h, n) == \A i, j \in 1 .. n : h[i] = h[j] => i = j
\* The same entries in another order.
Shuffled(h, g, n) == Range(g) = Range(h) /\ (Distinct(h, n) => Distinct(g, n))
\* Every entry but those at the positions in X is not earlier than its parent.
OrderedBut(h, n, X) == \A j \in 2 .. n : j \notin X => NotLater(h[parent(j)], h[j])
\* The children of the entry at i are not earlier than its parent.
Bridged(h, n, i) == i > 1 => \A j \in 2 .. n : parent(j) = i => NotLater(h[parent(i)], h[j])

LEMMA InRange ==
    ASSUME NEW h, NEW n, DOMAIN h = 1 .. n
    PROVE  \A x : x \in Range(h) <=> \E k \in 1 .. n : x = h[k]
  BY DEF Range

\* Two entries are exchanged.
LEMMA SwapIs ==
    ASSUME NEW n \in Nat, NEW h \in [1 .. n -> Event], NEW i \in 1 .. n, NEW j \in 1 .. n
    PROVE  /\ swap(h, i, j) \in [1 .. n -> Event]
           /\ swap(h, i, j)[i] = h[j] /\ swap(h, i, j)[j] = h[i]
           /\ \A k \in 1 .. n : k # i /\ k # j => swap(h, i, j)[k] = h[k]
           /\ Shuffled(h, swap(h, i, j), n)
<1> DEFINE g == swap(h, i, j)
<1>1. /\ g \in [1 .. n -> Event] /\ g[i] = h[j] /\ g[j] = h[i]
      /\ \A k \in 1 .. n : k # i /\ k # j => g[k] = h[k]
  BY DEF swap
<1> HIDE DEF g
<1>2. Range(g) = Range(h)
  <2>1. \A k \in 1 .. n : \E m \in 1 .. n : g[k] = h[m]
    BY <1>1
  <2>2. \A k \in 1 .. n : \E m \in 1 .. n : h[k] = g[m]
    BY <1>1
  <2>3. DOMAIN g = 1 .. n /\ DOMAIN h = 1 .. n
    BY <1>1
  <2>4. Range(g) \subseteq Range(h)
    <3> SUFFICES ASSUME NEW x \in Range(g) PROVE x \in Range(h)
      OBVIOUS
    <3>1. PICK k \in 1 .. n : x = g[k]
      BY <2>3, InRange
    <3>2. PICK m \in 1 .. n : g[k] = h[m]
      BY <2>1
    <3> QED  BY <2>3, <3>1, <3>2, InRange
  <2>5. Range(h) \subseteq Range(g)
    <3> SUFFICES ASSUME NEW x \in Range(h) PROVE x \in Range(g)
      OBVIOUS
    <3>1. PICK k \in 1 .. n : x = h[k]
      BY <2>3, InRange
    <3>2. PICK m \in 1 .. n : h[k] = g[m]
      BY <2>2
    <3> QED  BY <2>3, <3>1, <3>2, InRange
  <2> QED  BY <2>4, <2>5
<1>3. Distinct(h, n) => Distinct(g, n)
  BY <1>1 DEF Distinct
<1> QED  BY <1>1, <1>2, <1>3 DEF g, Shuffled

LEMMA ShuffledAgain ==
    ASSUME NEW f, NEW g, NEW h, NEW n, Shuffled(f, g, n), Shuffled(g, h, n)
    PROVE  Shuffled(f, h, n)
  BY DEF Shuffled

\* The states of a loop.
LEMMA PlaceIs ==
    ASSUME NEW n, NEW s \in Places(n)
    PROVE  s[1] \in [1 .. n -> Event] /\ s[2] \in 1 .. n
  BY DEF Places

\* A round that exchanges two entries and goes on with the other one.
LEMMA SwapPlace ==
    ASSUME NEW n \in Nat, NEW s \in Places(n), NEW j \in 1 .. n, NEW t,
           t = <<swap(s[1], s[2], j), j>>
    PROVE  /\ t \in Places(n) /\ t[1] = swap(s[1], s[2], j) /\ t[2] = j
           /\ \A h : Shuffled(h, s[1], n) => Shuffled(h, t[1], n)
<1> DEFINE f == s[1]
           i == s[2]
<1>1. f \in [1 .. n -> Event] /\ i \in 1 .. n
  BY PlaceIs
<1> HIDE DEF f, i
<1>2. swap(f, i, j) \in [1 .. n -> Event] /\ Shuffled(f, swap(f, i, j), n)
  BY <1>1, SwapIs
<1> DEFINE g == swap(f, i, j)
<1>3. t = <<g, j>>
  BY DEF f, i
<1> HIDE DEF g
<1>4. t \in Places(n) /\ t[1] = g /\ t[2] = j
  BY <1>2, <1>3 DEF Places, g
<1>5. ASSUME NEW h, Shuffled(h, f, n) PROVE Shuffled(h, g, n)
  BY <1>2, <1>5, ShuffledAgain DEF g
<1> QED  BY <1>4, <1>5 DEF f, g, i

\* A round of heap_insert()'s loop: everything is ordered but the entry that rises.
LEMMA RiseRound ==
    ASSUME NEW n \in Nat, NEW h \in [1 .. n -> Event], NEW i \in 2 .. n,
           OrderedBut(h, n, {i}), Bridged(h, n, i), KEY_LESS_THAN(h[i], h[parent(i)])
    PROVE  /\ OrderedBut(swap(h, i, parent(i)), n, {parent(i)})
           /\ Bridged(swap(h, i, parent(i)), n, parent(i))
<1> DEFINE p == parent(i)
           g == swap(h, i, p)
<1>1. p \in 1 .. n /\ p < i
  BY ParentIs
<1>2. \A j \in 2 .. n : parent(j) \in 1 .. n /\ parent(j) < j
  BY ParentIs
<1> HIDE DEF p
<1>3. /\ g \in [1 .. n -> Event] /\ g[i] = h[p] /\ g[p] = h[i]
      /\ \A k \in 1 .. n : k # i /\ k # p => g[k] = h[k]
  BY <1>1, SwapIs
<1> HIDE DEF g
<1>4. \A k \in 1 .. n : h[k] \in Event /\ g[k] \in Event
  BY <1>3
<1>5. NotLater(h[i], h[p])
  BY <1>1, <1>4, KeyOrder DEF p
<1>6. ASSUME NEW j \in 2 .. n, j # p
      PROVE  NotLater(g[parent(j)], g[j])
  <2>1. CASE j = i
    BY <1>3, <1>5, <2>1 DEF p
  <2>2. CASE j # i /\ parent(j) = i
    BY <1>2, <1>3, <1>6, <2>2 DEF Bridged, p
  <2>3. CASE j # i /\ parent(j) = p
    <3>1. NotLater(h[p], h[j])
      BY <2>3 DEF OrderedBut
    <3>2. NotLater(h[i], h[j])
      BY <1>1, <1>4, <1>5, <3>1, KeyOrder
    <3> QED  BY <1>3, <1>6, <2>3, <3>2
  <2>4. CASE j # i /\ parent(j) # i /\ parent(j) # p
    BY <1>2, <1>3, <1>6, <2>4 DEF OrderedBut
  <2> QED  BY <2>1, <2>2, <2>3, <2>4
<1>7. ASSUME p > 1, NEW j \in 2 .. n, parent(j) = p
      PROVE  NotLater(g[parent(p)], g[j])
  <2>1. parent(p) \in 1 .. n /\ parent(p) < p /\ p \in 2 .. n
    BY <1>1, <1>2, <1>7
  <2>2. NotLater(h[parent(p)], h[p]) /\ g[parent(p)] = h[parent(p)]
    BY <1>1, <1>3, <2>1 DEF OrderedBut
  <2>3. CASE j = i
    BY <1>3, <2>2, <2>3
  <2>4. CASE j # i
    <3>1. NotLater(h[p], h[j]) /\ j # p
      BY <1>2, <1>7, <2>4 DEF OrderedBut
    <3>2. NotLater(h[parent(p)], h[j])
      BY <1>1, <1>4, <2>1, <2>2, <3>1, KeyOrder
    <3> QED  BY <1>3, <2>2, <2>4, <3>1, <3>2
  <2> QED  BY <2>3, <2>4
<1>8. OrderedBut(g, n, {p}) /\ Bridged(g, n, p)
  BY <1>6, <1>7 DEF OrderedBut, Bridged
<1> QED  BY <1>8 DEF g, p

\* The loop of heap_insert() leaves an ordered heap of the same entries.
LEMMA RiseSettles ==
    ASSUME NEW n \in Nat \ {0}, NEW h \in [1 .. n -> Event], OrderedBut(h, n, {n})
    PROVE  /\ Rounds(Rise(n), <<h, n>>)[n][1] \in [1 .. n -> Event]
           /\ OrderedBut(Rounds(Rise(n), <<h, n>>)[n][1], n, {})
           /\ Shuffled(h, Rounds(Rise(n), <<h, n>>)[n][1], n)
<1> DEFINE S == Places(n)
           F == Rise(n)
           a == <<h, n>>
           m == [s \in S |-> s[2]]
           O == {s \in S : s[2] = 1 \/ NotLater(s[1][parent(s[2])], s[1][s[2]])}
           I == {s \in S : /\ Shuffled(h, s[1], n) /\ OrderedBut(s[1], n, {s[2]})
                           /\ Bridged(s[1], n, s[2])}
<1>1. ASSUME NEW s \in O PROVE F[s] = s
  BY PlaceIs DEF Rise, NotLater
<1>2. ASSUME NEW s \in S \ O
      PROVE  /\ s[2] \in 2 .. n /\ KEY_LESS_THAN(s[1][s[2]], s[1][parent(s[2])])
             /\ parent(s[2]) \in 1 .. n /\ parent(s[2]) < s[2]
             /\ F[s] = <<swap(s[1], s[2], parent(s[2])), parent(s[2])>>
  <2>1. s[2] \in 2 .. n /\ KEY_LESS_THAN(s[1][s[2]], s[1][parent(s[2])])
    BY PlaceIs DEF NotLater
  <2>2. F[s] = <<swap(s[1], s[2], parent(s[2])), parent(s[2])>>
    BY <2>1 DEF Rise
  <2> QED  BY <2>1, <2>2, ParentIs
<1>3. F \in [S -> S]
  <2>1. ASSUME NEW s \in S PROVE F[s] \in S
    <3>1. CASE s \in O
      BY <1>1, <3>1
    <3>2. CASE s \notin O
      <4> DEFINE t == F[s]
                 p == parent(s[2])
      <4>1. p \in 1 .. n /\ t = <<swap(s[1], s[2], p), p>>
        BY <1>2, <3>2
      <4> HIDE DEF t, p
      <4> QED  BY <4>1, SwapPlace DEF t
    <3> QED  BY <3>1, <3>2
  <2> QED  BY <2>1 DEF Rise
<1>4. ASSUME NEW s \in I \ O PROVE F[s] \in I /\ m[F[s]] < m[s]
  <2> DEFINE g == s[1]
             i == s[2]
             p == parent(s[2])
  <2>1. /\ g \in [1 .. n -> Event] /\ i \in 2 .. n /\ p = parent(i) /\ KEY_LESS_THAN(g[i], g[p])
        /\ p \in 1 .. n /\ p < i /\ F[s] = <<swap(g, i, p), p>>
    BY <1>2, PlaceIs
  <2>2. Shuffled(h, g, n) /\ OrderedBut(g, n, {i}) /\ Bridged(g, n, i)
    OBVIOUS
  <2>3. F[s] \in S /\ F[s][1] = swap(g, i, p) /\ F[s][2] = p /\ Shuffled(h, F[s][1], n)
    <3> DEFINE t == F[s]
    <3>1. t = <<swap(s[1], s[2], p), p>> /\ s \in S /\ n \in Nat /\ p \in 1 .. n
      BY <2>1
    <3>2. Shuffled(h, s[1], n)
      BY <2>2
    <3> HIDE DEF p, t, I, O
    <3>3. /\ t \in S /\ t[1] = swap(s[1], s[2], p) /\ t[2] = p
          /\ Shuffled(h, s[1], n) => Shuffled(h, t[1], n)
      BY <3>1, SwapPlace
    <3> QED  BY <3>2, <3>3 DEF t
  <2> HIDE DEF g, i, p, F
  <2>4. OrderedBut(swap(g, i, p), n, {p}) /\ Bridged(swap(g, i, p), n, p)
    BY <2>1, <2>2, RiseRound
  <2>5. F[s] \in I
    BY <2>3, <2>4
  <2> QED  BY <2>1, <2>3, <2>5 DEF i
<1>5. a \in I /\ m[a] <= n
  <2>1. Shuffled(h, h, n) /\ Bridged(h, n, n)
    BY ParentIs DEF Shuffled, Bridged
  <2>2. a \in S /\ a[1] = h /\ a[2] = n
    BY DEF Places
  <2> QED  BY <2>1, <2>2
<1> DEFINE r == Rounds(F, a)[n]
<1>6. r \in I \cap O
  <2>1. m \in [S -> Nat] /\ I \in SUBSET S /\ O \in SUBSET S
    BY PlaceIs
  <2> HIDE DEF F, S, O, I, m, a
  <2> QED  BY <1>1, <1>3, <1>4, <1>5, <2>1, LoopEnds
<1> HIDE DEF r
<1>7. r[1] \in [1 .. n -> Event] /\ r[2] \in 1 .. n
  BY <1>6, PlaceIs
<1>8. r[1] \in [1 .. n -> Event] /\ Shuffled(h, r[1], n) /\ OrderedBut(r[1], n, {})
  BY <1>6, <1>7 DEF OrderedBut
<1> QED  BY <1>8 DEF r

\* Every entry but those below i is not earlier than its parent.
OrderedBelow(h, n, i) == \A j \in 2 .. n : parent(j) # i => NotLater(h[parent(j)], h[j])

\* The array of a heap is a sequence.
LEMMA HeapIsSeq ==
    ASSUME NEW n \in Nat, NEW h
    PROVE  h \in [1 .. n -> Event] <=> h \in Seq(Event) /\ Len(h) = n
<1>1. ASSUME h \in [1 .. n -> Event] PROVE h \in Seq(Event)
  BY <1>1
<1>2. ASSUME h \in [1 .. n -> Event], h \in Seq(Event) PROVE Len(h) = n
  BY <1>2
<1>3. ASSUME h \in Seq(Event), Len(h) = n PROVE h \in [1 .. n -> Event]
  BY <1>3
<1> QED  BY <1>1, <1>2, <1>3

\* heap_extract_min() compares an entry with the earlier of its children.
LEMMA ChildIs ==
    ASSUME NEW n \in Nat, NEW h \in [1 .. n -> Event], NEW i \in 1 .. n
    PROVE  /\ Child(h, i) \in 1 .. n
           /\ Child(h, i) # i => Child(h, i) > i /\ parent(Child(h, i)) = i
           /\ \A j \in 2 .. n : parent(j) = i => Child(h, i) # i /\ NotLater(h[Child(h, i)], h[j])
<1>1. Len(h) = n
  BY HeapIsSeq
<1>2. \A j \in 2 .. n : parent(j) = i <=> j = 2 * i \/ j = 2 * i + 1
  BY ParentIs
<1>3. \A k \in 1 .. n : h[k] \in Event
  OBVIOUS
<1>4. CASE 2 * i + 1 <= n
  <2> DEFINE l == 2 * i
             r == 2 * i + 1
  <2>1. Child(h, i) = IF KEY_LESS_THAN(h[l], h[r]) THEN l ELSE r
    BY <1>1, <1>4 DEF Child
  <2>2. l \in 2 .. n /\ r \in 2 .. n /\ l > i /\ r > i
    BY <1>4
  <2>3. parent(l) = i /\ parent(r) = i
    BY <1>2, <2>2
  <2>4. \A j \in 2 .. n : parent(j) = i => j = l \/ j = r
    BY <1>2
  <2> HIDE DEF l, r
  <2>5. CASE KEY_LESS_THAN(h[l], h[r])
    BY <1>3, <2>1, <2>2, <2>3, <2>4, <2>5, KeyOrder
  <2>6. CASE ~KEY_LESS_THAN(h[l], h[r])
    BY <1>3, <2>1, <2>2, <2>3, <2>4, <2>6, KeyOrder DEF NotLater
  <2> QED  BY <2>5, <2>6
<1>5. CASE 2 * i = n
  <2>1. Child(h, i) = n
    BY <1>1, <1>5 DEF Child
  <2>2. n \in 2 .. n /\ parent(n) = i /\ \A j \in 2 .. n : parent(j) = i => j = n
    BY <1>2, <1>5
  <2> QED  BY <1>3, <1>5, <2>1, <2>2, KeyOrder
<1>6. CASE 2 * i > n
  <2>1. Child(h, i) = i
    BY <1>1, <1>6 DEF Child
  <2> QED  BY <1>2, <1>6, <2>1
<1> QED  BY <1>4, <1>5, <1>6

\* A round of Heapify: everything is ordered but the children of the entry that sinks.
LEMMA SinkRound ==
    ASSUME NEW n \in Nat, NEW h \in [1 .. n -> Event], NEW i \in 1 .. n, NEW x \in 2 .. n,
           OrderedBelow(h, n, i), Bridged(h, n, i),
           x > i, parent(x) = i, \A j \in 2 .. n : parent(j) = i => NotLater(h[x], h[j]),
           KEY_LESS_THAN(h[x], h[i])
    PROVE  OrderedBelow(swap(h, i, x), n, x) /\ Bridged(swap(h, i, x), n, x)
<1> DEFINE g == swap(h, i, x)
<1>1. \A j \in 2 .. n : parent(j) \in 1 .. n /\ parent(j) < j
  BY ParentIs
<1>2. /\ g \in [1 .. n -> Event] /\ g[i] = h[x] /\ g[x] = h[i]
      /\ \A k \in 1 .. n : k # i /\ k # x => g[k] = h[k]
  BY SwapIs
<1> HIDE DEF g
<1>3. NotLater(h[x], h[i])
  BY KeyOrder
<1>4. ASSUME NEW j \in 2 .. n, parent(j) # x PROVE NotLater(g[parent(j)], g[j])
  <2>1. CASE j = x
    BY <1>2, <1>3, <2>1
  <2>2. CASE j # x /\ parent(j) = i
    BY <1>1, <1>2, <2>2
  <2>3. CASE j = i
    <3>1. NotLater(h[parent(i)], h[x]) /\ parent(i) \in 1 .. n /\ parent(i) < i
      BY <1>1, <2>3 DEF Bridged
    <3> QED  BY <1>2, <2>3, <3>1
  <2>4. CASE j # x /\ j # i /\ parent(j) # i
    BY <1>1, <1>2, <1>4, <2>4 DEF OrderedBelow
  <2> QED  BY <2>1, <2>2, <2>3, <2>4
<1>5. ASSUME NEW j \in 2 .. n, parent(j) = x PROVE NotLater(g[parent(x)], g[j])
  <2>1. NotLater(h[x], h[j]) /\ j > x
    BY <1>1, <1>5 DEF OrderedBelow
  <2> QED  BY <1>2, <2>1
<1>6. OrderedBelow(g, n, x) /\ Bridged(g, n, x)
  BY <1>4, <1>5 DEF OrderedBelow, Bridged
<1> QED  BY <1>6 DEF g

\* Heapify leaves an ordered heap of the same entries.
LEMMA SinkSettles ==
    ASSUME NEW n \in Nat \ {0}, NEW h \in [1 .. n -> Event], OrderedBelow(h, n, 1)
    PROVE  /\ Rounds(Sink(n), <<h, 1>>)[n][1] \in [1 .. n -> Event]
           /\ OrderedBut(Rounds(Sink(n), <<h, 1>>)[n][1], n, {})
           /\ Shuffled(h, Rounds(Sink(n), <<h, 1>>)[n][1], n)
<1> DEFINE S == Places(n)
           F == Sink(n)
           a == <<h, 1>>
           x(s) == Child(s[1], s[2])
           m == [s \in S |-> n - (s[2] - 1)]
           O == {s \in S : x(s) = s[2] \/ NotLater(s[1][s[2]], s[1][x(s)])}
           I == {s \in S : /\ Shuffled(h, s[1], n) /\ OrderedBelow(s[1], n, s[2])
                           /\ Bridged(s[1], n, s[2])}
<1>1. ASSUME NEW s \in O PROVE F[s] = s
  BY DEF Sink, NotLater
<1>2. ASSUME NEW s \in S \ O
      PROVE  /\ x(s) \in 2 .. n /\ KEY_LESS_THAN(s[1][x(s)], s[1][s[2]])
             /\ x(s) > s[2] /\ parent(x(s)) = s[2]
             /\ \A j \in 2 .. n : parent(j) = s[2] => NotLater(s[1][x(s)], s[1][j])
             /\ F[s] = <<swap(s[1], s[2], x(s)), x(s)>>
  <2>1. x(s) # s[2] /\ KEY_LESS_THAN(s[1][x(s)], s[1][s[2]])
    BY DEF NotLater
  <2>2. F[s] = <<swap(s[1], s[2], x(s)), x(s)>>
    BY <2>1 DEF Sink
  <2> DEFINE g == s[1]
             i == s[2]
  <2>3. g \in [1 .. n -> Event] /\ i \in 1 .. n
    BY PlaceIs
  <2> HIDE DEF g, i
  <2>4. /\ Child(g, i) \in 1 .. n
        /\ Child(g, i) # i => Child(g, i) > i /\ parent(Child(g, i)) = i
        /\ \A j \in 2 .. n : parent(j) = i => NotLater(g[Child(g, i)], g[j])
    BY <2>3, ChildIs, ZenonT(40)
  <2> QED  BY <2>1, <2>2, <2>3, <2>4 DEF g, i
<1>3. F \in [S -> S]
  <2>1. ASSUME NEW s \in S PROVE F[s] \in S
    <3>1. CASE s \in O
      BY <1>1, <3>1
    <3>2. CASE s \notin O
      <4> DEFINE t == F[s]
                 p == x(s)
      <4>1. p \in 1 .. n /\ t = <<swap(s[1], s[2], p), p>>
        BY <1>2, <3>2
      <4> HIDE DEF t, p
      <4> QED  BY <4>1, SwapPlace DEF t
    <3> QED  BY <3>1, <3>2
  <2> QED  BY <2>1 DEF Sink
<1>4. ASSUME NEW s \in I \ O PROVE F[s] \in I /\ m[F[s]] < m[s]
  <2> DEFINE g == s[1]
             i == s[2]
             p == x(s)
  <2>1. /\ g \in [1 .. n -> Event] /\ i \in 1 .. n /\ p \in 2 .. n /\ KEY_LESS_THAN(g[p], g[i])
        /\ p > i /\ parent(p) = i /\ F[s] = <<swap(g, i, p), p>>
        /\ \A j \in 2 .. n : parent(j) = i => NotLater(g[p], g[j])
    BY <1>2, PlaceIs
  <2>2. Shuffled(h, g, n) /\ OrderedBelow(g, n, i) /\ Bridged(g, n, i)
    OBVIOUS
  <2>3. F[s] \in S /\ F[s][1] = swap(g, i, p) /\ F[s][2] = p /\ Shuffled(h, F[s][1], n)
    <3> DEFINE t == F[s]
    <3>1. t = <<swap(s[1], s[2], p), p>> /\ s \in S /\ n \in Nat /\ p \in 1 .. n
      BY <2>1
    <3>2. Shuffled(h, s[1], n)
      BY <2>2
    <3> HIDE DEF p, t, I, O
    <3>3. /\ t \in S /\ t[1] = swap(s[1], s[2], p) /\ t[2] = p
          /\ Shuffled(h, s[1], n) => Shuffled(h, t[1], n)
      BY <3>1, SwapPlace
    <3> QED  BY <3>2, <3>3 DEF t
  <2> HIDE DEF g, i, p, F
  <2>4. OrderedBelow(swap(g, i, p), n, p) /\ Bridged(swap(g, i, p), n, p)
    BY <2>1, <2>2, SinkRound
  <2>5. F[s] \in I
    BY <2>3, <2>4
  <2>6. m[F[s]] = n - (p - 1) /\ m[s] = n - (i - 1)
    BY <2>3 DEF i
  <2> QED  BY <2>1, <2>5, <2>6
<1>5. a \in I /\ m[a] <= n
  <2>1. Shuffled(h, h, n) /\ Bridged(h, n, 1)
    BY DEF Shuffled, Bridged
  <2>2. a \in S /\ a[1] = h /\ a[2] = 1
    BY DEF Places
  <2> QED  BY <2>1, <2>2
<1> DEFINE r == Rounds(F, a)[n]
<1>6. r \in I \cap O
  <2>1. m \in [S -> Nat] /\ I \in SUBSET S /\ O \in SUBSET S
    BY PlaceIs
  <2> HIDE DEF F, S, O, I, m, a
  <2> QED  BY <1>1, <1>3, <1>4, <1>5, <2>1, LoopEnds
<1> HIDE DEF r
<1>7. r[1] \in [1 .. n -> Event] /\ r[2] \in 1 .. n
  BY <1>6, PlaceIs
<1>8. r[1] \in [1 .. n -> Event] /\ Shuffled(h, r[1], n) /\ OrderedBut(r[1], n, {})
  <2> DEFINE g == r[1]
             i == r[2]
             p == Child(g, i)
  <2>1. g \in [1 .. n -> Event] /\ i \in 1 .. n
    BY <1>7
  <2>2. p = i \/ NotLater(g[i], g[p])
    BY <1>6
  <2>3. Shuffled(h, g, n) /\ OrderedBelow(g, n, i)
    BY <1>6
  <2> HIDE DEF g, i
  <2>4. p \in 1 .. n /\ \A j \in 2 .. n : parent(j) = i => p # i /\ NotLater(g[p], g[j])
    BY <2>1, ChildIs
  <2> HIDE DEF p
  <2>5. ASSUME NEW j \in 2 .. n, parent(j) = i PROVE NotLater(g[parent(j)], g[j])
    <3>1. NotLater(g[i], g[p]) /\ NotLater(g[p], g[j])
      BY <2>2, <2>4, <2>5
    <3>2. g[i] \in Event /\ g[p] \in Event /\ g[j] \in Event
      BY <2>1, <2>4
    <3> QED  BY <2>5, <3>1, <3>2, KeyOrder
  <2>6. OrderedBut(g, n, {})
    BY <2>3, <2>5 DEF OrderedBut, OrderedBelow
  <2> QED  BY <2>1, <2>3, <2>6 DEF g
<1> QED  BY <1>8 DEF r

\* Every entry but the one at i and those below it is not earlier than its parent.
OrderedAround(h, n, i) ==
    \A j \in 2 .. n : j # i /\ parent(j) # i => NotLater(h[parent(j)], h[j])

\* A round of heap_delete()'s loop: nothing is known of the entry that goes up.
LEMMA ToRootRound ==
    ASSUME NEW n \in Nat, NEW h \in [1 .. n -> Event], NEW i \in 2 .. n, NEW p, p = parent(i),
           OrderedAround(h, n, i), Bridged(h, n, i)
    PROVE  OrderedAround(swap(h, i, p), n, p) /\ Bridged(swap(h, i, p), n, p)
<1> DEFINE g == swap(h, i, p)
<1>1. \A j \in 2 .. n : parent(j) \in 1 .. n /\ parent(j) < j
  BY ParentIs
<1>2. /\ g \in [1 .. n -> Event] /\ g[i] = h[p] /\ g[p] = h[i] /\ p \in 1 .. n /\ p < i
      /\ \A k \in 1 .. n : k # i /\ k # p => g[k] = h[k]
  BY <1>1, SwapIs
<1> HIDE DEF g
<1>3. ASSUME NEW j \in 2 .. n, j # p, parent(j) # p PROVE NotLater(g[parent(j)], g[j])
  <2>1. CASE parent(j) = i
    BY <1>1, <1>2, <1>3, <2>1 DEF Bridged
  <2>2. CASE parent(j) # i
    BY <1>1, <1>2, <1>3, <2>2 DEF OrderedAround
  <2> QED  BY <2>1, <2>2
<1>4. ASSUME p > 1, NEW j \in 2 .. n, parent(j) = p PROVE NotLater(g[parent(p)], g[j])
  <2>1. p \in 2 .. n /\ parent(p) \in 1 .. n /\ parent(p) < p
    BY <1>1, <1>2, <1>4
  <2>2. NotLater(h[parent(p)], h[p]) /\ g[parent(p)] = h[parent(p)]
    BY <1>2, <2>1 DEF OrderedAround
  <2>3. CASE j = i
    BY <1>2, <2>2, <2>3
  <2>4. CASE j # i
    <3>1. NotLater(h[p], h[j]) /\ g[j] = h[j]
      BY <1>1, <1>2, <1>4, <2>4 DEF OrderedAround
    <3>2. h[parent(p)] \in Event /\ h[p] \in Event /\ h[j] \in Event
      BY <1>2, <2>1
    <3> QED  BY <2>2, <3>1, <3>2, KeyOrder
  <2> QED  BY <2>3, <2>4
<1>5. OrderedAround(g, n, p) /\ Bridged(g, n, p)
  BY <1>3, <1>4 DEF OrderedAround, Bridged
<1> QED  BY <1>5 DEF g

\* heap_delete()'s loop brings the entry to the root; the rest stays ordered.
LEMMA ToRootSettles ==
    ASSUME NEW n \in Nat \ {0}, NEW h \in [1 .. n -> Event], NEW c \in 1 .. n, OrderedBut(h, n, {})
    PROVE  /\ Rounds(ToRoot(n), <<h, c>>)[n][1] \in [1 .. n -> Event]
           /\ Rounds(ToRoot(n), <<h, c>>)[n][1][1] = h[c]
           /\ OrderedBelow(Rounds(ToRoot(n), <<h, c>>)[n][1], n, 1)
           /\ Shuffled(h, Rounds(ToRoot(n), <<h, c>>)[n][1], n)
<1> DEFINE S == Places(n)
           F == ToRoot(n)
           a == <<h, c>>
           m == [s \in S |-> s[2]]
           O == {s \in S : s[2] = 1}
           I == {s \in S : /\ Shuffled(h, s[1], n) /\ OrderedAround(s[1], n, s[2])
                           /\ Bridged(s[1], n, s[2]) /\ s[1][s[2]] = h[c]}
<1>1. ASSUME NEW s \in O PROVE F[s] = s
  BY DEF ToRoot
<1>2. ASSUME NEW s \in S \ O
      PROVE  /\ s[2] \in 2 .. n /\ parent(s[2]) \in 1 .. n /\ parent(s[2]) < s[2]
             /\ F[s] = <<swap(s[1], s[2], parent(s[2])), parent(s[2])>>
  <2>1. s[2] \in 2 .. n
    BY PlaceIs
  <2>2. F[s] = <<swap(s[1], s[2], parent(s[2])), parent(s[2])>>
    BY <2>1 DEF ToRoot
  <2> QED  BY <2>1, <2>2, ParentIs
<1>3. F \in [S -> S]
  <2>1. ASSUME NEW s \in S PROVE F[s] \in S
    <3>1. CASE s \in O
      BY <1>1, <3>1
    <3>2. CASE s \notin O
      <4> DEFINE t == F[s]
                 p == parent(s[2])
      <4>1. p \in 1 .. n /\ t = <<swap(s[1], s[2], p), p>>
        BY <1>2, <3>2
      <4> HIDE DEF t, p
      <4> QED  BY <4>1, SwapPlace DEF t
    <3> QED  BY <3>1, <3>2
  <2> QED  BY <2>1 DEF ToRoot
<1>4. ASSUME NEW s \in I \ O PROVE F[s] \in I /\ m[F[s]] < m[s]
  <2> DEFINE g == s[1]
             i == s[2]
             p == parent(s[2])
  <2>1. /\ g \in [1 .. n -> Event] /\ i \in 2 .. n /\ p = parent(i)
        /\ p \in 1 .. n /\ p < i /\ F[s] = <<swap(g, i, p), p>>
    BY <1>2, PlaceIs
  <2>2. Shuffled(h, g, n) /\ OrderedAround(g, n, i) /\ Bridged(g, n, i) /\ g[i] = h[c]
    OBVIOUS
  <2>3. F[s] \in S /\ F[s][1] = swap(g, i, p) /\ F[s][2] = p /\ Shuffled(h, F[s][1], n)
    <3> DEFINE t == F[s]
    <3>1. t = <<swap(s[1], s[2], p), p>> /\ s \in S /\ n \in Nat /\ p \in 1 .. n
      BY <2>1
    <3>2. Shuffled(h, s[1], n)
      BY <2>2
    <3> HIDE DEF p, t, I, O
    <3>3. /\ t \in S /\ t[1] = swap(s[1], s[2], p) /\ t[2] = p
          /\ Shuffled(h, s[1], n) => Shuffled(h, t[1], n)
      BY <3>1, SwapPlace
    <3> QED  BY <3>2, <3>3 DEF t
  <2> HIDE DEF g, i, p, F
  <2>4. OrderedAround(swap(g, i, p), n, p) /\ Bridged(swap(g, i, p), n, p)
    BY <2>1, <2>2, ToRootRound
  <2>5. swap(g, i, p)[p] = h[c]
    BY <2>1, <2>2, SwapIs
  <2>6. F[s] \in I
    BY <2>3, <2>4, <2>5
  <2> QED  BY <2>1, <2>3, <2>6 DEF i
<1>5. a \in I /\ m[a] <= n
  <2>1. Shuffled(h, h, n) /\ OrderedAround(h, n, c)
    BY DEF Shuffled, OrderedBut, OrderedAround
  <2>2. ASSUME c > 1, NEW j \in 2 .. n, parent(j) = c PROVE NotLater(h[parent(c)], h[j])
    <3>1. c \in 2 .. n /\ parent(c) \in 1 .. n
      BY <2>2, ParentIs
    <3>2. NotLater(h[parent(c)], h[c]) /\ NotLater(h[c], h[j])
      BY <2>2, <3>1 DEF OrderedBut
    <3>3. h[parent(c)] \in Event /\ h[c] \in Event /\ h[j] \in Event
      BY <3>1
    <3> QED  BY <3>2, <3>3, KeyOrder
  <2>3. Bridged(h, n, c)
    BY <2>2 DEF Bridged
  <2>4. a \in S /\ a[1] = h /\ a[2] = c
    BY DEF Places
  <2> QED  BY <2>1, <2>3, <2>4
<1> DEFINE r == Rounds(F, a)[n]
<1>6. r \in I \cap O
  <2>1. m \in [S -> Nat] /\ I \in SUBSET S /\ O \in SUBSET S
    BY PlaceIs
  <2> HIDE DEF F, S, O, I, m, a
  <2> QED  BY <1>1, <1>3, <1>4, <1>5, <2>1, LoopEnds
<1> HIDE DEF r
<1>7. r[1] \in [1 .. n -> Event] /\ r[2] = 1
  BY <1>6, PlaceIs
<1>8. r[1][1] = h[c] /\ Shuffled(h, r[1], n) /\ OrderedBelow(r[1], n, 1)
  BY <1>6, <1>7 DEF OrderedAround, OrderedBelow
<1> QED  BY <1>7, <1>8 DEF r

-----------------------------------------------------------------------------
(* The heap's operations *)

\* The heap order, of events that differ.
IsHeap(h) == h \in Seq(Event) /\ Distinct(h, Len(h)) /\ OrderedBut(h, Len(h), {})

\* The entries of a sequence.
LEMMA SeqRange ==
    ASSUME NEW s \in Seq(Event)
    PROVE  /\ Len(s) \in Nat /\ DOMAIN s = 1 .. Len(s) /\ Range(s) \subseteq Event
           /\ \A x : x \in Range(s) <=> \E k \in 1 .. Len(s) : x = s[k]
  BY DEF Range

\* heap_insert() adds the event and leaves a heap.
LEMMA HeapInsert ==
    ASSUME NEW h, IsHeap(h), NEW e \in Event, e \notin Range(h)
    PROVE  IsHeap(heap_insert(h, e)) /\ Range(heap_insert(h, e)) = Range(h) \cup {e}
<1> DEFINE g == Append(h, e)
           n == Len(h) + 1
           r == Rounds(Rise(n), <<g, n>>)[n][1]
<1>1. h \in Seq(Event) /\ Distinct(h, Len(h)) /\ OrderedBut(h, Len(h), {}) /\ Len(h) \in Nat
  BY DEF IsHeap
<1>2. /\ g \in Seq(Event) /\ Len(g) = n /\ n \in Nat \ {0} /\ g[n] = e
      /\ \A k \in 1 .. Len(h) : g[k] = h[k]
  BY <1>1
<1>3. heap_insert(h, e) = r
  BY <1>2 DEF heap_insert, Settled
<1>4. Range(g) = Range(h) \cup {e}
  <2>1. /\ \A x : x \in Range(g) <=> \E k \in 1 .. n : x = g[k]
        /\ \A x : x \in Range(h) <=> \E k \in 1 .. Len(h) : x = h[k]
    <3> HIDE DEF g
    <3> QED  BY <1>1, <1>2, SeqRange
  <2> HIDE DEF g
  <2>2. ASSUME NEW x PROVE x \in Range(g) <=> x \in Range(h) \cup {e}
    BY <1>1, <1>2, <2>1
  <2> QED  BY <2>2
<1> HIDE DEF g
<1>5. Distinct(g, n)
  <2> SUFFICES ASSUME NEW i \in 1 .. n, NEW j \in 1 .. n, g[i] = g[j] PROVE i = j
    BY DEF Distinct
  <2>1. \A k \in 1 .. Len(h) : h[k] # e
    BY <1>1, SeqRange
  <2> QED  BY <1>1, <1>2, <2>1 DEF Distinct
<1>6. OrderedBut(g, n, {n})
  <2> SUFFICES ASSUME NEW j \in 2 .. n, j # n PROVE NotLater(g[parent(j)], g[j])
    BY DEF OrderedBut
  <2>1. j \in 2 .. Len(h) /\ parent(j) \in 1 .. Len(h)
    BY <1>1, ParentIs
  <2> QED  BY <1>1, <1>2, <2>1 DEF OrderedBut
<1> HIDE DEF n
<1>7. g \in [1 .. n -> Event]
  BY <1>2, HeapIsSeq
<1>8. r \in [1 .. n -> Event] /\ OrderedBut(r, n, {}) /\ Shuffled(g, r, n)
  BY <1>2, <1>6, <1>7, RiseSettles
<1> HIDE DEF r
<1>9. r \in Seq(Event) /\ Len(r) = n
  BY <1>2, <1>8, HeapIsSeq
<1> QED  BY <1>3, <1>4, <1>5, <1>8, <1>9 DEF IsHeap, Shuffled

\* heap_extract_min() removes the root and leaves a heap, even if the root was
\* not the earliest entry.
LEMMA HeapExtractMin ==
    ASSUME NEW h \in Seq(Event), h # <<>>, Distinct(h, Len(h)), OrderedBelow(h, Len(h), 1)
    PROVE  /\ IsHeap(heap_extract_min(h))
           /\ Range(heap_extract_min(h)) = Range(h) \ {h[1]}
<1>1. Len(h) \in Nat \ {0} /\ \A x : x \in Range(h) <=> \E k \in 1 .. Len(h) : x = h[k]
  BY SeqRange
<1>2. CASE Len(h) = 1
  <2>1. heap_extract_min(h) = <<>>
    BY <1>2 DEF heap_extract_min
  <2>2. IsHeap(<<>>)
    BY DEF IsHeap, Distinct, OrderedBut
  <2>3. Range(<<>>) = {}
    BY DEF Range
  <2>4. Range(h) \ {h[1]} = {}
    BY <1>1, <1>2
  <2> QED  BY <2>1, <2>2, <2>3, <2>4
<1>3. CASE Len(h) # 1
  <2> DEFINE n == Len(h) - 1
             g == [Front(h) EXCEPT ![1] = Last(h)]
             r == Rounds(Sink(n), <<g, 1>>)[n][1]
  <2>1. n \in Nat \ {0} /\ Len(h) = n + 1
    BY <1>1, <1>3
  <2>2. Front(h) \in [1 .. n -> Event] /\ \A k \in 1 .. n : Front(h)[k] = h[k]
    <3> DEFINE f == Front(h)
    <3>1. f = SubSeq(h, 1, n)
      BY DEF Front
    <3>2. f \in Seq(Event) /\ Len(f) = n /\ \A k \in 1 .. n : f[k] = h[k]
      BY <2>1, <3>1
    <3> HIDE DEF f, n
    <3>3. f \in [1 .. n -> Event]
      BY <2>1, <3>2, HeapIsSeq
    <3> QED  BY <3>2, <3>3 DEF f
  <2>3. Last(h) = h[n + 1] /\ h[n + 1] \in Event
    BY <2>1 DEF Last
  <2>4. /\ g \in [1 .. n -> Event] /\ g[1] = h[n + 1]
        /\ \A k \in 2 .. n : g[k] = h[k]
    BY <2>1, <2>2, <2>3
  <2>5. heap_extract_min(h) = Settled(Sink(n), g, 1)
    BY <1>3 DEF heap_extract_min
  <2> HIDE DEF g, n
  <2>6. g \in Seq(Event) /\ Len(g) = n
    BY <2>1, <2>4, HeapIsSeq
  <2>7. heap_extract_min(h) = r
    BY <2>5, <2>6 DEF Settled
  <2>8. Range(g) = Range(h) \ {h[1]}
    <3>1. \A x : x \in Range(g) <=> \E k \in 1 .. n : x = g[k]
      BY <2>6, SeqRange
    <3>2. ASSUME NEW x \in Range(g) PROVE x \in Range(h) \ {h[1]}
      <4>1. PICK k \in 1 .. n : x = g[k]
        BY <3>1
      <4>2. \E i \in 2 .. n + 1 : x = h[i]
        BY <2>1, <2>4, <4>1
      <4> QED  BY <1>1, <2>1, <4>2 DEF Distinct
    <3>3. ASSUME NEW x \in Range(h) \ {h[1]} PROVE x \in Range(g)
      <4>1. PICK k \in 1 .. n + 1 : x = h[k]
        BY <1>1, <2>1
      <4>2. k # 1
        BY <4>1
      <4> QED  BY <2>1, <2>4, <3>1, <4>1, <4>2
    <3> QED  BY <3>2, <3>3
  <2>9. Distinct(g, n)
    BY <2>1, <2>4 DEF Distinct
  <2>10. OrderedBelow(g, n, 1)
    <3> SUFFICES ASSUME NEW j \in 2 .. n, parent(j) # 1 PROVE NotLater(g[parent(j)], g[j])
      BY DEF OrderedBelow
    <3>1. parent(j) \in 2 .. n /\ j \in 2 .. n + 1
      BY <2>1, ParentIs
    <3> QED  BY <2>1, <2>4, <3>1 DEF OrderedBelow
  <2>11. r \in [1 .. n -> Event] /\ OrderedBut(r, n, {}) /\ Shuffled(g, r, n)
    BY <2>1, <2>4, <2>10, SinkSettles
  <2> HIDE DEF r
  <2>12. r \in Seq(Event) /\ Len(r) = n
    BY <2>1, <2>11, HeapIsSeq
  <2> QED  BY <2>7, <2>8, <2>9, <2>11, <2>12 DEF IsHeap, Shuffled
<1> QED  BY <1>2, <1>3

\* heap_delete() removes the event and leaves a heap.
LEMMA HeapDelete ==
    ASSUME NEW h, IsHeap(h), NEW e \in Range(h)
    PROVE  IsHeap(heap_delete(h, e)) /\ Range(heap_delete(h, e)) = Range(h) \ {e}
<1> DEFINE n == Len(h)
           c == CHOOSE i \in DOMAIN h : h[i] = e
           r == Rounds(ToRoot(n), <<h, c>>)[n][1]
<1>1. h \in Seq(Event) /\ Distinct(h, n) /\ OrderedBut(h, n, {}) /\ n \in Nat
  BY DEF IsHeap
<1>2. c \in 1 .. n /\ h[c] = e
  BY <1>1, SeqRange
<1>3. heap_delete(h, e) = heap_extract_min(r)
  BY DEF heap_delete, Settled
<1> HIDE DEF c
<1>4. h \in [1 .. n -> Event] /\ n \in Nat \ {0}
  BY <1>1, <1>2, HeapIsSeq
<1> HIDE DEF n
<1>5. r \in [1 .. n -> Event] /\ r[1] = h[c] /\ OrderedBelow(r, n, 1) /\ Shuffled(h, r, n)
  BY <1>1, <1>2, <1>4, ToRootSettles
<1> HIDE DEF r
<1>6. r \in Seq(Event) /\ Len(r) = n /\ r # <<>>
  BY <1>4, <1>5, HeapIsSeq
<1>7. Distinct(r, n) /\ Range(r) = Range(h)
  BY <1>1, <1>5 DEF Shuffled
<1>8. IsHeap(heap_extract_min(r)) /\ Range(heap_extract_min(r)) = Range(r) \ {r[1]}
  BY <1>5, <1>6, <1>7, HeapExtractMin
<1> QED  BY <1>2, <1>3, <1>5, <1>7, <1>8

\* The root of a heap is its earliest entry.
LEMMA RootIsEarliest ==
    ASSUME NEW h, IsHeap(h), h # <<>>, NEW e \in Range(h)
    PROVE  NotLater(h[1], e)
<1>1. /\ h \in Seq(Event) /\ Distinct(h, Len(h)) /\ OrderedBut(h, Len(h), {})
      /\ Len(h) \in Nat \ {0}
  BY DEF IsHeap
<1> DEFINE T == {k \in 1 .. Len(h) : ~NotLater(h[1], h[k])}
<1>2. T = {}
  <2> SUFFICES ASSUME T # {} PROVE FALSE
    OBVIOUS
  <2>1. PICK k \in T : \A j \in T : k <= j
    <3>1. T \in SUBSET Nat
      OBVIOUS
    <3> HIDE DEF T
    <3> QED  BY <3>1, LeastNumber
  <2>2. h[1] \in Event /\ h[k] \in Event
    BY <1>1
  <2>3. k # 1
    BY <2>2, KeyOrder
  <2>4. parent(k) \in 1 .. Len(h) /\ parent(k) < k
    BY <2>3, ParentIs
  <2>5. NotLater(h[1], h[parent(k)])
    <3>1. parent(k) \notin T
      BY <2>1, <2>4
    <3> QED  BY <2>4, <3>1
  <2>6. NotLater(h[parent(k)], h[k]) /\ h[parent(k)] \in Event
    BY <1>1, <2>3, <2>4 DEF OrderedBut
  <2> QED  BY <2>2, <2>5, <2>6, KeyOrder
<1>3. \E k \in 1 .. Len(h) : e = h[k]
  BY <1>1, SeqRange
<1> QED  BY <1>2, <1>3

-----------------------------------------------------------------------------
(* The list *)

\* The list is in the order of the keys.
Sorted(s) ==
    s \in Seq(Event) /\ \A i, j \in 1 .. Len(s) : i < j => KEY_LESS_THAN(s[i], s[j])

LEMMA InsertAtShape ==
    ASSUME NEW s \in Seq(Event), NEW p \in 1 .. Len(s) + 1, NEW e \in Event
    PROVE  /\ InsertAt(s, p, e) \in Seq(Event) /\ Len(InsertAt(s, p, e)) = Len(s) + 1
           /\ InsertAt(s, p, e)[p] = e
           /\ \A k \in 1 .. p - 1 : InsertAt(s, p, e)[k] = s[k]
           /\ \A k \in p .. Len(s) : InsertAt(s, p, e)[k + 1] = s[k]
<1> DEFINE a == SubSeq(s, 1, p - 1)
           b == SubSeq(s, p, Len(s))
           o == <<e>>
           c == a \o o
<1>1. /\ a \in Seq(Event) /\ Len(a) = p - 1 /\ \A k \in 1 .. p - 1 : a[k] = s[k]
      /\ b \in Seq(Event) /\ Len(b) = Len(s) - (p - 1)
      /\ \A k \in 1 .. Len(b) : b[k] = s[p + k - 1]
  OBVIOUS
<1> HIDE DEF a, b
<1>2. c \in Seq(Event) /\ Len(c) = p /\ c[p] = e /\ \A k \in 1 .. p - 1 : c[k] = s[k]
  <2>1. o \in Seq(Event) /\ Len(o) = 1 /\ o[1] = e
    OBVIOUS
  <2> HIDE DEF o
  <2>2. c \in Seq(Event) /\ Len(c) = Len(a) + Len(o)
    BY <1>1, <2>1, ConcatProperties
  <2>3. \A k \in 1 .. p - 1 : c[k] = a[k]
    BY <1>1, <2>1
  <2>4. p \in 1 .. Len(a) + Len(o) /\ ~(p <= Len(a)) /\ p - Len(a) = 1
    BY <1>1, <2>1
  <2>5. c[p] = o[p - Len(a)]
    BY <1>1, <2>1, <2>4, ConcatProperties
  <2> QED  BY <1>1, <2>1, <2>2, <2>3, <2>4, <2>5
<1> HIDE DEF c
<1>3. InsertAt(s, p, e) = c \o b
  BY DEF InsertAt, a, b, c, o
<1>4. /\ c \o b \in Seq(Event) /\ Len(c \o b) = Len(s) + 1 /\ (c \o b)[p] = e
      /\ \A k \in 1 .. p - 1 : (c \o b)[k] = s[k]
  <2>1. c \o b \in Seq(Event) /\ Len(c \o b) = Len(c) + Len(b)
    BY <1>1, <1>2
  <2>2. \A k \in 1 .. p : (c \o b)[k] = c[k]
    BY <1>1, <1>2
  <2> QED  BY <1>1, <1>2, <2>1, <2>2
<1>5. ASSUME NEW k \in p .. Len(s) PROVE (c \o b)[k + 1] = s[k]
  <2>1. (c \o b)[k + 1] = b[k + 1 - p] /\ k + 1 - p \in 1 .. Len(b)
    BY <1>1, <1>2
  <2> QED  BY <1>1, <2>1
<1> QED  BY <1>3, <1>4, <1>5

LEMMA RemoveAtShape ==
    ASSUME NEW s \in Seq(Event), NEW p \in 1 .. Len(s)
    PROVE  /\ RemoveAt(s, p) \in Seq(Event) /\ Len(RemoveAt(s, p)) = Len(s) - 1
           /\ \A k \in 1 .. p - 1 : RemoveAt(s, p)[k] = s[k]
           /\ \A k \in p .. Len(s) - 1 : RemoveAt(s, p)[k] = s[k + 1]
<1> DEFINE a == SubSeq(s, 1, p - 1)
           b == SubSeq(s, p + 1, Len(s))
<1>1. /\ a \in Seq(Event) /\ Len(a) = p - 1 /\ \A k \in 1 .. p - 1 : a[k] = s[k]
      /\ b \in Seq(Event) /\ Len(b) = Len(s) - p
      /\ \A k \in 1 .. Len(b) : b[k] = s[p + k]
  OBVIOUS
<1> HIDE DEF a, b
<1>2. RemoveAt(s, p) = a \o b
  BY DEF RemoveAt, a, b
<1>3. /\ a \o b \in Seq(Event) /\ Len(a \o b) = Len(s) - 1
      /\ \A k \in 1 .. p - 1 : (a \o b)[k] = s[k]
  BY <1>1
<1>4. ASSUME NEW k \in p .. Len(s) - 1 PROVE (a \o b)[k] = s[k + 1]
  <2>1. (a \o b)[k] = b[k - (p - 1)] /\ k - (p - 1) \in 1 .. Len(b)
    BY <1>1
  <2> QED  BY <1>1, <2>1
<1> QED  BY <1>2, <1>3, <1>4

\* An event put between those before it and those after it leaves the list in order.
LEMMA InsertSorted ==
    ASSUME NEW s, Sorted(s), NEW p \in 1 .. Len(s) + 1, NEW e \in Event,
           \A j \in 1 .. Len(s) : j < p => KEY_LESS_THAN(s[j], e),
           \A j \in 1 .. Len(s) : p <= j => KEY_LESS_THAN(e, s[j])
    PROVE  Sorted(InsertAt(s, p, e)) /\ Range(InsertAt(s, p, e)) = Range(s) \cup {e}
<1> DEFINE n == Len(s)
           t == InsertAt(s, p, e)
<1>1. /\ s \in Seq(Event) /\ n \in Nat /\ DOMAIN s = 1 .. n
      /\ \A i, j \in 1 .. n : i < j => KEY_LESS_THAN(s[i], s[j])
  BY DEF Sorted
<1>2. p \in 1 .. n + 1
  OBVIOUS
<1>3. /\ t \in Seq(Event) /\ Len(t) = n + 1 /\ t[p] = e
      /\ \A k \in 1 .. p - 1 : t[k] = s[k]
      /\ \A k \in p .. n : t[k + 1] = s[k]
  BY <1>1, <1>2, InsertAtShape, ZenonT(40)
<1> HIDE DEF t
<1>4. \A j \in 1 .. n : j < p => KEY_LESS_THAN(s[j], e)
  OBVIOUS
<1>5. \A j \in 1 .. n : p <= j => KEY_LESS_THAN(e, s[j])
  OBVIOUS
<1>6. ASSUME NEW k \in 1 .. n + 1
      PROVE  \/ k < p /\ k \in 1 .. n /\ t[k] = s[k]
             \/ k = p /\ t[k] = e
             \/ p < k /\ k - 1 \in p .. n /\ t[k] = s[k - 1]
  <2>1. CASE k < p
    <3>1. k \in 1 .. n /\ k \in 1 .. p - 1
      BY <1>1, <1>2, <2>1
    <3>2. t[k] = s[k]
      BY <1>3, <3>1
    <3> QED  BY <2>1, <3>1, <3>2
  <2>2. CASE k = p
    BY <1>3, <2>2
  <2>3. CASE p < k
    <3>1. k - 1 \in p .. n /\ (k - 1) + 1 = k
      BY <1>1, <1>2, <2>3
    <3>2. t[k] = s[k - 1]
      BY <1>3, <3>1
    <3> QED  BY <2>3, <3>1, <3>2
  <2> QED  BY <1>2, <2>1, <2>2, <2>3
<1>7. ASSUME NEW i \in 1 .. n + 1, NEW j \in 1 .. n + 1, i < j PROVE KEY_LESS_THAN(t[i], t[j])
  <2>1. CASE j < p
    BY <1>1, <1>2, <1>6, <1>7, <2>1
  <2>2. CASE j = p
    BY <1>1, <1>2, <1>4, <1>6, <1>7, <2>2
  <2>3. CASE p < j
    <3>1. j - 1 \in p .. n /\ j - 1 \in 1 .. n /\ p <= j - 1 /\ t[j] = s[j - 1]
      BY <1>2, <1>6, <2>3
    <3>2. CASE i < p
      <4>1. t[i] = s[i] /\ i \in 1 .. n /\ i < j - 1
        BY <1>2, <1>6, <3>1, <3>2
      <4> QED  BY <1>1, <3>1, <4>1
    <3>3. CASE i = p
      BY <1>2, <1>3, <1>5, <3>1, <3>3
    <3>4. CASE p < i
      <4>1. t[i] = s[i - 1] /\ i - 1 \in 1 .. n /\ i - 1 < j - 1
        BY <1>2, <1>6, <1>7, <3>1, <3>4
      <4> QED  BY <1>1, <3>1, <4>1
    <3> QED  BY <1>2, <3>2, <3>3, <3>4
  <2> QED  BY <1>2, <2>1, <2>2, <2>3
<1>8. Sorted(t)
  BY <1>3, <1>7 DEF Sorted
<1>9. Range(t) = Range(s) \cup {e}
  <2>1. /\ \A x : x \in Range(t) <=> \E k \in 1 .. n + 1 : x = t[k]
        /\ \A x : x \in Range(s) <=> \E k \in 1 .. n : x = s[k]
    BY <1>1, <1>3, SeqRange
  <2>2. ASSUME NEW x \in Range(t) PROVE x \in Range(s) \cup {e}
    <3>1. PICK k \in 1 .. n + 1 : x = t[k]
      BY <2>1
    <3>2. x = e \/ \E j \in 1 .. n : x = s[j]
      BY <1>2, <1>6, <3>1
    <3> QED  BY <2>1, <3>2
  <2>3. ASSUME NEW x \in Range(s) \cup {e} PROVE x \in Range(t)
    <3>1. CASE x = e
      BY <1>2, <1>3, <2>1, <3>1
    <3>2. CASE x \in Range(s)
      <4>1. PICK k \in 1 .. n : x = s[k]
        BY <2>1, <3>2
      <4>2. k < p => k \in 1 .. p - 1
        BY <1>2
      <4>3. ~(k < p) => k \in p .. n /\ k + 1 \in 1 .. n + 1
        BY <1>1, <1>2
      <4>4. \E j \in 1 .. n + 1 : x = t[j]
        BY <1>1, <1>3, <4>1, <4>2, <4>3
      <4> QED  BY <2>1, <4>4
    <3> QED  BY <2>3, <3>1, <3>2
  <2> QED  BY <2>2, <2>3
<1> QED  BY <1>8, <1>9 DEF t

\* ListScheduler::insert() puts a new event after those of the same time.
LEMMA ListInserts ==
    ASSUME NEW s, Sorted(s), NEW e \in Event, \A f \in Range(s) : f.uid < e.uid
    PROVE  Sorted(ListInsert(s, e)) /\ Range(ListInsert(s, e)) = Range(s) \cup {e}
<1> DEFINE n == Len(s)
           T == {j \in DOMAIN s : e.time < s[j].time} \cup {n + 1}
           p == Min(T)
<1>1. /\ s \in Seq(Event) /\ n \in Nat /\ DOMAIN s = 1 .. n
      /\ \A i, j \in 1 .. n : i < j => KEY_LESS_THAN(s[i], s[j])
  BY DEF Sorted
<1>2. ListInsert(s, e) = InsertAt(s, p, e)
  BY DEF ListInsert
<1>3. p \in T /\ \A j \in T : p <= j
  <2>1. T \in SUBSET Nat /\ T # {}
    BY <1>1
  <2> HIDE DEF T
  <2> QED  BY <2>1, LeastNumber DEF Min
<1>4. p \in 1 .. n + 1
  BY <1>1, <1>3
<1>5. ASSUME NEW j \in 1 .. n, j < p PROVE ~(e.time < s[j].time)
  <2>1. j \notin T
    <3> HIDE DEF p, T
    <3> QED  BY <1>3, <1>4, <1>5
  <2> QED  BY <1>1, <2>1
<1>6. p <= n => e.time < s[p].time
  BY <1>1, <1>3, <1>4
<1> HIDE DEF p, T
<1>7. \A k \in 1 .. n : s[k] \in Event /\ s[k] \in Range(s)
  BY <1>1 DEF Range
<1>8. \A f \in Event : f.time \in Nat /\ f.uid \in Nat
  BY DEF Event
<1>9. ASSUME NEW j \in 1 .. n, j < p PROVE KEY_LESS_THAN(s[j], e)
  BY <1>5, <1>7, <1>8, <1>9 DEF KEY_LESS_THAN
<1>10. ASSUME NEW j \in 1 .. n, p <= j PROVE KEY_LESS_THAN(e, s[j])
  <2>1. p \in 1 .. n /\ e.time < s[p].time
    BY <1>4, <1>6, <1>10
  <2>2. p = j \/ KEY_LESS_THAN(s[p], s[j])
    BY <1>1, <1>10, <2>1
  <2>3. s[p] \in Event /\ s[j] \in Event
    BY <1>7, <2>1
  <2> QED  BY <1>8, <2>1, <2>2, <2>3 DEF KEY_LESS_THAN
<1> QED  BY <1>2, <1>4, <1>9, <1>10, InsertSorted

\* Removing an entry of the list leaves the others in order.
LEMMA ListRemoves ==
    ASSUME NEW s, Sorted(s), NEW p \in 1 .. Len(s)
    PROVE  Sorted(RemoveAt(s, p)) /\ Range(RemoveAt(s, p)) = Range(s) \ {s[p]}
<1> DEFINE n == Len(s)
           t == RemoveAt(s, p)
<1>1. /\ s \in Seq(Event) /\ n \in Nat
      /\ \A i, j \in 1 .. n : i < j => KEY_LESS_THAN(s[i], s[j])
  BY DEF Sorted
<1>2. /\ t \in Seq(Event) /\ Len(t) = n - 1
      /\ \A k \in 1 .. p - 1 : t[k] = s[k]
      /\ \A k \in p .. n - 1 : t[k] = s[k + 1]
  BY <1>1, RemoveAtShape
<1> HIDE DEF t
<1>3. \A k \in 1 .. n - 1 : \/ k < p /\ k \in 1 .. n /\ t[k] = s[k]
                            \/ p <= k /\ k + 1 \in 1 .. n /\ t[k] = s[k + 1]
  BY <1>1, <1>2
<1>4. ASSUME NEW i \in 1 .. n - 1, NEW j \in 1 .. n - 1, i < j PROVE KEY_LESS_THAN(t[i], t[j])
  BY <1>1, <1>3, <1>4
<1>5. Sorted(t)
  BY <1>1, <1>2, <1>4 DEF Sorted
<1>6. /\ \A x : x \in Range(t) <=> \E k \in 1 .. n - 1 : x = t[k]
      /\ \A x : x \in Range(s) <=> \E k \in 1 .. n : x = s[k]
  BY <1>1, <1>2, SeqRange
<1>7. ASSUME NEW i \in 1 .. n, i # p PROVE s[i] # s[p]
  <2>1. s[i] \in Event /\ s[p] \in Event /\ (i < p \/ p < i)
    BY <1>1, <1>7
  <2>2. KEY_LESS_THAN(s[i], s[p]) \/ KEY_LESS_THAN(s[p], s[i])
    BY <1>1, <2>1
  <2> QED  BY <2>1, <2>2, KeyOrder
<1>8. ASSUME NEW x \in Range(t) PROVE x \in Range(s) \ {s[p]}
  <2>1. PICK k \in 1 .. n - 1 : x = t[k]
    BY <1>6
  <2>2. \E i \in 1 .. n : i # p /\ x = s[i]
    BY <1>3, <2>1
  <2> QED  BY <1>6, <1>7, <2>2
<1>9. ASSUME NEW x \in Range(s) \ {s[p]} PROVE x \in Range(t)
  <2>1. PICK k \in 1 .. n : x = s[k] /\ k # p
    BY <1>6
  <2>2. CASE k < p
    <3>1. k \in 1 .. n - 1 /\ t[k] = s[k]
      BY <1>1, <1>2, <2>2
    <3> QED  BY <1>6, <2>1, <3>1
  <2>3. CASE p < k
    <3>1. k - 1 \in 1 .. n - 1 /\ k - 1 \in p .. n - 1 /\ (k - 1) + 1 = k
      BY <1>1, <2>3
    <3>2. t[k - 1] = s[k]
      BY <1>2, <3>1
    <3> QED  BY <1>6, <2>1, <3>1, <3>2
  <2> QED  BY <2>1, <2>2, <2>3
<1> QED  BY <1>5, <1>8, <1>9 DEF t

\* The first entry of the list is the earliest.
LEMMA ListHead ==
    ASSUME NEW s, Sorted(s), s # <<>>
    PROVE  /\ s[1] \in Range(s) /\ \A f \in Range(s) \ {s[1]} : KEY_LESS_THAN(s[1], f)
           /\ Sorted(Tail(s)) /\ Range(Tail(s)) = Range(s) \ {s[1]}
<1>1. /\ s \in Seq(Event) /\ Len(s) \in Nat \ {0}
      /\ \A i, j \in 1 .. Len(s) : i < j => KEY_LESS_THAN(s[i], s[j])
  BY DEF Sorted
<1>2. \A x : x \in Range(s) <=> \E k \in 1 .. Len(s) : x = s[k]
  BY <1>1, SeqRange
<1>3. ASSUME NEW f \in Range(s) \ {s[1]} PROVE KEY_LESS_THAN(s[1], f)
  <2>1. PICK k \in 1 .. Len(s) : f = s[k]
    BY <1>2
  <2>2. k # 1
    BY <2>1
  <2> QED  BY <1>1, <2>1, <2>2
<1>4. Tail(s) = RemoveAt(s, 1)
  <2> DEFINE t == Tail(s)
             u == RemoveAt(s, 1)
             one == 1
  <2>1. t \in Seq(Event) /\ Len(t) = Len(s) - 1 /\ \A k \in 1 .. Len(s) - 1 : t[k] = s[k + 1]
    BY <1>1
  <2>2. u \in Seq(Event) /\ Len(u) = Len(s) - 1 /\ \A k \in 1 .. Len(s) - 1 : u[k] = s[k + 1]
    <3>1. one \in 1 .. Len(s) /\ u = RemoveAt(s, one)
      BY <1>1
    <3> HIDE DEF one
    <3>2. /\ RemoveAt(s, one) \in Seq(Event) /\ Len(RemoveAt(s, one)) = Len(s) - 1
          /\ \A k \in one .. Len(s) - 1 : RemoveAt(s, one)[k] = s[k + 1]
      BY <1>1, <3>1, RemoveAtShape
    <3> QED  BY <3>1, <3>2 DEF one
  <2> HIDE DEF t, u
  <2>3. t = u
    BY <1>1, <2>1, <2>2
  <2> QED  BY <2>3 DEF t, u
<1>5. Sorted(RemoveAt(s, 1)) /\ Range(RemoveAt(s, 1)) = Range(s) \ {s[1]}
  <2> DEFINE one == 1
  <2>1. one \in 1 .. Len(s)
    BY <1>1
  <2> HIDE DEF one
  <2>2. Sorted(RemoveAt(s, one)) /\ Range(RemoveAt(s, one)) = Range(s) \ {s[one]}
    BY <2>1, ListRemoves
  <2> QED  BY <2>2 DEF one
<1>6. s[1] \in Range(s)
  <2>1. \E k \in 1 .. Len(s) : s[1] = s[k]
    BY <1>1
  <2> QED  BY <1>2, <2>1
<1> QED  BY <1>3, <1>4, <1>5, <1>6

-----------------------------------------------------------------------------
(* The schedulers *)

\* What the list and the heap hold: the same events, none overdue, all older
\* than the next.
QueuesOK ==
    /\ Sorted(queue)
    /\ IsHeap(heap)
    /\ Range(heap) = Range(queue)
    /\ \A e \in Range(queue) : clock <= e.time /\ e.uid < uid

\* What the script still schedules; the clock starts with the run.
ScriptOK ==
    /\ script \in Seq(Nat) /\ Range(script) \subseteq AllDelays
    /\ script # <<>> => clock = 0

SchedInv == clock \in Nat /\ uid \in Nat /\ QueuesOK /\ ScriptOK

LEMMA DelaysAreNumbers == AllDelays \subseteq Nat
<1>1. ASSUME NEW s \in Scripts PROVE Range(s) \subseteq Nat
  <2>1. s \in Seq(Nat)
    BY BoundAssumption
  <2> QED  BY <2>1 DEF Range
<1> QED  BY <1>1, BoundAssumption DEF AllDelays

\* An event is scheduled in both.
LEMMA Schedules ==
    ASSUME clock \in Nat, uid \in Nat, QueuesOK, NEW d \in Nat, schedule(d)
    PROVE  /\ clock' \in Nat /\ uid' \in Nat /\ QueuesOK'
           /\ Range(queue') = Range(queue) \cup {[time |-> clock + d, uid |-> uid]}
<1> DEFINE e == [time |-> clock + d, uid |-> uid]
<1>1. e \in Event /\ e.time = clock + d /\ e.uid = uid
  BY DEF Event
<1>2. /\ uid' = uid + 1 /\ clock' = clock
      /\ queue' = ListInsert(queue, e) /\ heap' = heap_insert(heap, e)
  BY DEF schedule
<1> HIDE DEF e
<1>3. /\ Sorted(queue) /\ IsHeap(heap) /\ Range(heap) = Range(queue)
      /\ \A f \in Range(queue) : clock <= f.time /\ f.uid < uid
  BY DEF QueuesOK
<1>4. e \notin Range(heap)
  BY <1>1, <1>3
<1>5. Sorted(queue') /\ Range(queue') = Range(queue) \cup {e}
  BY <1>1, <1>2, <1>3, ListInserts
<1>6. IsHeap(heap') /\ Range(heap') = Range(heap) \cup {e}
  BY <1>1, <1>2, <1>3, <1>4, HeapInsert
<1>7. ASSUME NEW f \in Range(queue') PROVE clock' <= f.time /\ f.uid < uid'
  <2>1. f \in Event
    BY <1>5, SeqRange DEF Sorted
  <2>2. f.uid \in Nat
    BY <2>1 DEF Event
  <2> QED  BY <1>1, <1>2, <1>3, <1>5, <2>2
<1> QED  BY <1>2, <1>3, <1>5, <1>6, <1>7 DEF QueuesOK, e

\* The next event is the same in both.
LEMMA Dispatches ==
    ASSUME SchedInv, Dispatch
    PROVE  /\ SchedInv'
           /\ heap[1] = queue[1] /\ queue[1] \in Range(queue)
           /\ \A f \in Range(queue) \ {queue[1]} : KEY_LESS_THAN(queue[1], f)
           /\ Range(queue') = Range(queue) \ {queue[1]}
<1>1. /\ queue # <<>> /\ clock' = queue[1].time /\ queue' = Tail(queue)
      /\ heap' = heap_extract_min(heap) /\ UNCHANGED <<uid, script>> /\ script = <<>>
  BY DEF Dispatch
<1>2. /\ Sorted(queue) /\ IsHeap(heap) /\ Range(heap) = Range(queue)
      /\ \A f \in Range(queue) : clock <= f.time /\ f.uid < uid
  BY DEF SchedInv, QueuesOK
<1> DEFINE e == queue[1]
           r == heap[1]
<1>3. /\ e \in Range(queue) /\ \A f \in Range(queue) \ {e} : KEY_LESS_THAN(e, f)
      /\ Sorted(queue') /\ Range(queue') = Range(queue) \ {e}
  BY <1>1, <1>2, ListHead
<1>4. \A f \in Range(queue) : f \in Event /\ f.time \in Nat /\ f.uid \in Nat
  <2>1. Range(queue) \subseteq Event
    BY <1>2, SeqRange DEF Sorted
  <2> QED  BY <2>1 DEF Event
<1>5. heap \in Seq(Event) /\ heap # <<>> /\ r \in Range(heap)
  <2>1. heap \in Seq(Event)
    BY <1>2 DEF IsHeap
  <2>2. Len(heap) \in Nat /\ \A x : x \in Range(heap) <=> \E k \in 1 .. Len(heap) : x = heap[k]
    BY <2>1, SeqRange
  <2>3. Len(heap) # 0
    BY <1>2, <1>3, <2>2
  <2>4. heap # <<>> /\ 1 \in 1 .. Len(heap)
    BY <2>1, <2>2, <2>3
  <2> QED  BY <2>1, <2>2, <2>4
<1>6. r = e
  <2>1. NotLater(r, e)
    BY <1>2, <1>3, <1>5, RootIsEarliest
  <2> QED  BY <1>2, <1>3, <1>5, <2>1 DEF NotLater
<1>7. IsHeap(heap') /\ Range(heap') = Range(heap) \ {r}
  <2>1. Distinct(heap, Len(heap)) /\ OrderedBelow(heap, Len(heap), 1)
    BY <1>2 DEF IsHeap, OrderedBut, OrderedBelow
  <2> QED  BY <1>1, <1>5, <2>1, HeapExtractMin
<1>8. ASSUME NEW f \in Range(queue') PROVE clock' <= f.time /\ f.uid < uid'
  <2>1. f \in Range(queue) /\ KEY_LESS_THAN(e, f)
    BY <1>3
  <2> QED  BY <1>1, <1>2, <1>3, <1>4, <2>1 DEF KEY_LESS_THAN
<1>9. QueuesOK'
  BY <1>2, <1>3, <1>6, <1>7, <1>8 DEF QueuesOK
<1>10. clock' \in Nat /\ uid' \in Nat /\ ScriptOK'
  BY <1>1, <1>3, <1>4 DEF SchedInv, ScriptOK
<1> QED  BY <1>3, <1>6, <1>9, <1>10 DEF SchedInv

\* An event is cancelled in both.
LEMMA Cancels ==
    ASSUME SchedInv, NEW e \in Range(queue), Cancel(e)
    PROVE  SchedInv' /\ Range(queue') = Range(queue) \ {e}
<1> DEFINE p == CHOOSE i \in DOMAIN queue : queue[i] = e
<1>1. /\ queue' = RemoveAt(queue, p) /\ heap' = heap_delete(heap, e)
      /\ UNCHANGED <<clock, uid, script>>
  BY DEF Cancel
<1>2. /\ Sorted(queue) /\ IsHeap(heap) /\ Range(heap) = Range(queue)
      /\ \A f \in Range(queue) : clock <= f.time /\ f.uid < uid
  BY DEF SchedInv, QueuesOK
<1>3. p \in 1 .. Len(queue) /\ queue[p] = e
  BY <1>2, SeqRange DEF Sorted
<1> HIDE DEF p
<1>4. Sorted(queue') /\ Range(queue') = Range(queue) \ {e}
  BY <1>1, <1>2, <1>3, ListRemoves
<1>5. IsHeap(heap') /\ Range(heap') = Range(heap) \ {e}
  BY <1>1, <1>2, HeapDelete
<1>6. QueuesOK'
  BY <1>1, <1>2, <1>4, <1>5 DEF QueuesOK
<1>7. clock' \in Nat /\ uid' \in Nat /\ ScriptOK'
  BY <1>1 DEF SchedInv, ScriptOK
<1> QED  BY <1>4, <1>6, <1>7 DEF SchedInv

\* The script's events are scheduled at the times it names.
LEMMA Ats ==
    ASSUME SchedInv, At
    PROVE  /\ SchedInv'
           /\ \E d \in AllDelays : schedule(d)
           /\ \A d \in AllDelays : schedule(d) =>
                Range(queue') = Range(queue) \cup {[time |-> clock + d, uid |-> uid]}
<1> DEFINE d == Head(script) - clock
<1>1. /\ script # <<>> /\ script' = Tail(script) /\ schedule(d)
  BY DEF At
<1>2. script \in Seq(Nat) /\ Range(script) \subseteq AllDelays /\ clock = 0
  BY <1>1 DEF SchedInv, ScriptOK
<1>3. d = Head(script) /\ d \in Range(script)
  BY <1>1, <1>2 DEF Range
<1>4. d \in AllDelays /\ d \in Nat
  BY <1>2, <1>3, DelaysAreNumbers
<1> HIDE DEF d
<1>5. clock' \in Nat /\ uid' \in Nat /\ QueuesOK'
  BY <1>1, <1>4, Schedules DEF SchedInv
<1>6. script' \in Seq(Nat) /\ Range(script') \subseteq Range(script)
  BY <1>1, <1>2 DEF Range
<1>7. ScriptOK'
  BY <1>1, <1>2, <1>6 DEF ScriptOK, schedule, AllDelays
<1>8. ASSUME NEW c \in AllDelays, schedule(c)
      PROVE  Range(queue') = Range(queue) \cup {[time |-> clock + c, uid |-> uid]}
  BY <1>8, Schedules, DelaysAreNumbers DEF SchedInv
<1> QED  BY <1>1, <1>4, <1>5, <1>7, <1>8 DEF SchedInv

\* A handler's event is scheduled after the delay it names.
LEMMA HandlerSchedules ==
    ASSUME SchedInv, NEW d \in Delays, Schedule(d)
    PROVE  /\ SchedInv' /\ d \in AllDelays /\ schedule(d)
           /\ Range(queue') = Range(queue) \cup {[time |-> clock + d, uid |-> uid]}
<1>1. schedule(d) /\ UNCHANGED script /\ d \in AllDelays
  BY DEF Schedule, AllDelays
<1>2. d \in Nat
  BY <1>1, DelaysAreNumbers
<1>3. /\ clock' \in Nat /\ uid' \in Nat /\ QueuesOK'
      /\ Range(queue') = Range(queue) \cup {[time |-> clock + d, uid |-> uid]}
  BY <1>1, <1>2, Schedules DEF SchedInv
<1>4. ScriptOK'
  BY <1>1 DEF SchedInv, ScriptOK, schedule, AllDelays
<1> QED  BY <1>1, <1>3, <1>4 DEF SchedInv

LEMMA SchedInit == Init => SchedInv
<1> SUFFICES ASSUME Init PROVE SchedInv
  OBVIOUS
<1>1. /\ script \in Scripts /\ clock = 0 /\ uid = 1 /\ queue = <<>> /\ heap = <<>>
  BY DEF Init
<1>2. Range(<<>>) = {}
  BY DEF Range
<1>3. Sorted(<<>>) /\ IsHeap(<<>>)
  BY DEF Sorted, IsHeap, Distinct, OrderedBut
<1>4. script \in Seq(Nat) /\ Range(script) \subseteq AllDelays
  BY <1>1, BoundAssumption DEF AllDelays
<1> QED  BY <1>1, <1>2, <1>3, <1>4 DEF SchedInv, QueuesOK, ScriptOK

LEMMA SchedNext == SchedInv /\ [Next]_vars => SchedInv'
<1> SUFFICES ASSUME SchedInv, [Next]_vars PROVE SchedInv'
  OBVIOUS
<1>1. CASE At
  BY <1>1, Ats
<1>2. CASE \E d \in Delays : Schedule(d)
  BY <1>2, HandlerSchedules
<1>3. CASE Dispatch
  BY <1>3, Dispatches
<1>4. CASE \E e \in Range(queue) : Cancel(e)
  BY <1>4, Cancels
<1>5. CASE Peek \/ UNCHANGED vars
  <2>1. UNCHANGED <<clock, uid, script, queue, heap>>
    BY <1>5 DEF Peek, vars
  <2> QED  BY <2>1 DEF SchedInv, QueuesOK, ScriptOK, AllDelays
<1> QED  BY <1>1, <1>2, <1>3, <1>4, <1>5 DEF Next

\* The list and the heap hold the same events, the list in order and the heap
\* with no entry before its parent; no event is overdue.
THEOREM SchedulerInvariance == Spec => []SchedInv
  BY SchedInit, SchedNext, PTL DEF Spec

\* A step of the list and the heap is a step of a scheduler, or changes nothing
\* that it promises.
LEMMA StepImplements ==
    ASSUME SchedInv, [Next]_vars
    PROVE  [ListQueue!Next]_ListQueue!vars /\ [Heap!Next]_Heap!vars
<1>0. Range(heap) = Range(queue) /\ Range(heap') = Range(queue')
  BY SchedNext DEF SchedInv, QueuesOK
<1>1. ASSUME NEW d \in AllDelays, schedule(d),
             Range(queue') = Range(queue) \cup {[time |-> clock + d, uid |-> uid]}
      PROVE  ListQueue!Next /\ Heap!Next
  <2>1. ListQueue!Schedule(d) /\ Heap!Schedule(d)
    BY <1>0, <1>1 DEF schedule, ListQueue!Schedule, Heap!Schedule
  <2> QED  BY <2>1 DEF ListQueue!Next, Heap!Next
<1>2. CASE At
  BY <1>1, <1>2, Ats
<1>3. CASE \E d \in Delays : Schedule(d)
  BY <1>1, <1>3, HandlerSchedules
<1>4. CASE Dispatch
  <2> DEFINE e == queue[1]
  <2>1. /\ heap[1] = e /\ e \in Range(queue)
        /\ \A f \in Range(queue) \ {e} : KEY_LESS_THAN(e, f)
        /\ Range(queue') = Range(queue) \ {e}
    BY <1>4, Dispatches
  <2>2. last'[1] = queue[1] /\ last'[2] = heap[1] /\ clock' = e.time /\ uid' = uid
    BY <1>4 DEF Dispatch
  <2>3. clock <= e.time
    BY <2>1 DEF SchedInv, QueuesOK
  <2> HIDE DEF e
  <2>4. ListQueue!Dispatch(e)
    BY <2>1, <2>2, <2>3 DEF ListQueue!Dispatch, ListQueue!Earlier, KEY_LESS_THAN, e
  <2>5. Heap!Dispatch(e)
    BY <1>0, <2>1, <2>2, <2>3 DEF Heap!Dispatch, Heap!Earlier, KEY_LESS_THAN
  <2> QED  BY <1>0, <2>1, <2>4, <2>5 DEF ListQueue!Next, Heap!Next
<1>5. CASE \E e \in Range(queue) : Cancel(e)
  <2>1. PICK e \in Range(queue) : Cancel(e)
    BY <1>5
  <2>2. Range(queue') = Range(queue) \ {e}
    BY <2>1, Cancels
  <2>3. UNCHANGED <<clock, uid, last>>
    BY <2>1 DEF Cancel
  <2>4. ListQueue!Cancel(e) /\ Heap!Cancel(e)
    BY <1>0, <2>2, <2>3 DEF ListQueue!Cancel, Heap!Cancel
  <2> QED  BY <1>0, <2>4 DEF ListQueue!Next, Heap!Next
<1>6. CASE Peek \/ UNCHANGED vars
  <2>1. UNCHANGED <<clock, uid, queue, heap, last>>
    BY <1>6 DEF Peek, vars
  <2> QED  BY <2>1 DEF ListQueue!vars, Heap!vars
<1> QED  BY <1>2, <1>3, <1>4, <1>5, <1>6 DEF Next

LEMMA InitImplements == Init => ListQueue!Init /\ Heap!Init
<1> SUFFICES ASSUME Init PROVE ListQueue!Init /\ Heap!Init
  OBVIOUS
<1>1. clock = 0 /\ uid = 1 /\ queue = <<>> /\ heap = <<>> /\ last = <<Nobody, Nobody, Nobody>>
  BY DEF Init
<1>2. Range(<<>>) = {}
  BY DEF Range
<1> QED  BY <1>1, <1>2 DEF ListQueue!Init, Heap!Init

\* Both ListScheduler and HeapScheduler implement EventQueue (scheduler.cc):
\* whatever handlers schedule and cancel, the next event of either is the
\* earliest, the first scheduled of those at its time, and none is lost or
\* dispatched twice.
THEOREM ListAndHeapRefinement == Spec => ListAndHeapImplement
<1>1. Init => ListQueue!Init /\ Heap!Init
  BY InitImplements
<1>2. SchedInv /\ [Next]_vars => [ListQueue!Next]_ListQueue!vars /\ [Heap!Next]_Heap!vars
  BY StepImplements
<1> QED  BY <1>1, <1>2, SchedulerInvariance, PTL
         DEF Spec, ListAndHeapImplement, ListQueue!Spec, Heap!Spec

-----------------------------------------------------------------------------
(* Numbers and recursion *)

\* Every nonempty set of numbers up to n has a greatest element.
LEMMA GreatestNumber ==
    ASSUME NEW n \in Nat, NEW T \in SUBSET (0 .. n), T # {}
    PROVE  \E x \in T : \A y \in T : y <= x
<1> DEFINE U == {n - y : y \in T}
<1>1. U \in SUBSET Nat /\ U # {}
  <2>1. \A y \in T : y \in 0 .. n /\ n - y \in Nat
    OBVIOUS
  <2>2. U \subseteq Nat
    BY <2>1
  <2>3. PICK y \in T : TRUE
    OBVIOUS
  <2>4. n - y \in U
    OBVIOUS
  <2> QED  BY <2>2, <2>4
<1>2. PICK u \in U : \A v \in U : u <= v
  <2> HIDE DEF U
  <2> QED  BY <1>1, LeastNumber
<1>3. PICK x \in T : u = n - x
  OBVIOUS
<1>4. ASSUME NEW y \in T PROVE y <= x
  <2>1. n - y \in U
    OBVIOUS
  <2>2. n - x <= n - y
    BY <1>2, <1>3, <2>1
  <2>3. x \in 0 .. n /\ y \in 0 .. n
    OBVIOUS
  <2> QED  BY <2>2, <2>3
<1> QED  BY <1>4

\* r is a recursion over 0 .. n, in S, that begins with a.
Recurs(r, S, n, F, a) ==
    r \in [0 .. n -> S] /\ r[0] = a /\ \A k \in 1 .. n : r[k] = F[k][r[k - 1]]

\* It has a solution.
LEMMA FoldExists ==
    ASSUME NEW S, NEW n \in Nat, NEW F, \A k \in 1 .. n : \A x \in S : F[k][x] \in S, NEW a \in S
    PROVE  \E r : Recurs(r, S, n, F, a)
<1> DEFINE Solves(g, m) == g \in [0 .. m -> S] /\ g[0] = a /\ \A k \in 1 .. m : g[k] = F[k][g[k - 1]]
           T == {m \in Nat : m <= n => \E g \in [0 .. m -> S] : Solves(g, m)}
<1>1. 0 \in T
  <2> DEFINE g == [k \in 0 .. 0 |-> a]
  <2>1. g \in [0 .. 0 -> S] /\ Solves(g, 0)
    OBVIOUS
  <2> HIDE DEF g, Solves
  <2> QED  BY <2>1
<1>2. ASSUME NEW m \in Nat, m \in T PROVE m + 1 \in T
  <2> SUFFICES ASSUME m + 1 <= n PROVE \E g \in [0 .. m + 1 -> S] : Solves(g, m + 1)
    OBVIOUS
  <2>1. PICK g \in [0 .. m -> S] : Solves(g, m)
    BY <1>2
  <2> DEFINE h == [k \in 0 .. m + 1 |-> IF k = m + 1 THEN F[m + 1][g[m]] ELSE g[k]]
  <2>2. h \in [0 .. m + 1 -> S] /\ h[0] = a
    <3>1. g[m] \in S /\ m + 1 \in 1 .. n
      BY <2>1
    <3>2. F[m + 1][g[m]] \in S
      BY <3>1
    <3> QED  BY <2>1, <3>2
  <2>3. ASSUME NEW k \in 1 .. m + 1 PROVE h[k] = F[k][h[k - 1]]
    BY <2>1
  <2> HIDE DEF h
  <2>4. Solves(h, m + 1)
    BY <2>2, <2>3
  <2> HIDE DEF Solves
  <2> QED  BY <2>2, <2>4
<1>3. Nat \subseteq T
  <2> HIDE DEF T
  <2> QED  BY <1>1, <1>2, InductionOnNat
<1>4. n \in T
  BY <1>3
<1> QED  BY <1>4 DEF Recurs

\* A product grows with its factors.
LEMMA ProductGrows ==
    ASSUME NEW a \in Nat, NEW b \in Nat, NEW c \in Nat, c <= b
    PROVE  a * b \in Nat /\ a * c \in Nat /\ a * c <= a * b
  OBVIOUS

LEMMA DivIs ==
    ASSUME NEW t \in Nat, NEW w \in Nat \ {0}
    PROVE  t \div w \in Nat /\ w * (t \div w) \in Nat /\ w * (t \div w) <= t /\ t < w * (t \div w) + w
  OBVIOUS

LEMMA ModIs ==
    ASSUME NEW x \in Nat, NEW n \in Nat \ {0}
    PROVE  /\ x % n \in 0 .. n - 1
           /\ x \div n \in Nat /\ x = n * (x \div n) + (x % n)
  OBVIOUS

\* Later times are not in earlier intervals.
LEMMA DivGrows ==
    ASSUME NEW t \in Nat, NEW u \in Nat, NEW w \in Nat \ {0}, t <= u
    PROVE  t \div w <= u \div w
<1> DEFINE a == t \div w
           b == u \div w
<1>1. /\ a \in Nat /\ w * a \in Nat /\ w * a <= t
      /\ b \in Nat /\ w * b \in Nat /\ u < w * b + w
  BY DivIs
<1> HIDE DEF a, b
<1> SUFFICES ASSUME a > b PROVE FALSE
  BY <1>1 DEF a, b
<1>2. w * (b + 1) <= w * a
  BY <1>1, ProductGrows
<1>3. w * (b + 1) = w * b + w
  BY <1>1
<1> QED  BY <1>1, <1>2, <1>3

\* A remainder is the only number below n at a multiple of n from x.
LEMMA ModUnique ==
    ASSUME NEW x \in Nat, NEW n \in Nat \ {0}, NEW k \in Nat, NEW r \in 0 .. n - 1, x = n * k + r
    PROVE  x % n = r
<1> DEFINE d == x \div n
           s == x % n
<1>1. s \in 0 .. n - 1 /\ d \in Nat /\ x = n * d + s
  BY ModIs
<1> HIDE DEF d, s
<1>2. n * d \in Nat /\ n * k \in Nat
  BY <1>1
<1>3. CASE d = k
  BY <1>1, <1>2, <1>3 DEF s
<1>4. CASE d + 1 <= k
  <2>1. n * (d + 1) <= n * k
    BY <1>1, <1>4, ProductGrows
  <2>2. n * (d + 1) = n * d + n
    BY <1>1
  <2> QED  BY <1>1, <1>2, <2>1, <2>2
<1>5. CASE k + 1 <= d
  <2>1. n * (k + 1) <= n * d
    BY <1>1, <1>5, ProductGrows
  <2>2. n * (k + 1) = n * k + n
    BY <1>1
  <2> QED  BY <1>1, <1>2, <2>1, <2>2
<1> QED  BY <1>1, <1>3, <1>4, <1>5

\* Step j of a search over n buckets that starts at interval b comes to the bucket of
\* interval q, which is k years ahead.
ComesTo(b, n, j, k, q) == q = b + j + n * k /\ ((b % n) + j) % n = q % n

LEMMA StepOf ==
    ASSUME NEW b \in Nat, NEW q \in Nat, b <= q, NEW n \in Nat \ {0}
    PROVE  \E j \in 0 .. n - 1, k \in Nat : ComesTo(b, n, j, k, q)
<1> DEFINE r == q - b
           j == r % n
           k == r \div n
           c == b \div n
           l == b % n
<1>1. r \in Nat
  OBVIOUS
<1> HIDE DEF r
<1>2. j \in 0 .. n - 1 /\ k \in Nat /\ r = n * k + j
  BY <1>1, ModIs
<1>3. l \in 0 .. n - 1 /\ c \in Nat /\ b = n * c + l
  BY ModIs
<1> HIDE DEF j, k, c, l
<1>4. q = b + j + n * k
  BY <1>2 DEF r
<1> DEFINE y == l + j
           m == y % n
           d == y \div n
<1>5. m \in 0 .. n - 1 /\ d \in Nat /\ l + j = n * d + m
  <2>1. y \in Nat
    BY <1>2, <1>3
  <2> HIDE DEF y
  <2>2. m \in 0 .. n - 1 /\ d \in Nat /\ y = n * d + m
    BY <2>1, ModIs
  <2> QED  BY <2>2 DEF y
<1> HIDE DEF m, d
<1>6. q = n * (c + d + k) + m
  <2>1. n * (c + d + k) = n * c + n * d + n * k
    BY <1>2, <1>3, <1>5
  <2>2. n * c \in Nat /\ n * d \in Nat /\ n * k \in Nat
    BY <1>2, <1>3, <1>5
  <2> QED  BY <1>2, <1>3, <1>4, <1>5, <2>1, <2>2
<1> DEFINE x == c + d + k
<1>7. x \in Nat /\ q = n * x + m
  BY <1>2, <1>3, <1>5, <1>6
<1> HIDE DEF x
<1>8. q % n = m
  BY <1>5, <1>7, ModUnique
<1> QED  BY <1>2, <1>4, <1>8 DEF m, y, l, ComesTo

\* The steps of the search look at different buckets.
LEMMA StepsDiffer ==
    ASSUME NEW n \in Nat \ {0}, NEW l \in 0 .. n - 1, NEW i \in 0 .. n - 1, NEW j \in 0 .. n - 1,
           (l + i) % n = (l + j) % n
    PROVE  i = j
<1> DEFINE m == (l + i) % n
           a == (l + i) \div n
           b == (l + j) \div n
<1>1. /\ m \in 0 .. n - 1 /\ a \in Nat /\ l + i = n * a + m
      /\ b \in Nat /\ l + j = n * b + m
  <2>1. l + i \in Nat /\ l + j \in Nat
    OBVIOUS
  <2> QED  BY <2>1, ModIs
<1> HIDE DEF m, a, b
<1>2. n * a \in Nat /\ n * b \in Nat
  BY <1>1
<1>3. CASE a = b
  BY <1>1, <1>3
<1>4. CASE a + 1 <= b
  <2>1. n * (a + 1) <= n * b
    BY <1>1, <1>4, ProductGrows
  <2>2. n * (a + 1) = n * a + n
    BY <1>1
  <2> QED  BY <1>1, <1>2, <2>1, <2>2
<1>5. CASE b + 1 <= a
  <2>1. n * (b + 1) <= n * a
    BY <1>1, <1>5, ProductGrows
  <2>2. n * (b + 1) = n * b + n
    BY <1>1
  <2> QED  BY <1>1, <1>2, <2>1, <2>2
<1> QED  BY <1>1, <1>3, <1>4, <1>5

-----------------------------------------------------------------------------
(* The calendar *)

\* The calendars of n buckets of width w that stand at time t in bucket l.
Cals(n, w, t, l) ==
    [nbuckets : {n}, width : {w}, cal_clock : {t}, lastbucket : {l}, stat_qsize : Int,
     list : [0 .. n - 1 -> Seq(Event)], count : [0 .. n - 1 -> Int]]

IsCal(c) ==
    /\ c.nbuckets \in Nat /\ c.nbuckets >= 4 /\ c.width \in Nat \ {0} /\ c.cal_clock \in Nat
    /\ c \in Cals(c.nbuckets, c.width, c.cal_clock, c.lastbucket)

\* Each event is in the bucket of its time, and buckets are in order.
Placed(c) ==
    \A i \in 0 .. c.nbuckets - 1 :
        Sorted(c.list[i]) /\ \A e \in Range(c.list[i]) : Hash(c, e.time) = i

AllTimes(c) == {e.time : e \in Events(c)}
\* The counts are of distinct times.
Counted(c) ==
    /\ \A i \in 0 .. c.nbuckets - 1 : /\ IsFiniteSet(Times(c.list[i]))
                                      /\ c.count[i] = Cardinality(Times(c.list[i]))
    /\ IsFiniteSet(AllTimes(c)) /\ c.stat_qsize = Cardinality(AllTimes(c))

GoodCal(c) == IsCal(c) /\ Placed(c) /\ Counted(c)

SameYear(c, d) ==
    /\ d.nbuckets = c.nbuckets /\ d.width = c.width
    /\ d.cal_clock = c.cal_clock /\ d.lastbucket = c.lastbucket

LEMMA CalIs ==
    ASSUME NEW c, IsCal(c)
    PROVE  /\ c.nbuckets \in Nat \ {0} /\ c.nbuckets >= 4 /\ c.width \in Nat \ {0} /\ c.cal_clock \in Nat
           /\ c.stat_qsize \in Int
           /\ c.list \in [0 .. c.nbuckets - 1 -> Seq(Event)]
           /\ c.count \in [0 .. c.nbuckets - 1 -> Int]
           /\ c \in Cals(c.nbuckets, c.width, c.cal_clock, c.lastbucket)
  BY DEF IsCal, Cals

\* A bucket's number.
LEMMA HashIs ==
    ASSUME NEW c, IsCal(c), NEW t \in Nat
    PROVE  Hash(c, t) \in 0 .. c.nbuckets - 1
<1> DEFINE w == c.width
           n == c.nbuckets
           q == t \div w
<1>1. w \in Nat \ {0} /\ n \in Nat \ {0}
  BY CalIs
<1> HIDE DEF w, n
<1>2. q \in Nat
  BY <1>1, DivIs
<1> HIDE DEF q
<1>3. q % n \in 0 .. n - 1
  BY <1>1, <1>2, ModIs
<1> QED  BY <1>3 DEF Hash, q, w, n

LEMMA EventsAre ==
    ASSUME NEW c, IsCal(c)
    PROVE  /\ \A e : e \in Events(c) <=> \E i \in 0 .. c.nbuckets - 1 : e \in Range(c.list[i])
           /\ Events(c) \subseteq Event
<1>1. \A e : e \in Events(c) <=> \E i \in 0 .. c.nbuckets - 1 : e \in Range(c.list[i])
  BY DEF Events
<1>2. \A i \in 0 .. c.nbuckets - 1 : Range(c.list[i]) \subseteq Event
  BY CalIs, SeqRange
<1> QED  BY <1>1, <1>2

LEMMA TimesAre ==
    ASSUME NEW s \in Seq(Event)
    PROVE  \A x : x \in Times(s) <=> \E e \in Range(s) : x = e.time
<1>1. Times(s) = {s[i].time : i \in DOMAIN s}
  BY DEF Times
<1>2. Range(s) = {s[i] : i \in DOMAIN s}
  BY DEF Range
<1> QED  BY <1>1, <1>2

\* An event is in the bucket of its time and in no other.
LEMMA InItsBucket ==
    ASSUME NEW c, GoodCal(c), NEW e \in Events(c)
    PROVE  Hash(c, e.time) \in 0 .. c.nbuckets - 1 /\ e \in Range(c.list[Hash(c, e.time)])
<1>1. PICK i \in 0 .. c.nbuckets - 1 : e \in Range(c.list[i])
  BY EventsAre DEF GoodCal
<1>2. Hash(c, e.time) = i
  BY <1>1 DEF GoodCal, Placed
<1> QED  BY <1>1, <1>2

\* A bucket and the numbers that go with it are replaced.
Replace(c, i, s, n) ==
    [c EXCEPT !.list[i] = s, !.count[i] = @ + n, !.stat_qsize = @ + n]

LEMMA ReplaceIs ==
    ASSUME NEW c, IsCal(c), NEW i \in 0 .. c.nbuckets - 1, NEW s \in Seq(Event), NEW n \in Int
    PROVE  /\ Replace(c, i, s, n) \in Cals(c.nbuckets, c.width, c.cal_clock, c.lastbucket)
           /\ IsCal(Replace(c, i, s, n)) /\ SameYear(c, Replace(c, i, s, n))
           /\ Replace(c, i, s, n).list[i] = s
           /\ Replace(c, i, s, n).count[i] = c.count[i] + n
           /\ Replace(c, i, s, n).stat_qsize = c.stat_qsize + n
           /\ \A j \in 0 .. c.nbuckets - 1 : j # i =>
                 /\ Replace(c, i, s, n).list[j] = c.list[j]
                 /\ Replace(c, i, s, n).count[j] = c.count[j]
<1> DEFINE d == Replace(c, i, s, n)
           nb == c.nbuckets
<1>1. /\ nb \in Nat \ {0} /\ c.stat_qsize \in Int
      /\ c.list \in [0 .. nb - 1 -> Seq(Event)] /\ c.count \in [0 .. nb - 1 -> Int]
      /\ c \in Cals(nb, c.width, c.cal_clock, c.lastbucket)
  BY CalIs
<1>2. /\ d.nbuckets = nb /\ d.width = c.width
      /\ d.cal_clock = c.cal_clock /\ d.lastbucket = c.lastbucket
      /\ d.list = [c.list EXCEPT ![i] = s] /\ d.count = [c.count EXCEPT ![i] = c.count[i] + n]
      /\ d.stat_qsize = c.stat_qsize + n
  BY <1>1 DEF Replace, Cals
<1>3. d \in Cals(nb, c.width, c.cal_clock, c.lastbucket)
  <2>1. [c.list EXCEPT ![i] = s] \in [0 .. nb - 1 -> Seq(Event)]
    BY <1>1
  <2>2. [c.count EXCEPT ![i] = c.count[i] + n] \in [0 .. nb - 1 -> Int]
    BY <1>1, SMTT(30)
  <2> DEFINE ll == [c.list EXCEPT ![i] = s]
             cc == [c.count EXCEPT ![i] = c.count[i] + n]
             qq == c.stat_qsize + n
             ww == c.width
             tt == c.cal_clock
             bb == c.lastbucket
  <2>3. d = [c EXCEPT !.list = ll, !.count = cc, !.stat_qsize = qq]
    BY <1>1 DEF Replace, Cals
  <2>4. ll \in [0 .. nb - 1 -> Seq(Event)] /\ cc \in [0 .. nb - 1 -> Int] /\ qq \in Int
    BY <1>1, <2>1, <2>2
  <2> HIDE DEF d, ll, cc, qq, ww, tt, bb, nb
  <2>5. d \in Cals(nb, ww, tt, bb)
    BY <1>1, <2>3, <2>4 DEF Cals, ww, tt, bb
  <2> QED  BY <2>5 DEF ww, tt, bb
<1> HIDE DEF d
<1>4. IsCal(d) /\ SameYear(c, d)
  BY <1>2, <1>3 DEF IsCal, SameYear
<1> QED  BY <1>1, <1>2, <1>3, <1>4 DEF d

\* The times of bucket i and those of all other buckets part the times.
LEMMA TimesParted ==
    ASSUME NEW c, IsCal(c), Placed(c), NEW i \in 0 .. c.nbuckets - 1,
           NEW rest, rest = {e.time : e \in Events(c) \ Range(c.list[i])}
    PROVE  AllTimes(c) = Times(c.list[i]) \cup rest /\ Times(c.list[i]) \cap rest = {}
<1>1. c.list[i] \in Seq(Event)
  BY CalIs
<1>2. \A x : x \in Times(c.list[i]) <=> \E e \in Range(c.list[i]) : x = e.time
  BY <1>1, TimesAre
<1>3. Range(c.list[i]) \subseteq Events(c)
  BY EventsAre
<1>4. AllTimes(c) = Times(c.list[i]) \cup rest
  <2>1. ASSUME NEW x \in AllTimes(c) PROVE x \in Times(c.list[i]) \cup rest
    <3>1. PICK e \in Events(c) : x = e.time
      BY DEF AllTimes
    <3> QED  BY <1>2, <3>1
  <2>2. ASSUME NEW x \in Times(c.list[i]) \cup rest PROVE x \in AllTimes(c)
    <3>1. PICK e \in Events(c) : x = e.time
      BY <1>2, <1>3
    <3> QED  BY <3>1 DEF AllTimes
  <2> QED  BY <2>1, <2>2
<1>5. ASSUME NEW x \in Times(c.list[i]), x \in rest PROVE FALSE
  <2>1. PICK e \in Range(c.list[i]) : x = e.time
    BY <1>2
  <2>2. PICK f \in Events(c) \ Range(c.list[i]) : x = f.time
    BY <1>5
  <2>3. PICK j \in 0 .. c.nbuckets - 1 : f \in Range(c.list[j])
    BY <2>2, EventsAre
  <2>4. Hash(c, e.time) = i /\ Hash(c, f.time) = j
    BY <2>1, <2>3 DEF Placed
  <2> QED  BY <2>1, <2>2, <2>3, <2>4
<1> QED  BY <1>4, <1>5

LEMMA BucketReplaced ==
    ASSUME NEW c, GoodCal(c), NEW i \in 0 .. c.nbuckets - 1,
           NEW s, Sorted(s), \A e \in Range(s) : Hash(c, e.time) = i,
           IsFiniteSet(Times(s)),
           NEW n, n = Cardinality(Times(s)) - Cardinality(Times(c.list[i]))
    PROVE  /\ GoodCal(Replace(c, i, s, n)) /\ SameYear(c, Replace(c, i, s, n))
           /\ Events(Replace(c, i, s, n)) = (Events(c) \ Range(c.list[i])) \cup Range(s)
<1> DEFINE d == Replace(c, i, s, n)
           nb == c.nbuckets
           old == Times(c.list[i])
           new == Times(s)
           rest == {e.time : e \in Events(c) \ Range(c.list[i])}
<1>1. IsCal(c) /\ Placed(c) /\ Counted(c)
  BY DEF GoodCal
<1>2. IsFiniteSet(old) /\ IsFiniteSet(new) /\ Cardinality(old) \in Nat /\ Cardinality(new) \in Nat
  BY <1>1, FS_CardinalityType DEF Counted
<1>3. s \in Seq(Event) /\ n \in Int /\ n = Cardinality(new) - Cardinality(old)
  BY <1>2 DEF Sorted
<1>4. /\ IsCal(d) /\ SameYear(c, d)
      /\ d.list[i] = s /\ d.count[i] = c.count[i] + n /\ d.stat_qsize = c.stat_qsize + n
      /\ \A j \in 0 .. nb - 1 : j # i => d.list[j] = c.list[j] /\ d.count[j] = c.count[j]
  BY <1>1, <1>3, ReplaceIs
<1> HIDE DEF d
<1>5. d.nbuckets = nb /\ \A t : Hash(d, t) = Hash(c, t)
  BY <1>4 DEF SameYear, Hash
<1>6. Placed(d)
  <2>1. ASSUME NEW j \in 0 .. nb - 1
        PROVE  Sorted(d.list[j]) /\ \A e \in Range(d.list[j]) : Hash(d, e.time) = j
    <3>1. CASE j = i
      BY <1>4, <1>5, <3>1
    <3>2. CASE j # i
      BY <1>1, <1>4, <1>5, <3>2 DEF Placed
    <3> QED  BY <3>1, <3>2
  <2> QED  BY <1>5, <2>1 DEF Placed
<1>7. Events(d) = (Events(c) \ Range(c.list[i])) \cup Range(s)
  <2>1. ASSUME NEW e PROVE e \in Events(d) <=> e \in (Events(c) \ Range(c.list[i])) \cup Range(s)
    <3>1. e \in Events(d) <=> \E j \in 0 .. nb - 1 : e \in Range(d.list[j])
      BY <1>4, <1>5, EventsAre
    <3>2. e \in Events(c) <=> \E j \in 0 .. nb - 1 : e \in Range(c.list[j])
      BY <1>1, EventsAre
    <3>3. ASSUME NEW j \in 0 .. nb - 1, e \in Range(c.list[i]), j # i PROVE e \notin Range(c.list[j])
      BY <1>1, <3>3 DEF Placed
    <3> QED  BY <1>4, <3>1, <3>2, <3>3
  <2> QED  BY <2>1
<1>8. Events(d) \ Range(d.list[i]) = Events(c) \ Range(c.list[i])
  <2>1. ASSUME NEW e \in Range(s), e \in Events(c) PROVE e \in Range(c.list[i])
    BY <1>1, <2>1, InItsBucket
  <2> QED  BY <1>4, <1>7, <2>1
<1>9. /\ AllTimes(c) = old \cup rest /\ old \cap rest = {}
      /\ AllTimes(d) = new \cup rest /\ new \cap rest = {}
  <2>1. rest = {e.time : e \in Events(d) \ Range(d.list[i])}
    BY <1>8
  <2>2. i \in 0 .. d.nbuckets - 1
    BY <1>5
  <2> DEFINE r == rest
  <2>3. r = {e.time : e \in Events(c) \ Range(c.list[i])} /\ r = {e.time : e \in Events(d) \ Range(d.list[i])}
    BY <2>1
  <2> HIDE DEF r
  <2>4. AllTimes(c) = Times(c.list[i]) \cup r /\ Times(c.list[i]) \cap r = {}
    BY <1>1, <2>3, TimesParted
  <2>5. AllTimes(d) = Times(d.list[i]) \cup r /\ Times(d.list[i]) \cap r = {}
    BY <1>4, <1>6, <2>2, <2>3, TimesParted
  <2> QED  BY <1>4, <2>4, <2>5 DEF r
<1> HIDE DEF rest, old, new
<1>10. IsFiniteSet(AllTimes(d)) /\ d.stat_qsize = Cardinality(AllTimes(d))
  <2>1. IsFiniteSet(AllTimes(c)) /\ c.stat_qsize = Cardinality(AllTimes(c))
    BY <1>1 DEF Counted
  <2>2. IsFiniteSet(rest) /\ Cardinality(rest) \in Nat
    BY <1>9, <2>1, FS_Subset, FS_CardinalityType
  <2>3. Cardinality(old \cap rest) = 0 /\ Cardinality(new \cap rest) = 0
    BY <1>9, FS_EmptySet
  <2>4. Cardinality(AllTimes(c)) = Cardinality(old) + Cardinality(rest) - 0
    BY <1>2, <1>9, <2>2, <2>3, FS_Union
  <2>5. IsFiniteSet(AllTimes(d)) /\ Cardinality(AllTimes(d)) = Cardinality(new) + Cardinality(rest) - 0
    BY <1>2, <1>9, <2>2, <2>3, FS_Union, ZenonT(40)
  <2> QED  BY <1>2, <1>3, <1>4, <2>1, <2>2, <2>4, <2>5
<1>11. ASSUME NEW j \in 0 .. nb - 1
       PROVE  IsFiniteSet(Times(d.list[j])) /\ d.count[j] = Cardinality(Times(d.list[j]))
  <2>1. CASE j = i
    <3>1. c.count[i] = Cardinality(old)
      BY <1>1 DEF Counted, old
    <3>2. d.list[j] = s /\ d.count[j] = c.count[i] + n
      BY <1>4, <2>1
    <3> QED  BY <1>2, <1>3, <3>1, <3>2 DEF new
  <2>2. CASE j # i
    BY <1>1, <1>4, <2>2 DEF Counted
  <2> QED  BY <2>1, <2>2
<1>12. Counted(d)
  BY <1>5, <1>10, <1>11 DEF Counted
<1> QED  BY <1>4, <1>6, <1>7, <1>12 DEF GoodCal, d

-----------------------------------------------------------------------------
(* Putting an event into its bucket *)

\* Link() puts an event between those of its bucket that come before it and those that
\* come after it.
LEMMA Linked ==
    ASSUME NEW c, GoodCal(c), NEW e \in Event, NEW s, s = c.list[Hash(c, e.time)],
           NEW k \in 1 .. Len(s) + 1,
           \A j \in 1 .. Len(s) : j < k => KEY_LESS_THAN(s[j], e),
           \A j \in 1 .. Len(s) : k <= j => KEY_LESS_THAN(e, s[j]),
           NEW d, d = Link(c, Hash(c, e.time), k, e, e.time \notin Times(s))
    PROVE  /\ GoodCal(d) /\ SameYear(c, d) /\ Events(d) = Events(c) \cup {e}
           /\ d.stat_qsize <= c.stat_qsize + 1
<1> DEFINE i == Hash(c, e.time)
           n == IF e.time \notin Times(s) THEN 1 ELSE 0
           t == InsertAt(s, k, e)
<1>1. e.time \in Nat /\ IsCal(c) /\ Placed(c) /\ Counted(c)
  BY DEF Event, GoodCal
<1>2. i \in 0 .. c.nbuckets - 1
  BY <1>1, HashIs
<1>3. Sorted(s) /\ s \in Seq(Event) /\ \A f \in Range(s) : Hash(c, f.time) = i
  BY <1>1, <1>2 DEF Placed, Sorted
<1>4. IsFiniteSet(Times(s)) /\ Cardinality(Times(s)) \in Nat
  BY <1>1, <1>2, FS_CardinalityType DEF Counted
<1>5. Sorted(t) /\ Range(t) = Range(s) \cup {e}
  BY <1>3, InsertSorted
<1>6. t \in Seq(Event)
  BY <1>5 DEF Sorted
<1>7. d = Replace(c, i, t, n)
  BY DEF Link, Replace
<1> HIDE DEF t, n, i
<1>8. Times(t) = Times(s) \cup {e.time}
  <2>1. \A x : x \in Times(t) <=> \E f \in Range(t) : x = f.time
    BY <1>6, TimesAre
  <2>2. \A x : x \in Times(s) <=> \E f \in Range(s) : x = f.time
    BY <1>3, TimesAre
  <2>3. ASSUME NEW x PROVE x \in Times(t) <=> x \in Times(s) \cup {e.time}
    BY <1>5, <2>1, <2>2
  <2> QED  BY <2>3
<1>9. IsFiniteSet(Times(t)) /\ n = Cardinality(Times(t)) - Cardinality(Times(s)) /\ n \in 0 .. 1
  <2> DEFINE x == e.time
             T == Times(s)
  <2>1. /\ IsFiniteSet(T \cup {x})
        /\ Cardinality(T \cup {x}) = IF x \in T THEN Cardinality(T) ELSE Cardinality(T) + 1
    <3> HIDE DEF x, T
    <3> QED  BY <1>4, FS_AddElement DEF T
  <2> QED  BY <1>4, <1>8, <2>1 DEF n
<1>10. \A f \in Range(t) : Hash(c, f.time) = i
  BY <1>3, <1>5 DEF i
<1>11. n = Cardinality(Times(t)) - Cardinality(Times(c.list[i]))
  BY <1>9 DEF i
<1>12. /\ GoodCal(d) /\ SameYear(c, d)
       /\ Events(d) = (Events(c) \ Range(c.list[i])) \cup Range(t)
  BY <1>2, <1>5, <1>7, <1>9, <1>10, <1>11, BucketReplaced
<1>13. d.stat_qsize = c.stat_qsize + n /\ c.stat_qsize \in Int
  <2>1. n \in Int
    BY <1>9
  <2>2. c.stat_qsize \in Int
    BY <1>1, CalIs
  <2>3. Replace(c, i, t, n).stat_qsize = c.stat_qsize + n
    BY <1>1, <1>2, <1>6, <2>1, ReplaceIs
  <2> QED  BY <1>7, <2>2, <2>3
<1>14. Range(s) \subseteq Events(c) /\ s = c.list[i]
  BY <1>1, <1>2, EventsAre DEF i
<1> QED  BY <1>5, <1>9, <1>12, <1>13, <1>14

\* insert2() puts an event before all others of its time.
LEMMA Inserted2 ==
    ASSUME NEW c, GoodCal(c), NEW e \in Event,
           \A f \in Events(c) : f.time = e.time => e.uid < f.uid
    PROVE  /\ GoodCal(insert2(c, e)) /\ SameYear(c, insert2(c, e))
           /\ Events(insert2(c, e)) = Events(c) \cup {e}
<1> DEFINE i == Hash(c, e.time)
           s == c.list[i]
           n == Len(s)
           T == {j \in DOMAIN s : e.time <= s[j].time} \cup {n + 1}
           k == Min(T)
           fresh == k > n \/ s[k].time # e.time
<1>1. e.time \in Nat /\ IsCal(c) /\ Placed(c) /\ Counted(c)
  BY DEF Event, GoodCal
<1>2. i \in 0 .. c.nbuckets - 1
  BY <1>1, HashIs
<1>3. /\ s \in Seq(Event) /\ n \in Nat /\ DOMAIN s = 1 .. n
      /\ \A a, b \in 1 .. n : a < b => KEY_LESS_THAN(s[a], s[b])
  BY <1>1, <1>2 DEF Placed, Sorted
<1>4. insert2(c, e) = Link(c, i, k, e, fresh)
  BY DEF insert2
<1>5. \A f \in Range(s) : f.time = e.time => e.uid < f.uid
  BY <1>1, <1>2, EventsAre
<1>6. \A j \in 1 .. n : s[j] \in Event /\ s[j] \in Range(s)
  BY <1>3 DEF Range
<1>7. \A f \in Event : f.time \in Nat /\ f.uid \in Nat
  BY DEF Event
<1>8. \A x : x \in Times(s) <=> \E j \in 1 .. n : x = s[j].time
  BY <1>3 DEF Times
<1> HIDE DEF s, n
<1>9. k \in T /\ \A j \in T : k <= j
  <2>1. T \in SUBSET Nat /\ T # {}
    BY <1>3
  <2> HIDE DEF T
  <2> QED  BY <2>1, LeastNumber DEF Min
<1>10. k \in 1 .. n + 1 /\ (k <= n => e.time <= s[k].time)
  BY <1>3, <1>9
<1>11. ASSUME NEW j \in 1 .. n, j < k PROVE s[j].time < e.time
  <2>1. j \notin T
    <3> HIDE DEF k, T
    <3> QED  BY <1>9, <1>10, <1>11
  <2> QED  BY <1>3, <1>6, <1>7, <2>1
<1> HIDE DEF k, T
<1>12. ASSUME NEW j \in 1 .. n, k <= j PROVE s[k].time <= s[j].time /\ e.time <= s[k].time /\ k \in 1 .. n
  <2>1. k \in 1 .. n /\ e.time <= s[k].time
    BY <1>3, <1>10, <1>12
  <2>2. k = j \/ KEY_LESS_THAN(s[k], s[j])
    BY <1>3, <1>12, <2>1
  <2> QED  BY <1>6, <1>7, <2>1, <2>2 DEF KEY_LESS_THAN
<1>13. fresh <=> e.time \notin Times(s)
  <2>1. ASSUME NEW j \in 1 .. n, e.time = s[j].time PROVE ~fresh
    <3>1. k <= j
      BY <1>6, <1>7, <1>10, <1>11, <2>1
    <3>2. s[k].time <= s[j].time /\ e.time <= s[k].time /\ k \in 1 .. n
      BY <1>12, <3>1
    <3> QED  BY <1>3, <1>6, <1>7, <2>1, <3>2
  <2>2. ~fresh => k \in 1 .. n /\ e.time = s[k].time
    BY <1>3, <1>10
  <2> QED  BY <1>8, <2>1, <2>2
<1>14. \A j \in 1 .. n : j < k => KEY_LESS_THAN(s[j], e)
  BY <1>11 DEF KEY_LESS_THAN
<1>15. ASSUME NEW j \in 1 .. n, k <= j PROVE KEY_LESS_THAN(e, s[j])
  <2>1. e.time <= s[j].time
    BY <1>6, <1>7, <1>12, <1>15
  <2> QED  BY <1>5, <1>6, <1>7, <2>1 DEF KEY_LESS_THAN
<1>16. s = c.list[Hash(c, e.time)] /\ n = Len(s)
  BY DEF s, i, n
<1>17. /\ k \in 1 .. Len(s) + 1
       /\ \A j \in 1 .. Len(s) : j < k => KEY_LESS_THAN(s[j], e)
       /\ \A j \in 1 .. Len(s) : k <= j => KEY_LESS_THAN(e, s[j])
  BY <1>10, <1>14, <1>15, <1>16
<1> DEFINE d == insert2(c, e)
<1>18. d = Link(c, Hash(c, e.time), k, e, e.time \notin Times(s))
  <2> HIDE DEF fresh
  <2> QED  BY <1>4, <1>13 DEF Link
<1> HIDE DEF d, i
<1>19. GoodCal(d) /\ SameYear(c, d) /\ Events(d) = Events(c) \cup {e}
  BY <1>16, <1>17, <1>18, Linked
<1> QED  BY <1>19 DEF d

\* The place insert() finds is after all other events of the same time.
LEMMA LastPlace ==
    ASSUME NEW s, Sorted(s), NEW e \in Event, \A f \in Range(s) : f.time = e.time => f.uid < e.uid,
           NEW T, T = {0} \cup {j \in DOMAIN s : s[j].time <= e.time}
    PROVE  /\ Max(T) + 1 \in 1 .. Len(s) + 1
           /\ (Max(T) = 0 \/ s[Max(T)].time < e.time) <=> e.time \notin Times(s)
           /\ \A j \in 1 .. Len(s) : j < Max(T) + 1 => KEY_LESS_THAN(s[j], e)
           /\ \A j \in 1 .. Len(s) : Max(T) + 1 <= j => KEY_LESS_THAN(e, s[j])
<1> DEFINE n == Len(s)
           k == Max(T)
<1>1. /\ s \in Seq(Event) /\ n \in Nat /\ DOMAIN s = 1 .. n
      /\ \A a, b \in 1 .. n : a < b => KEY_LESS_THAN(s[a], s[b])
  BY DEF Sorted
<1>2. \A j \in 1 .. n : s[j] \in Event /\ s[j] \in Range(s)
  BY <1>1 DEF Range
<1>3. \A f \in Event : f.time \in Nat /\ f.uid \in Nat
  BY DEF Event
<1>4. \A j \in 1 .. n : s[j].time \in Nat /\ s[j].uid \in Nat
  BY <1>2, <1>3
<1>5. e.time \in Nat /\ e.uid \in Nat
  BY <1>3
<1>6. \A x : x \in Times(s) <=> \E j \in 1 .. n : x = s[j].time
  BY <1>1 DEF Times
<1> HIDE DEF n
<1>7. k \in T /\ \A j \in T : j <= k
  <2>1. T \in SUBSET (0 .. n) /\ T # {}
    BY <1>1
  <2>3. \A j \in T : j \in Int
    BY <1>1, <2>1
  <2>4. PICK x \in T : \A y \in T : y <= x
    BY <1>1, <2>1, GreatestNumber
  <2>5. \A y \in T : x >= y
    BY <2>3, <2>4
  <2>6. k \in T /\ \A y \in T : k >= y
    BY <2>5 DEF Max
  <2> QED  BY <2>3, <2>6
<1> HIDE DEF k
<1>8. k \in 0 .. n /\ (k > 0 => s[k].time <= e.time)
  BY <1>1, <1>7
<1>9. ASSUME NEW j \in 1 .. n, k < j PROVE e.time < s[j].time
  <2>1. j \notin T
    BY <1>1, <1>7, <1>8, <1>9
  <2> QED  BY <1>1, <1>4, <1>5, <2>1
<1>10. ASSUME NEW j \in 1 .. n, j <= k PROVE s[j].time <= s[k].time /\ s[k].time <= e.time /\ k \in 1 .. n
  <2>1. k \in 1 .. n /\ s[k].time <= e.time
    BY <1>1, <1>8, <1>10
  <2>2. k = j \/ KEY_LESS_THAN(s[j], s[k])
    BY <1>1, <1>10, <2>1
  <2> QED  BY <1>4, <2>1, <2>2 DEF KEY_LESS_THAN
<1>11. (k = 0 \/ s[k].time < e.time) <=> e.time \notin Times(s)
  <2>1. ASSUME NEW j \in 1 .. n, e.time = s[j].time PROVE k # 0 /\ ~(s[k].time < e.time)
    <3>1. ~(k < j)
      BY <1>4, <1>5, <1>9, <2>1
    <3>2. j <= k
      BY <1>1, <1>8, <3>1
    <3>3. s[j].time <= s[k].time /\ s[k].time <= e.time /\ k \in 1 .. n
      BY <1>10, <3>2
    <3> QED  BY <1>1, <1>4, <1>5, <2>1, <3>3
  <2>2. ASSUME k # 0, ~(s[k].time < e.time) PROVE k \in 1 .. n /\ e.time = s[k].time
    <3>1. k \in 1 .. n /\ s[k].time <= e.time
      BY <1>1, <1>8, <2>2
    <3> QED  BY <1>4, <1>5, <2>2, <3>1
  <2> QED  BY <1>6, <2>1, <2>2
<1>12. ASSUME NEW j \in 1 .. n, k + 1 <= j PROVE KEY_LESS_THAN(e, s[j])
  BY <1>1, <1>8, <1>9, <1>12 DEF KEY_LESS_THAN
<1>13. ASSUME NEW j \in 1 .. n, j < k + 1 PROVE KEY_LESS_THAN(s[j], e)
  <2>1. j <= k
    BY <1>1, <1>8, <1>13
  <2>2. s[j].time <= s[k].time /\ s[k].time <= e.time /\ k \in 1 .. n
    BY <1>10, <2>1
  <2>3. s[j].time <= e.time
    BY <1>4, <1>5, <2>2
  <2>4. s[j].time = e.time => s[j].uid < e.uid
    BY <1>2
  <2> QED  BY <1>4, <1>5, <2>3, <2>4 DEF KEY_LESS_THAN
<1>14. k + 1 \in 1 .. n + 1
  BY <1>1, <1>8
<1> QED  BY <1>11, <1>12, <1>13, <1>14 DEF k, n

\* Where insert() looks.
UpTo(s, t) == {0} \cup {j \in DOMAIN s : s[j].time <= t}

LEMMA LinkedLast ==
    ASSUME NEW c, GoodCal(c), NEW e \in Event,
           \A f \in Events(c) : f.time = e.time => f.uid < e.uid,
           NEW s, s = c.list[Hash(c, e.time)],
           NEW k, k = Max(UpTo(s, e.time)), NEW p, p = k + 1,
           NEW n, n = (IF k = 0 \/ s[k].time < e.time THEN 1 ELSE 0),
           NEW d, d = Replace(c, Hash(c, e.time), InsertAt(s, p, e), n)
    PROVE  /\ GoodCal(d) /\ SameYear(c, d) /\ Events(d) = Events(c) \cup {e}
           /\ d.stat_qsize <= c.stat_qsize + 1
<1> DEFINE T == UpTo(s, e.time)
           fresh == k = 0 \/ s[k].time < e.time
<1>1. e.time \in Nat /\ IsCal(c) /\ Placed(c)
  BY DEF Event, GoodCal
<1>2. Hash(c, e.time) \in 0 .. c.nbuckets - 1
  BY <1>1, HashIs
<1>3. Sorted(s) /\ Range(s) \subseteq Events(c)
  BY <1>1, <1>2, EventsAre DEF Placed
<1>5. d = Replace(c, Hash(c, e.time), InsertAt(s, p, e), n) /\ n = IF fresh THEN 1 ELSE 0
  OBVIOUS
<1>6. /\ p \in 1 .. Len(s) + 1 /\ (fresh <=> e.time \notin Times(s))
      /\ \A j \in 1 .. Len(s) : j < p => KEY_LESS_THAN(s[j], e)
      /\ \A j \in 1 .. Len(s) : p <= j => KEY_LESS_THAN(e, s[j])
  <2>1. \A f \in Range(s) : f.time = e.time => f.uid < e.uid
    BY <1>3
  <2>2. /\ Max(T) + 1 \in 1 .. Len(s) + 1
        /\ (Max(T) = 0 \/ s[Max(T)].time < e.time) <=> e.time \notin Times(s)
        /\ \A j \in 1 .. Len(s) : j < Max(T) + 1 => KEY_LESS_THAN(s[j], e)
        /\ \A j \in 1 .. Len(s) : Max(T) + 1 <= j => KEY_LESS_THAN(e, s[j])
    <3>1. T = {0} \cup {j \in DOMAIN s : s[j].time <= e.time}
      BY DEF UpTo
    <3> HIDE DEF T
    <3> QED  BY <1>3, <2>1, <3>1, LastPlace
  <2> QED  BY <2>2, Zenon
<1> HIDE DEF fresh
<1>8. d = Link(c, Hash(c, e.time), p, e, e.time \notin Times(s))
  BY <1>5, <1>6 DEF Link, Replace
<1> QED  BY <1>6, <1>8, Linked

-----------------------------------------------------------------------------
(* Taking an event out of its bucket *)

\* Events of the same time are neighbours.
LEMMA Neighbours ==
    ASSUME NEW s, Sorted(s), NEW k \in 1 .. Len(s), NEW j \in 1 .. Len(s), j # k,
           s[j].time = s[k].time
    PROVE  \/ k < Len(s) /\ s[k + 1].time = s[k].time
           \/ k > 1 /\ s[k - 1].time = s[k].time
<1>1. /\ s \in Seq(Event) /\ Len(s) \in Nat
      /\ \A a, b \in 1 .. Len(s) : a < b => KEY_LESS_THAN(s[a], s[b])
  BY DEF Sorted
<1>2. \A a \in 1 .. Len(s) : s[a].time \in Nat
  <2>1. \A a \in 1 .. Len(s) : s[a] \in Event
    BY <1>1
  <2>2. \A f \in Event : f.time \in Nat
    BY DEF Event
  <2> QED  BY <2>1, <2>2
<1>3. \A a, b \in 1 .. Len(s) : a <= b => s[a].time <= s[b].time
  BY <1>1, <1>2 DEF KEY_LESS_THAN
<1>4. CASE k < j
  <2>1. k + 1 \in 1 .. Len(s) /\ k <= k + 1 /\ k + 1 <= j
    BY <1>1, <1>4
  <2>2. s[k].time <= s[k + 1].time /\ s[k + 1].time <= s[j].time
    BY <1>3, <2>1
  <2> QED  BY <1>1, <1>2, <1>4, <2>1, <2>2
<1>5. CASE j < k
  <2>1. k - 1 \in 1 .. Len(s) /\ k - 1 <= k /\ j <= k - 1
    BY <1>1, <1>5
  <2>2. s[k - 1].time <= s[k].time /\ s[j].time <= s[k - 1].time
    BY <1>3, <2>1
  <2> QED  BY <1>1, <1>2, <1>5, <2>1, <2>2
<1> QED  BY <1>1, <1>4, <1>5

\* The time of an event taken out is among those left if a neighbour has it.
LEMMA TimeLeft ==
    ASSUME NEW s, Sorted(s), NEW k \in 1 .. Len(s), NEW t \in Seq(Event), Range(t) = Range(s) \ {s[k]}
    PROVE  s[k].time \in Times(t) <=> \E j \in 1 .. Len(s) : j # k /\ s[j].time = s[k].time
<1>1. /\ s \in Seq(Event) /\ Len(s) \in Nat
      /\ \A a, b \in 1 .. Len(s) : a < b => KEY_LESS_THAN(s[a], s[b])
  BY DEF Sorted
<1>2. \A x : x \in Times(t) <=> \E e \in Range(t) : x = e.time
  BY TimesAre
<1>3. \A x : x \in Range(s) <=> \E j \in 1 .. Len(s) : x = s[j]
  BY <1>1, SeqRange
<1>4. ASSUME NEW j \in 1 .. Len(s), j # k PROVE s[j] # s[k]
  <2>1. s[j] \in Event /\ s[k] \in Event
    BY <1>1
  <2>2. KEY_LESS_THAN(s[j], s[k]) \/ KEY_LESS_THAN(s[k], s[j])
    BY <1>1, <1>4
  <2> QED  BY <2>1, <2>2, KeyOrder
<1>5. ASSUME s[k].time \in Times(t) PROVE \E j \in 1 .. Len(s) : j # k /\ s[j].time = s[k].time
  <2>1. PICK e \in Range(t) : s[k].time = e.time
    BY <1>2, <1>5
  <2>2. PICK j \in 1 .. Len(s) : e = s[j]
    BY <1>3, <2>1
  <2> QED  BY <2>1, <2>2
<1>6. ASSUME NEW j \in 1 .. Len(s), j # k, s[j].time = s[k].time PROVE s[k].time \in Times(t)
  <2>1. s[j] \in Range(s) /\ s[j] # s[k]
    BY <1>3, <1>4, <1>6
  <2> QED  BY <1>2, <1>6, <2>1
<1> QED  BY <1>5, <1>6

\* A bucket loses an event, and n distinct times.
Lower(c, i, t, n) ==
    [c EXCEPT !.list[i] = t, !.count[i] = @ - n, !.stat_qsize = @ - n]

LEMMA Removed ==
    ASSUME NEW c, GoodCal(c), NEW i \in 0 .. c.nbuckets - 1, NEW s, s = c.list[i],
           NEW e \in Range(s), NEW t, Sorted(t), Range(t) = Range(s) \ {e},
           NEW n, n = (IF e.time \in Times(t) THEN 0 ELSE 1),
           NEW d, d = Lower(c, i, t, n)
    PROVE  GoodCal(d) /\ SameYear(c, d) /\ Events(d) = Events(c) \ {e} /\ d.stat_qsize <= c.stat_qsize
<1> DEFINE m == 0 - n
<1>1. IsCal(c) /\ Placed(c) /\ Counted(c)
  BY DEF GoodCal
<1>2. /\ Sorted(s) /\ s \in Seq(Event) /\ t \in Seq(Event)
      /\ \A f \in Range(s) : Hash(c, f.time) = i
  BY <1>1 DEF Placed, Sorted
<1>3. IsFiniteSet(Times(s)) /\ Cardinality(Times(s)) \in Nat
  BY <1>1, FS_CardinalityType DEF Counted
<1>4. n \in 0 .. 1 /\ m \in Int
  OBVIOUS
<1>5. d = Replace(c, i, t, m)
  <2>1. c.count \in [0 .. c.nbuckets - 1 -> Int] /\ c.stat_qsize \in Int
    BY <1>1, CalIs
  <2>2. \A x \in Int : x - n = x + m
    BY <1>4
  <2>3. c.count[i] \in Int
    BY <2>1
  <2> HIDE DEF m
  <2>4. c.count[i] - n = c.count[i] + m /\ c.stat_qsize - n = c.stat_qsize + m
    BY <2>1, <2>2, <2>3
  <2> QED  BY <2>4 DEF Replace, Lower
<1>6. Times(t) = IF e.time \in Times(t) THEN Times(s) ELSE Times(s) \ {e.time}
  <2>1. \A x : x \in Times(t) <=> \E f \in Range(t) : x = f.time
    BY <1>2, TimesAre
  <2>2. \A x : x \in Times(s) <=> \E f \in Range(s) : x = f.time
    BY <1>2, TimesAre
  <2>3. ASSUME NEW x PROVE x \in Times(t) <=> x \in Times(s) /\ (x # e.time \/ e.time \in Times(t))
    BY <2>1, <2>2
  <2> QED  BY <2>3
<1>7. IsFiniteSet(Times(t)) /\ n = Cardinality(Times(s)) - Cardinality(Times(t))
  <2> DEFINE x == e.time
             S == Times(s)
  <2>1. /\ IsFiniteSet(S \ {x})
        /\ Cardinality(S \ {x}) = IF x \in S THEN Cardinality(S) - 1 ELSE Cardinality(S)
    <3> HIDE DEF x, S
    <3> QED  BY <1>3, FS_RemoveElement DEF S
  <2>2. e.time \in Times(s)
    BY <1>2, TimesAre
  <2> QED  BY <1>3, <1>6, <2>1, <2>2
<1>8. \A f \in Range(t) : Hash(c, f.time) = i
  BY <1>2
<1>9. m = Cardinality(Times(t)) - Cardinality(Times(c.list[i]))
  <2>1. Cardinality(Times(t)) \in Nat
    BY <1>7, FS_CardinalityType
  <2> QED  BY <1>3, <1>7, <2>1
<1> HIDE DEF m
<1>10. /\ GoodCal(d) /\ SameYear(c, d)
       /\ Events(d) = (Events(c) \ Range(c.list[i])) \cup Range(t)
  BY <1>5, <1>7, <1>8, <1>9, BucketReplaced
<1>11. d.stat_qsize = c.stat_qsize + m /\ c.stat_qsize \in Int
  <2>1. c.stat_qsize \in Int
    BY <1>1, CalIs
  <2>2. Replace(c, i, t, m).stat_qsize = c.stat_qsize + m
    BY <1>1, <1>2, <1>4, ReplaceIs
  <2> QED  BY <1>5, <2>1, <2>2
<1>12. Range(s) \subseteq Events(c)
  BY <1>1, EventsAre
<1>13. d.stat_qsize <= c.stat_qsize
  BY <1>4, <1>11 DEF m
<1> QED  BY <1>10, <1>12, <1>13

LEMMA Unlinked ==
    ASSUME NEW c, GoodCal(c), NEW i, i = c.lastbucket, i \in 0 .. c.nbuckets - 1, c.list[i] # <<>>,
           NEW d, d = Unlink(c)
    PROVE  /\ GoodCal(d) /\ SameYear(c, d) /\ Events(d) = Events(c) \ {c.list[i][1]}
           /\ d.stat_qsize <= c.stat_qsize
<1> DEFINE s == c.list[i]
           t == Tail(s)
           n == IF Len(s) = 1 \/ s[2].time # s[1].time THEN 1 ELSE 0
           e == s[1]
<1>1. IsCal(c) /\ Placed(c)
  BY DEF GoodCal
<1>2. Sorted(s) /\ s # <<>>
  BY <1>1 DEF Placed
<1>3. d = Lower(c, i, t, n)
  BY DEF Unlink, Lower
<1>4. e \in Range(s) /\ Sorted(t) /\ Range(t) = Range(s) \ {e}
  <2> HIDE DEF s
  <2> QED  BY <1>2, ListHead
<1>5. s \in Seq(Event) /\ t \in Seq(Event) /\ Len(s) \in Nat \ {0}
  BY <1>2, <1>4 DEF Sorted
<1> DEFINE one == 1
<1> HIDE DEF s, t
<1>6. s[one].time \in Times(t) <=> \E j \in 1 .. Len(s) : j # one /\ s[j].time = s[one].time
  <2>1. one \in 1 .. Len(s) /\ Range(t) = Range(s) \ {s[one]}
    BY <1>4, <1>5
  <2> HIDE DEF one
  <2> QED  BY <1>2, <1>5, <2>1, TimeLeft
<1>7. e.time \in Times(t) <=> \E j \in 1 .. Len(s) : j # 1 /\ s[j].time = e.time
  BY <1>6
<1>8. ASSUME NEW j \in 1 .. Len(s), j # 1, s[j].time = e.time PROVE 1 < Len(s) /\ s[2].time = e.time
  <2>1. one \in 1 .. Len(s) /\ j # one /\ s[j].time = s[one].time
    BY <1>5, <1>8
  <2> HIDE DEF one
  <2>2. \/ one < Len(s) /\ s[one + 1].time = s[one].time
        \/ one > 1 /\ s[one - 1].time = s[one].time
    BY <1>2, <2>1, Neighbours
  <2> QED  BY <2>2 DEF one
<1>9. n = (IF e.time \in Times(t) THEN 0 ELSE 1)
  <2>1. CASE e.time \in Times(t)
    <3>1. 1 < Len(s) /\ s[2].time = e.time
      BY <1>7, <1>8, <2>1
    <3> QED  BY <1>5, <2>1, <3>1
  <2>2. CASE e.time \notin Times(t)
    <3>1. Len(s) > 1 => s[2].time # e.time
      BY <1>5, <1>7, <2>2
    <3>2. Len(s) = 1 \/ Len(s) > 1
      <4> DEFINE l == Len(s)
      <4>1. l \in Nat \ {0}
        BY <1>5
      <4> HIDE DEF l
      <4>2. l = 1 \/ l > 1
        BY <4>1
      <4> QED  BY <4>2 DEF l
    <3> QED  BY <2>2, <3>1, <3>2
  <2> QED  BY <2>1, <2>2
<1> HIDE DEF n, e
<1>10. s = c.list[i]
  BY DEF s
<1>11. GoodCal(d) /\ SameYear(c, d) /\ Events(d) = Events(c) \ {e} /\ d.stat_qsize <= c.stat_qsize
  BY <1>3, <1>4, <1>9, <1>10, Removed
<1> QED  BY <1>11 DEF e, s

LEMMA Cancelled ==
    ASSUME NEW c, GoodCal(c), NEW e \in Events(c), NEW d, d = cancel(c, e)
    PROVE  /\ GoodCal(d) /\ SameYear(c, d) /\ Events(d) = Events(c) \ {e}
           /\ d.stat_qsize <= c.stat_qsize
<1> DEFINE i == Hash(c, e.time)
           s == c.list[i]
           k == CHOOSE j \in DOMAIN s : s[j] = e
           t == RemoveAt(s, k)
           behind == s[IF k = Len(s) THEN 1 ELSE k + 1]
           ahead == s[IF k = 1 THEN Len(s) ELSE k - 1]
           n == IF Len(s) = 1 \/ (behind.time # e.time /\ ahead.time # e.time)
                THEN 1 ELSE 0
<1>1. IsCal(c) /\ Placed(c)
  BY DEF GoodCal
<1>2. i \in 0 .. c.nbuckets - 1 /\ e \in Range(s)
  BY InItsBucket
<1>3. Sorted(s)
  BY <1>1, <1>2 DEF Placed
<1>4. d = Lower(c, i, t, n)
  BY DEF cancel, Lower
<1>5. s = c.list[i]
  OBVIOUS
<1> HIDE DEF s, i
<1>6. s \in Seq(Event) /\ Len(s) \in Nat /\ DOMAIN s = 1 .. Len(s)
  BY <1>3 DEF Sorted
<1>7. k \in 1 .. Len(s) /\ s[k] = e
  <2>1. \E j \in DOMAIN s : s[j] = e
    BY <1>2, <1>6, SeqRange
  <2> QED  BY <1>6, <2>1
<1> HIDE DEF k
<1>8. Sorted(t) /\ Range(t) = Range(s) \ {e}
  BY <1>3, <1>7, ListRemoves
<1>9. t \in Seq(Event)
  BY <1>8 DEF Sorted
<1> HIDE DEF t
<1>10. e.time \in Times(t) <=> \E j \in 1 .. Len(s) : j # k /\ s[j].time = e.time
  <2>1. Range(t) = Range(s) \ {s[k]}
    BY <1>7, <1>8
  <2>2. s[k].time \in Times(t) <=> \E j \in 1 .. Len(s) : j # k /\ s[j].time = s[k].time
    BY <1>3, <1>7, <1>9, <2>1, TimeLeft
  <2> QED  BY <1>7, <2>2
<1>11. ASSUME NEW j \in 1 .. Len(s), j # k, s[j].time = e.time
       PROVE  \/ k < Len(s) /\ s[k + 1].time = e.time
              \/ k > 1 /\ s[k - 1].time = e.time
  <2>1. s[j].time = s[k].time
    BY <1>7, <1>11
  <2>2. \/ k < Len(s) /\ s[k + 1].time = s[k].time
        \/ k > 1 /\ s[k - 1].time = s[k].time
    BY <1>3, <1>7, <1>11, <2>1, Neighbours
  <2> QED  BY <1>7, <2>2
<1>12. n = (IF e.time \in Times(t) THEN 0 ELSE 1)
  <2>1. CASE e.time \in Times(t)
    <3>1. PICK j \in 1 .. Len(s) : j # k /\ s[j].time = e.time
      BY <1>10, <2>1
    <3>2. Len(s) # 1
      BY <1>6, <1>7, <3>1
    <3>3. behind.time = e.time \/ ahead.time = e.time
      <4>1. \/ k < Len(s) /\ s[k + 1].time = e.time
            \/ k > 1 /\ s[k - 1].time = e.time
        BY <1>11, <3>1
      <4>2. (k < Len(s) => k # Len(s)) /\ (k > 1 => k # 1)
        <5> DEFINE l == Len(s)
        <5>1. l \in Nat /\ k \in 1 .. l
          BY <1>6, <1>7
        <5> HIDE DEF l
        <5>2. (k < l => k # l) /\ (k > 1 => k # 1)
          BY <5>1
        <5> QED  BY <5>2 DEF l
      <4> QED  BY <4>1, <4>2
    <3> QED  BY <2>1, <3>2, <3>3
  <2>2. CASE e.time \notin Times(t)
    <3>1. \A j \in 1 .. Len(s) : j # k => s[j].time # e.time
      BY <1>10, <2>2
    <3>2. Len(s) # 1 => behind.time # e.time /\ ahead.time # e.time
      <4> DEFINE b == IF k = Len(s) THEN 1 ELSE k + 1
                 a == IF k = 1 THEN Len(s) ELSE k - 1
      <4>1. Len(s) # 1 => b \in 1 .. Len(s) /\ b # k /\ a \in 1 .. Len(s) /\ a # k
        <5> SUFFICES ASSUME Len(s) # 1 PROVE b \in 1 .. Len(s) /\ b # k /\ a \in 1 .. Len(s) /\ a # k
          OBVIOUS
        <5> DEFINE l == Len(s)
        <5>1. l \in Nat /\ k \in 1 .. l /\ l # 1
          BY <1>6, <1>7
        <5> HIDE DEF l
        <5>2. (IF k = l THEN 1 ELSE k + 1) \in 1 .. l /\ (IF k = l THEN 1 ELSE k + 1) # k
          BY <5>1
        <5>3. (IF k = 1 THEN l ELSE k - 1) \in 1 .. l /\ (IF k = 1 THEN l ELSE k - 1) # k
          BY <5>1
        <5> QED  BY <5>2, <5>3 DEF l
      <4> HIDE DEF a, b
      <4>2. Len(s) # 1 => s[b].time # e.time /\ s[a].time # e.time
        BY <3>1, <4>1
      <4> QED  BY <4>2 DEF a, b
    <3> QED  BY <2>2, <3>2
  <2> QED  BY <2>1, <2>2
<1> HIDE DEF n
<1> QED  BY <1>2, <1>4, <1>5, <1>8, <1>12, Removed

-----------------------------------------------------------------------------
(* Rebuilding the calendar *)

LEMMA Insert2Type ==
    ASSUME NEW c, IsCal(c), NEW e \in Event
    PROVE  insert2(c, e) \in Cals(c.nbuckets, c.width, c.cal_clock, c.lastbucket)
<1> DEFINE i == Hash(c, e.time)
           s == c.list[i]
           n == Len(s)
           T == {j \in DOMAIN s : e.time <= s[j].time} \cup {n + 1}
           k == Min(T)
           m == IF k > n \/ s[k].time # e.time THEN 1 ELSE 0
           t == InsertAt(s, k, e)
<1>1. i \in 0 .. c.nbuckets - 1
  <2>1. e.time \in Nat
    BY DEF Event
  <2> QED  BY <2>1, HashIs
<1>2. s \in Seq(Event)
  BY <1>1, CalIs
<1>3. insert2(c, e) = Replace(c, i, t, m)
  BY DEF insert2, Link, Replace
<1> HIDE DEF s, i
<1>4. n \in Nat /\ DOMAIN s = 1 .. n
  BY <1>2
<1>5. k \in 1 .. n + 1
  <2>1. T \in SUBSET Nat /\ T # {} /\ T \subseteq 1 .. n + 1
    BY <1>4
  <2> HIDE DEF T
  <2> QED  BY <2>1, LeastNumber DEF Min
<1> HIDE DEF k
<1>6. t \in Seq(Event) /\ m \in Int
  BY <1>2, <1>5, InsertAtShape
<1> HIDE DEF t, m
<1> QED  BY <1>1, <1>3, <1>6, ReplaceIs

\* The calendars of the loop over a bucket.
LEMMA EmptiedIs ==
    ASSUME NEW c, IsCal(c), NEW s \in Seq(Event), NEW S, S = Cals(c.nbuckets, c.width, c.cal_clock, c.lastbucket)
    PROVE  \E r \in [0 .. Len(s) -> S] :
               /\ r[0] = c /\ Emptied(s, c) = r[Len(s)]
               /\ \A k \in 1 .. Len(s) : r[k] = insert2(r[k - 1], s[Len(s) - (k - 1)])
<1> DEFINE n == Len(s)
           F == [k \in 1 .. n |-> [x \in S |-> insert2(x, s[n - (k - 1)])]]
           Body(f) == [k \in 0 .. n |-> IF k = 0 THEN c ELSE insert2(f[k - 1], s[n - (k - 1)])]
           g == CHOOSE f : f = Body(f)
<1>1. n \in Nat /\ \A k \in 1 .. n : s[n - (k - 1)] \in Event
  OBVIOUS
<1>2. c \in S /\ \A x \in S : IsCal(x) /\ SameYear(c, x)
  BY CalIs DEF IsCal, Cals, SameYear
<1>3. ASSUME NEW x \in S, NEW e \in Event PROVE insert2(x, e) \in S
  <2>1. insert2(x, e) \in Cals(x.nbuckets, x.width, x.cal_clock, x.lastbucket)
    BY <1>2, Insert2Type
  <2> QED  BY <1>2, <2>1 DEF SameYear
<1>4. Emptied(s, c) = g[n]
  BY DEF Emptied
<1> HIDE DEF n
<1>5. \A k \in 1 .. n : \A x \in S : F[k][x] \in S
  BY <1>1, <1>3
<1>6. \A k \in 1 .. n : \A x \in S : F[k][x] = insert2(x, s[n - (k - 1)])
  BY <1>1
<1> HIDE DEF F
<1>7. PICK r \in [0 .. n -> S] : r[0] = c /\ \A k \in 1 .. n : r[k] = F[k][r[k - 1]]
  <2> HIDE DEF Body, g
  <2>1. n \in Nat /\ c \in S
    BY <1>1, <1>2
  <2>2. \E r : Recurs(r, S, n, F, c)
    BY <1>5, <2>1, FoldExists
  <2> QED  BY <2>2 DEF Recurs
<1>8. ASSUME NEW k \in 1 .. n PROVE r[k] = insert2(r[k - 1], s[n - (k - 1)])
  <2>1. k - 1 \in 0 .. n
    BY <1>1
  <2> QED  BY <1>6, <1>7, <2>1
<1>9. r = Body(r)
  <2>1. \A k \in 0 .. n : r[k] = IF k = 0 THEN c ELSE insert2(r[k - 1], s[n - (k - 1)])
    BY <1>1, <1>7, <1>8
  <2> QED  BY <2>1
<1>10. g = Body(g)
  <2> HIDE DEF Body
  <2> QED  BY <1>9
<1> HIDE DEF g
<1>11. g[0] = c /\ \A k \in 1 .. n : g[k] = insert2(g[k - 1], s[n - (k - 1)])
  <2> DEFINE h == Body(g)
  <2>1. h[0] = c /\ \A k \in 1 .. n : h[k] = insert2(g[k - 1], s[n - (k - 1)])
    BY <1>1
  <2>2. g = h
    BY <1>10
  <2> HIDE DEF h
  <2> QED  BY <2>1, <2>2
<1> HIDE DEF Body
<1> DEFINE T == {m \in Nat : m <= n => g[m] = r[m]}
<1>12. 0 \in T
  BY <1>7, <1>11
<1>13. ASSUME NEW m \in Nat, m \in T PROVE m + 1 \in T
  <2>1. m + 1 <= n => m + 1 \in 1 .. n /\ g[m] = r[m] /\ (m + 1) - 1 = m
    BY <1>1, <1>13
  <2> QED  BY <1>8, <1>11, <2>1
<1>14. Nat \subseteq T
  <2> HIDE DEF T
  <2> QED  BY <1>12, <1>13, InductionOnNat
<1>15. g[n] = r[n]
  BY <1>1, <1>14
<1> QED  BY <1>4, <1>7, <1>8, <1>15 DEF n

\* The events of a sorted bucket, whose times are new to the calendar, go over.
LEMMA EmptiedMoves ==
    ASSUME NEW c, GoodCal(c), NEW s, Sorted(s),
           \A e \in Range(s) : \A f \in Events(c) : e.time # f.time
    PROVE  /\ GoodCal(Emptied(s, c)) /\ SameYear(c, Emptied(s, c))
           /\ Events(Emptied(s, c)) = Events(c) \cup Range(s)
<1> DEFINE n == Len(s)
           S == Cals(c.nbuckets, c.width, c.cal_clock, c.lastbucket)
<1>1. /\ s \in Seq(Event) /\ n \in Nat
      /\ \A i, j \in 1 .. n : i < j => KEY_LESS_THAN(s[i], s[j])
  BY DEF Sorted
<1>2. \A x : x \in Range(s) <=> \E j \in 1 .. n : x = s[j]
  BY <1>1, SeqRange
<1>3. \A j \in 1 .. n : s[j] \in Event
  BY <1>1
<1>4. \A f \in Event : f.time \in Nat /\ f.uid \in Nat
  BY DEF Event
<1>5. PICK r : /\ r[0] = c /\ Emptied(s, c) = r[n]
               /\ \A k \in 1 .. n : r[k] = insert2(r[k - 1], s[n - (k - 1)])
  <2>1. IsCal(c)
    BY DEF GoodCal
  <2> DEFINE Set == S
  <2>2. Set = Cals(c.nbuckets, c.width, c.cal_clock, c.lastbucket)
    OBVIOUS
  <2> HIDE DEF Set
  <2> QED  BY <1>1, <2>1, <2>2, EmptiedIs
<1> HIDE DEF n
<1> DEFINE ends(k) == {s[j] : j \in n - k + 1 .. n}
           Holds(k) == GoodCal(r[k]) /\ SameYear(c, r[k]) /\ Events(r[k]) = Events(c) \cup ends(k)
           T == {k \in Nat : k <= n => Holds(k)}
<1>6. 0 \in T
  <2>1. ends(0) = {}
    BY <1>1
  <2>2. GoodCal(r[0]) /\ SameYear(c, r[0]) /\ Events(r[0]) = Events(c)
    BY <1>5 DEF SameYear
  <2> QED  BY <2>1, <2>2
<1>7. ASSUME NEW k \in Nat, k \in T PROVE k + 1 \in T
  <2> SUFFICES ASSUME k + 1 <= n PROVE Holds(k + 1)
    OBVIOUS
  <2> DEFINE a == n - k
             e == s[a]
             x == r[k]
             y == r[k + 1]
  <2>1. a \in 1 .. n /\ k + 1 \in 1 .. n /\ n - ((k + 1) - 1) = a /\ (k + 1) - 1 = k
    BY <1>1
  <2>2. GoodCal(x) /\ SameYear(c, x) /\ Events(x) = Events(c) \cup ends(k)
    BY <1>1, <1>7
  <2>3. y = insert2(x, e)
    BY <1>5, <2>1
  <2>4. e \in Event /\ e \in Range(s)
    BY <1>2, <1>3, <2>1
  <2>5. ASSUME NEW f \in Events(x), f.time = e.time PROVE e.uid < f.uid
    <3>1. f \notin Events(c)
      BY <2>4, <2>5
    <3>2. PICK j \in n - k + 1 .. n : f = s[j]
      BY <2>2, <3>1
    <3>3. j \in 1 .. n /\ a < j
      BY <1>1, <2>1, <3>2
    <3>4. KEY_LESS_THAN(e, f) /\ f \in Event
      BY <1>1, <1>3, <2>1, <3>2, <3>3
    <3> QED  BY <1>4, <2>4, <2>5, <3>4 DEF KEY_LESS_THAN
  <2>6. ends(k + 1) = ends(k) \cup {e}
    <3>1. \A j : j \in n - (k + 1) + 1 .. n <=> j \in n - k + 1 .. n \/ j = a
      BY <1>1
    <3> QED  BY <3>1
  <2> HIDE DEF x, y, e, ends, a
  <2>7. GoodCal(y) /\ SameYear(x, y) /\ Events(y) = Events(x) \cup {e}
    BY <2>2, <2>3, <2>4, <2>5, Inserted2
  <2>8. SameYear(c, y)
    BY <2>2, <2>7 DEF SameYear
  <2>9. Events(y) = Events(c) \cup ends(k + 1)
    BY <2>2, <2>6, <2>7
  <2> QED  BY <2>7, <2>8, <2>9 DEF y
<1>8. Nat \subseteq T
  <2> HIDE DEF T
  <2> QED  BY <1>6, <1>7, InductionOnNat
<1>9. Holds(n)
  <2> HIDE DEF Holds
  <2>1. n \in T
    <3> HIDE DEF T
    <3> QED  BY <1>1, <1>8
  <2> QED  BY <1>1, <2>1
<1>10. ends(n) = Range(s)
  <2>1. \A j : j \in n - n + 1 .. n <=> j \in 1 .. n
    BY <1>1
  <2> QED  BY <1>2, <2>1
<1> QED  BY <1>5, <1>9, <1>10

\* The calendars of the loop over the buckets.
LEMMA MovedIs ==
    ASSUME NEW c, IsCal(c), NEW d, IsCal(d)
    PROVE  \E r : /\ r[0] = d /\ Moved(c, d) = r[c.nbuckets]
                  /\ \A b \in 1 .. c.nbuckets : r[b] = Emptied(c.list[b - 1], r[b - 1])
<1> DEFINE n == c.nbuckets
           S == Cals(d.nbuckets, d.width, d.cal_clock, d.lastbucket)
           F == [b \in 1 .. n |-> [x \in S |-> Emptied(c.list[b - 1], x)]]
           Body(f) == [b \in 0 .. n |-> IF b = 0 THEN d ELSE Emptied(c.list[b - 1], f[b - 1])]
           g == CHOOSE f : f = Body(f)
<1>1. n \in Nat /\ \A b \in 1 .. n : c.list[b - 1] \in Seq(Event)
  <2>1. n \in Nat /\ c.list \in [0 .. n - 1 -> Seq(Event)]
    BY CalIs
  <2>2. \A b \in 1 .. n : b - 1 \in 0 .. n - 1
    BY <2>1
  <2> QED  BY <2>1, <2>2
<1>2. d \in S /\ \A x \in S : IsCal(x) /\ SameYear(d, x)
  <2>1. /\ d.nbuckets \in Nat /\ d.nbuckets >= 4 /\ d.width \in Nat \ {0} /\ d.cal_clock \in Nat
        /\ d \in S
    BY DEF IsCal
  <2>2. ASSUME NEW x \in S PROVE IsCal(x) /\ SameYear(d, x)
    <3>1. SameYear(d, x)
      BY <2>2 DEF Cals, SameYear
    <3> HIDE DEF Body, g, F
    <3> QED  BY <2>1, <2>2, <3>1 DEF IsCal, SameYear
  <2> QED  BY <2>1, <2>2
<1>3. ASSUME NEW x \in S, NEW s \in Seq(Event) PROVE Emptied(s, x) \in S
  <2> DEFINE R == Cals(x.nbuckets, x.width, x.cal_clock, x.lastbucket)
  <2>1. R = S
    BY <1>2 DEF SameYear
  <2>2. R = Cals(x.nbuckets, x.width, x.cal_clock, x.lastbucket)
    OBVIOUS
  <2> HIDE DEF R
  <2>3. PICK r \in [0 .. Len(s) -> R] : Emptied(s, x) = r[Len(s)]
    BY <1>2, <2>2, EmptiedIs
  <2>4. Len(s) \in 0 .. Len(s)
    OBVIOUS
  <2> QED  BY <2>1, <2>3, <2>4
<1>4. Moved(c, d) = g[n]
  BY DEF Moved
<1> HIDE DEF n, S
<1>5. \A b \in 1 .. n : \A x \in S : F[b][x] \in S
  BY <1>1, <1>3
<1>6. \A b \in 1 .. n : \A x \in S : F[b][x] = Emptied(c.list[b - 1], x)
  BY <1>1
<1> HIDE DEF F
<1>7. PICK r \in [0 .. n -> S] : r[0] = d /\ \A b \in 1 .. n : r[b] = F[b][r[b - 1]]
  <2> HIDE DEF Body, g
  <2>1. n \in Nat /\ d \in S
    BY <1>1, <1>2
  <2>2. \E r : Recurs(r, S, n, F, d)
    BY <1>5, <2>1, FoldExists
  <2> QED  BY <2>2 DEF Recurs
<1>8. ASSUME NEW b \in 1 .. n PROVE r[b] = Emptied(c.list[b - 1], r[b - 1])
  <2>1. b - 1 \in 0 .. n
    BY <1>1
  <2> QED  BY <1>6, <1>7, <2>1
<1>9. r = Body(r)
  <2>1. \A b \in 0 .. n : r[b] = IF b = 0 THEN d ELSE Emptied(c.list[b - 1], r[b - 1])
    BY <1>1, <1>7, <1>8
  <2> QED  BY <2>1
<1>10. g = Body(g)
  <2> HIDE DEF Body
  <2> QED  BY <1>9
<1> HIDE DEF g
<1>11. g[0] = d /\ \A b \in 1 .. n : g[b] = Emptied(c.list[b - 1], g[b - 1])
  <2> DEFINE h == Body(g)
  <2>1. h[0] = d /\ \A b \in 1 .. n : h[b] = Emptied(c.list[b - 1], g[b - 1])
    BY <1>1
  <2>2. g = h
    BY <1>10
  <2> HIDE DEF h
  <2> QED  BY <2>1, <2>2
<1> QED  BY <1>4, <1>11 DEF n

\* All events go over: those of different buckets have different times.
LEMMA MovedAll ==
    ASSUME NEW c, GoodCal(c), NEW d, GoodCal(d), Events(d) = {}
    PROVE  GoodCal(Moved(c, d)) /\ SameYear(d, Moved(c, d)) /\ Events(Moved(c, d)) = Events(c)
<1> DEFINE n == c.nbuckets
<1>1. IsCal(c) /\ Placed(c) /\ IsCal(d)
  BY DEF GoodCal
<1>2. n \in Nat
  BY <1>1, CalIs
<1>3. PICK r : /\ r[0] = d /\ Moved(c, d) = r[n]
               /\ \A b \in 1 .. n : r[b] = Emptied(c.list[b - 1], r[b - 1])
  BY <1>1, MovedIs
<1>4. \A e \in Events(c) : Hash(c, e.time) \in 0 .. n - 1 /\ e \in Range(c.list[Hash(c, e.time)])
  BY InItsBucket
<1>5. \A b \in 0 .. n - 1 : /\ Sorted(c.list[b]) /\ Range(c.list[b]) \subseteq Events(c)
                            /\ \A e \in Range(c.list[b]) : Hash(c, e.time) = b
  BY <1>1, EventsAre DEF Placed
<1> HIDE DEF n
<1> DEFINE first(b) == {e \in Events(c) : Hash(c, e.time) < b}
           Holds(b) == GoodCal(r[b]) /\ SameYear(d, r[b]) /\ Events(r[b]) = first(b)
           T == {b \in Nat : b <= n => Holds(b)}
<1>6. 0 \in T
  <2>1. first(0) = {}
    BY <1>2, <1>4
  <2>2. GoodCal(r[0]) /\ SameYear(d, r[0]) /\ Events(r[0]) = {}
    BY <1>3 DEF SameYear
  <2> QED  BY <2>1, <2>2
<1>7. ASSUME NEW b \in Nat, b \in T PROVE b + 1 \in T
  <2> SUFFICES ASSUME b + 1 <= n PROVE Holds(b + 1)
    OBVIOUS
  <2> DEFINE x == r[b]
             y == r[b + 1]
             s == c.list[b]
  <2>1. b \in 0 .. n - 1 /\ b + 1 \in 1 .. n /\ (b + 1) - 1 = b
    BY <1>2
  <2>2. GoodCal(x) /\ SameYear(d, x) /\ Events(x) = first(b)
    BY <1>2, <1>7
  <2>3. y = Emptied(s, x)
    BY <1>3, <2>1
  <2>4. Sorted(s)
    BY <1>5, <2>1
  <2>5. ASSUME NEW e \in Range(s), NEW f \in Events(x) PROVE e.time # f.time
    <3>1. Hash(c, e.time) = b
      BY <1>5, <2>1
    <3>2. Hash(c, f.time) < b
      BY <2>2
    <3> QED  BY <3>1, <3>2
  <2>6. first(b + 1) = first(b) \cup Range(s)
    <3>1. ASSUME NEW e \in first(b + 1) PROVE e \in first(b) \cup Range(s)
      <4>1. e \in Events(c) /\ Hash(c, e.time) < b + 1 /\ Hash(c, e.time) \in Nat
        BY <1>2, <1>4, <3>1
      <4>2. Hash(c, e.time) < b \/ Hash(c, e.time) = b
        BY <4>1
      <4> QED  BY <1>4, <4>1, <4>2
    <3>2. ASSUME NEW e \in first(b) \cup Range(s) PROVE e \in first(b + 1)
      <4>1. e \in Events(c) /\ Hash(c, e.time) \in Nat /\ (Hash(c, e.time) < b \/ Hash(c, e.time) = b)
        BY <1>2, <1>4, <1>5, <2>1, <3>2
      <4> QED  BY <4>1
    <3> QED  BY <3>1, <3>2
  <2> HIDE DEF x, y, s, first
  <2>7. GoodCal(y) /\ SameYear(x, y) /\ Events(y) = Events(x) \cup Range(s)
    BY <2>2, <2>3, <2>4, <2>5, EmptiedMoves
  <2>8. SameYear(d, y)
    BY <2>2, <2>7 DEF SameYear
  <2>9. Events(y) = first(b + 1)
    BY <2>2, <2>6, <2>7
  <2> QED  BY <2>7, <2>8, <2>9 DEF y
<1>8. Nat \subseteq T
  <2> HIDE DEF T
  <2> QED  BY <1>6, <1>7, InductionOnNat
<1>9. Holds(n)
  <2> HIDE DEF Holds
  <2>1. n \in T
    <3> HIDE DEF T
    <3> QED  BY <1>2, <1>8
  <2> QED  BY <1>2, <2>1
<1>10. first(n) = Events(c)
  BY <1>2, <1>4
<1> QED  BY <1>3, <1>9, <1>10

\* A calendar that stands in the bucket of its time.
Stands(c) == c.lastbucket = Hash(c, c.cal_clock)

LEMMA ReinitGood ==
    ASSUME NEW n \in Nat, n >= 4, NEW w \in Nat \ {0}, NEW t \in Nat, NEW c, c = reinit(n, w, t)
    PROVE  /\ GoodCal(c) /\ Events(c) = {} /\ c.stat_qsize = 0 /\ Stands(c)
           /\ c.nbuckets = n /\ c.width = w /\ c.cal_clock = t
<1> DEFINE l == (t \div w) % n
<1>1. /\ c.nbuckets = n /\ c.width = w /\ c.cal_clock = t /\ c.lastbucket = l /\ c.stat_qsize = 0
      /\ c.list = [i \in 0 .. n - 1 |-> <<>>] /\ c.count = [i \in 0 .. n - 1 |-> 0]
  BY DEF reinit
<1> HIDE DEF l
<1>2. \A i \in 0 .. n - 1 : c.list[i] = <<>> /\ c.count[i] = 0
  BY <1>1
<1>3. c \in Cals(n, w, t, l)
  <2> DEFINE ll == [i \in 0 .. n - 1 |-> <<>>]
             cc == [i \in 0 .. n - 1 |-> 0]
  <2>1. ll \in [0 .. n - 1 -> Seq(Event)] /\ cc \in [0 .. n - 1 -> Int]
    OBVIOUS
  <2>2. c = [nbuckets |-> n, width |-> w, cal_clock |-> t, lastbucket |-> l, stat_qsize |-> 0,
             list |-> ll, count |-> cc]
    BY DEF reinit, l
  <2> HIDE DEF ll, cc
  <2> QED  BY <2>1, <2>2 DEF Cals
<1>4. IsCal(c)
  BY <1>1, <1>3 DEF IsCal
<1> DEFINE no == <<>>
<1>5. Sorted(no) /\ Range(no) = {} /\ Times(no) = {}
  BY DEF Sorted, Range, Times
<1> HIDE DEF no
<1>6. \A i \in 0 .. n - 1 : c.list[i] = no
  BY <1>2 DEF no
<1>7. Events(c) = {}
  <2>1. \A e : e \in Events(c) <=> \E i \in 0 .. n - 1 : e \in Range(c.list[i])
    BY <1>1, <1>4, EventsAre
  <2> QED  BY <1>5, <1>6, <2>1
<1>8. Placed(c)
  BY <1>1, <1>5, <1>6 DEF Placed
<1>9. AllTimes(c) = {}
  BY <1>7 DEF AllTimes
<1>10. Counted(c)
  BY <1>1, <1>2, <1>5, <1>6, <1>9, FS_EmptySet DEF Counted
<1>11. Stands(c)
  BY <1>1 DEF Stands, Hash, l
<1> QED  BY <1>1, <1>4, <1>7, <1>8, <1>10, <1>11 DEF GoodCal

\* resize() keeps the events, and the time at which the calendar stands.
LEMMA Resized ==
    ASSUME NEW c, GoodCal(c), NEW n \in Nat, NEW d \in resize(c, n)
    PROVE  /\ GoodCal(d) /\ Events(d) = Events(c) /\ Stands(d)
           /\ d.cal_clock = c.cal_clock /\ d.stat_qsize = c.stat_qsize
           /\ d.nbuckets \in Nat /\ d.nbuckets >= n
<1> DEFINE m == IF n < 4 THEN 4 ELSE n
           t == c.cal_clock
<1>1. PICK w \in Widths : d = Moved(c, reinit(m, w, t))
  BY DEF resize
<1>2. w \in Nat \ {0} /\ m \in Nat /\ m >= 4 /\ m >= n
  BY WidthAssumption
<1>3. t \in Nat
  BY CalIs DEF GoodCal
<1> HIDE DEF m, t
<1> DEFINE a == reinit(m, w, t)
<1>4. /\ GoodCal(a) /\ Events(a) = {} /\ Stands(a)
      /\ a.nbuckets = m /\ a.width = w /\ a.cal_clock = t
  <2>1. a = reinit(m, w, t)
    OBVIOUS
  <2> HIDE DEF a
  <2> QED  BY <1>2, <1>3, <2>1, ReinitGood
<1>5. d = Moved(c, a)
  BY <1>1
<1> HIDE DEF a
<1>6. GoodCal(d) /\ SameYear(a, d) /\ Events(d) = Events(c)
  BY <1>4, <1>5, MovedAll
<1>7. Stands(d)
  BY <1>4, <1>6 DEF Stands, SameYear, Hash
<1>8. d.stat_qsize = c.stat_qsize
  <2>1. AllTimes(d) = AllTimes(c)
    BY <1>6 DEF AllTimes
  <2> QED  BY <1>6, <2>1 DEF GoodCal, Counted
<1>9. d.cal_clock = c.cal_clock /\ d.nbuckets = m
  BY <1>4, <1>6 DEF SameYear, t
<1> QED  BY <1>2, <1>6, <1>7, <1>8, <1>9

-----------------------------------------------------------------------------
(* insert() *)

\* What holds of the calendar between two calls.
CalOK(c) ==
    /\ GoodCal(c) /\ Stands(c)
    /\ c.stat_qsize <= top_threshold(c)
    /\ \A e \in Events(c) : c.cal_clock <= e.time

\* The calendar is turned to time t and bucket l.
Turn(c, t, l) == [c EXCEPT !.cal_clock = t, !.lastbucket = l]

LEMMA Turned ==
    ASSUME NEW c, GoodCal(c), NEW t \in Nat, NEW l, NEW d, d = Turn(c, t, l)
    PROVE  /\ GoodCal(d) /\ Events(d) = Events(c)
           /\ d.cal_clock = t /\ d.lastbucket = l
           /\ d.nbuckets = c.nbuckets /\ d.width = c.width /\ d.list = c.list
           /\ d.stat_qsize = c.stat_qsize
           /\ \A x : Hash(d, x) = Hash(c, x)
<1>1. IsCal(c) /\ Placed(c) /\ Counted(c)
  BY DEF GoodCal
<1>2. /\ c \in Cals(c.nbuckets, c.width, c.cal_clock, c.lastbucket)
      /\ c.nbuckets \in Nat /\ c.nbuckets >= 4 /\ c.width \in Nat \ {0}
  BY <1>1 DEF IsCal
<1>3. /\ d.cal_clock = t /\ d.lastbucket = l
      /\ d.nbuckets = c.nbuckets /\ d.width = c.width /\ d.list = c.list /\ d.count = c.count
      /\ d.stat_qsize = c.stat_qsize
  BY <1>2 DEF Turn, Cals
<1>4. d \in Cals(c.nbuckets, c.width, t, l)
  BY <1>2 DEF Turn, Cals
<1>5. IsCal(d)
  BY <1>2, <1>3, <1>4 DEF IsCal
<1>6. \A x : Hash(d, x) = Hash(c, x)
  BY <1>3 DEF Hash
<1>7. Events(d) = Events(c)
  BY <1>3 DEF Events
<1>8. Placed(d)
  BY <1>1, <1>3, <1>6 DEF Placed
<1>9. AllTimes(d) = AllTimes(c)
  BY <1>7 DEF AllTimes
<1>10. Counted(d)
  BY <1>1, <1>3, <1>9 DEF Counted
<1> QED  BY <1>3, <1>5, <1>6, <1>7, <1>8, <1>10 DEF GoodCal

\* insert() keeps the calendar in shape: an event before the calendar's time turns it back,
\* and a calendar that has become too full is rebuilt.
LEMMA Inserts ==
    ASSUME NEW a, CalOK(a), NEW e \in Event,
           \A f \in Events(a) : f.uid < e.uid, NEW b \in insert(a, e)
    PROVE  CalOK(b) /\ Events(b) = Events(a) \cup {e}
<1> DEFINE i == Hash(a, e.time)
           c == IF a.cal_clock > e.time THEN [a EXCEPT !.cal_clock = e.time, !.lastbucket = i] ELSE a
           s == c.list[i]
           k == Max(UpTo(s, e.time))
           n == IF k = 0 \/ s[k].time < e.time THEN 1 ELSE 0
           p == k + 1
           d == Replace(c, i, InsertAt(s, p, e), n)
<1>1. b \in IF d.stat_qsize > top_threshold(d) THEN resize(d, 2 * d.nbuckets) ELSE {d}
  BY DEF insert, Link, Replace, UpTo
<1>2. /\ GoodCal(a) /\ Stands(a) /\ a.stat_qsize <= top_threshold(a)
      /\ \A f \in Events(a) : a.cal_clock <= f.time
  BY DEF CalOK
<1>3. e.time \in Nat /\ a.cal_clock \in Nat /\ a.nbuckets \in Nat /\ a.stat_qsize \in Int
  BY <1>2, CalIs DEF Event, GoodCal
<1>4. \A f \in Events(a) : f \in Event /\ f.time \in Nat
  BY <1>2, EventsAre DEF GoodCal, Event
<1>5. /\ GoodCal(c) /\ Events(c) = Events(a) /\ Stands(c) /\ c.cal_clock \in Nat
      /\ c.nbuckets = a.nbuckets /\ c.stat_qsize = a.stat_qsize /\ Hash(c, e.time) = i
      /\ c.cal_clock <= e.time /\ \A f \in Events(a) : c.cal_clock <= f.time
  <2>1. CASE a.cal_clock > e.time
    <3>1. c = Turn(a, e.time, i)
      BY <2>1 DEF Turn
    <3> HIDE DEF c, i
    <3>2. /\ GoodCal(c) /\ Events(c) = Events(a)
          /\ c.cal_clock = e.time /\ c.lastbucket = i
          /\ c.nbuckets = a.nbuckets /\ c.stat_qsize = a.stat_qsize
          /\ \A x : Hash(c, x) = Hash(a, x)
      BY <1>2, <1>3, <3>1, Turned
    <3>3. Stands(c)
      BY <3>2 DEF Stands, i
    <3>4. \A f \in Events(a) : e.time <= f.time
      BY <1>2, <1>3, <1>4, <2>1
    <3> QED  BY <1>3, <3>2, <3>3, <3>4 DEF i
  <2>2. CASE ~(a.cal_clock > e.time)
    <3>1. c = a
      BY <2>2
    <3> HIDE DEF c
    <3> QED  BY <1>2, <1>3, <2>2, <3>1
  <2> QED  BY <2>1, <2>2
<1> HIDE DEF c
<1>6. /\ GoodCal(d) /\ SameYear(c, d) /\ Events(d) = Events(c) \cup {e}
      /\ d.stat_qsize <= c.stat_qsize + 1
  <2>1. \A f \in Events(c) : f.time = e.time => f.uid < e.uid
    BY <1>5
  <2>2. /\ s = c.list[Hash(c, e.time)]
        /\ d = Replace(c, Hash(c, e.time), InsertAt(s, p, e), n)
    BY <1>5
  <2>3. /\ k = Max(UpTo(s, e.time)) /\ p = k + 1
        /\ n = (IF k = 0 \/ s[k].time < e.time THEN 1 ELSE 0)
    OBVIOUS
  <2> HIDE DEF d, k, s, i, p, n
  <2> QED  BY <1>5, <2>1, <2>2, <2>3, LinkedLast
<1> HIDE DEF d, k, s, i, p, n
<1>7. /\ d.cal_clock = c.cal_clock /\ d.nbuckets = a.nbuckets /\ Stands(d)
      /\ \A f \in Events(a) \cup {e} : d.cal_clock <= f.time
  BY <1>5, <1>6 DEF SameYear, Stands, Hash
<1>8. d.stat_qsize \in Int /\ a.stat_qsize <= 2 * a.nbuckets
  BY <1>2, <1>6, CalIs DEF GoodCal, top_threshold
<1>9. CASE ~(d.stat_qsize > top_threshold(d))
  <2>1. b = d
    BY <1>1, <1>9
  <2>2. d.stat_qsize <= top_threshold(d)
    BY <1>3, <1>7, <1>8, <1>9 DEF top_threshold
  <2> QED  BY <1>5, <1>6, <1>7, <2>1, <2>2 DEF CalOK
<1>10. CASE d.stat_qsize > top_threshold(d)
  <2> DEFINE m == 2 * d.nbuckets
  <2>1. m \in Nat /\ b \in resize(d, m)
    BY <1>1, <1>3, <1>7, <1>10
  <2>2. m = 2 * a.nbuckets
    BY <1>7
  <2> HIDE DEF m
  <2>3. /\ GoodCal(b) /\ Events(b) = Events(d) /\ Stands(b)
        /\ b.cal_clock = d.cal_clock /\ b.stat_qsize = d.stat_qsize
        /\ b.nbuckets \in Nat /\ b.nbuckets >= m
    BY <1>6, <2>1, Resized
  <2>4. b.stat_qsize <= top_threshold(b)
    <3>1. a.nbuckets \in Nat /\ a.nbuckets >= 4
      BY <1>2, CalIs DEF GoodCal
    <3>2. d.stat_qsize <= 2 * a.nbuckets + 1
      BY <1>3, <1>5, <1>6, <1>8
    <3> QED  BY <1>8, <2>2, <2>3, <3>1, <3>2 DEF top_threshold
  <2> QED  BY <1>5, <1>6, <1>7, <2>3, <2>4 DEF CalOK
<1> QED  BY <1>9, <1>10

-----------------------------------------------------------------------------
(* The search for the next event *)

LEMMA YearNumbers ==
    ASSUME NEW w \in Nat \ {0}, NEW N \in Nat, NEW B \in Nat, NEW J \in Nat, NEW K \in Nat, NEW h \in Nat,
           NEW t \in Nat, NEW now \in Nat, NEW j \in Nat,
           B <= now, now < B + w, B + J + K <= t, t < B + J + K + w,
           N >= 4 * w, 2 * h <= N, N < 2 * h + 2,
           j = 0 => J = 0, j = 1 => J = w, j > 1 => J >= w, J + w <= N,
           K = 0 \/ K >= N
    PROVE  t < now + (IF j = 0 THEN h ELSE IF j = 1 THEN h + w ELSE N) <=> K = 0
<1>1. CASE j = 0
  BY <1>1
<1>2. CASE j = 1
  BY <1>2
<1>3. CASE j > 1
  BY <1>3
<1> QED  BY <1>1, <1>2, <1>3

LEMMA YearProducts ==
    ASSUME NEW n \in Nat, n >= 4, NEW w \in Nat \ {0}, NEW b \in Nat, NEW j \in 0 .. n - 2, NEW k \in Nat
    PROVE  /\ w * (b + j + n * k) = w * b + w * j + w * (n * k)
           /\ w * n \in Nat /\ w * n >= 4 * w /\ w * b \in Nat
           /\ w * j \in Nat /\ (j = 0 => w * j = 0) /\ (j = 1 => w * j = w) /\ (j > 1 => w * j >= w)
           /\ w * j + w <= w * n
           /\ w * (n * k) \in Nat /\ (k = 0 => w * (n * k) = 0) /\ (k # 0 => w * (n * k) >= w * n)
<1>1. /\ n * k \in Nat /\ j \in Nat /\ j + 1 \in Nat /\ j + 1 <= n /\ w \in Nat
      /\ (k = 0 => n * k = 0) /\ (k # 0 => n <= n * k)
  OBVIOUS
<1> DEFINE m == n * k
           l == j + 1
           four == 4
           one == 1
<1>2. m \in Nat /\ l \in Nat /\ l <= n /\ four \in Nat /\ four <= n /\ (k # 0 => n <= m)
  BY <1>1
<1>3. one \in Nat /\ (j > 1 => one <= j)
  BY <1>1
<1> HIDE DEF m, l, four, one
<1>4. w * four <= w * n /\ w * n \in Nat
  BY <1>1, <1>2, ProductGrows
<1>5. w * l <= w * n
  BY <1>1, <1>2, ProductGrows
<1>6. k # 0 => w * n <= w * m
  BY <1>1, <1>2, ProductGrows
<1>7. j > 1 => w * one <= w * j
  BY <1>1, <1>3, ProductGrows
<1>8. w * four = 4 * w
  BY DEF four
<1>9. w * l = w * j + w
  BY <1>1 DEF l
<1>10. w * one = w
  BY DEF one
<1>11. w * (b + j + m) = w * b + w * j + w * m
  BY <1>1, <1>2
<1>12. w * m \in Nat /\ w * j \in Nat /\ w * b \in Nat
  BY <1>1, <1>2
<1>13. k = 0 => w * m = 0
  BY <1>1 DEF m
<1>14. (j = 0 => w * j = 0) /\ (j = 1 => w * j = w)
  OBVIOUS
<1>15. /\ w * n >= 4 * w /\ w * j + w <= w * n
       /\ (j > 1 => w * j >= w) /\ (k # 0 => w * m >= w * n)
  <2> DEFINE N == w * n
             J == w * j
             M == w * m
             L == w * l
             F == w * four
             O == w * one
  <2>1. /\ N \in Nat /\ J \in Nat /\ M \in Nat /\ F = 4 * w /\ F <= N /\ L = J + w /\ L <= N
        /\ (k # 0 => N <= M) /\ (j > 1 => O <= J) /\ O = w
    BY <1>4, <1>5, <1>6, <1>7, <1>8, <1>9, <1>10, <1>12
  <2> HIDE DEF N, J, M, L, F, O
  <2>2. N >= 4 * w /\ J + w <= N /\ (j > 1 => J >= w) /\ (k # 0 => M >= N)
    BY <2>1
  <2> QED  BY <2>2 DEF N, J, M
<1> QED  BY <1>4, <1>11, <1>12, <1>13, <1>14, <1>15 DEF m

LEMMA YearCases ==
    ASSUME NEW c, NEW j \in Nat, NEW N, N = c.width * c.nbuckets
    PROVE  Year(c, j) = IF j = 0 THEN N \div 2 ELSE IF j = 1 THEN (N \div 2) + c.width ELSE N
<1>1. CASE j = 0
  BY <1>1 DEF Year
<1>2. CASE j = 1
  BY <1>2 DEF Year
<1>3. CASE j > 1
  BY <1>3 DEF Year
<1> QED  BY <1>1, <1>2, <1>3

\* The distances by which head() decides whether an event is of this year: for an event k
\* years ahead, in the j-th interval from the current one, the test holds if k is 0.
LEMMA ThisYear ==
    ASSUME NEW c, IsCal(c), NEW t \in Nat, NEW j \in 0 .. c.nbuckets - 2, NEW k \in Nat,
           NEW b, b = c.cal_clock \div c.width, NEW q, q = t \div c.width, q = b + j + c.nbuckets * k
    PROVE  t < c.cal_clock + Year(c, j) <=> k = 0
<1> DEFINE n == c.nbuckets
           w == c.width
           now == c.cal_clock
<1>1. n \in Nat /\ n >= 4 /\ w \in Nat \ {0} /\ now \in Nat /\ j \in 0 .. n - 2 /\ j \in Nat
  BY CalIs
<1>2. b = now \div w /\ q = t \div w /\ q = b + j + n * k
  OBVIOUS
<1> DEFINE N == w * n
           B == w * b
           J == w * j
           K == w * (n * k)
           Q == w * q
           h == N \div 2
           Y == IF j = 0 THEN h ELSE IF j = 1 THEN h + w ELSE N
<1>3. N = w * n
  OBVIOUS
<1>4. Year(c, j) = Y
  <2>1. N = c.width * c.nbuckets
    OBVIOUS
  <2> HIDE DEF N
  <2> QED  BY <1>1, <2>1, YearCases
<1> HIDE DEF n, w, now
<1>5. b \in Nat /\ B <= now /\ now < B + w
  BY <1>1, <1>2, DivIs
<1>6. q \in Nat /\ Q <= t /\ t < Q + w
  BY <1>1, <1>2, DivIs
<1>7. /\ w * (b + j + n * k) = B + J + K
      /\ N \in Nat /\ N >= 4 * w /\ B \in Nat
      /\ J \in Nat /\ (j = 0 => J = 0) /\ (j = 1 => J = w) /\ (j > 1 => J >= w)
      /\ J + w <= N
      /\ K \in Nat /\ (k = 0 => K = 0) /\ (k # 0 => K >= N)
  BY <1>1, <1>5, YearProducts
<1>8. Q = B + J + K
  BY <1>2, <1>7
<1>9. h \in Nat /\ 2 * h <= N /\ N < 2 * h + 2
  <2> DEFINE two == 2
  <2>1. two \in Nat \ {0}
    OBVIOUS
  <2>2. N \in Nat
    BY <1>7
  <2> HIDE DEF two, N
  <2>3. N \div two \in Nat /\ two * (N \div two) <= N /\ N < two * (N \div two) + two
    BY <2>1, <2>2, DivIs
  <2> QED  BY <2>3 DEF two
<1> HIDE DEF N, B, J, K, Q, h
<1>10. B + J + K <= t /\ t < B + J + K + w /\ (K = 0 \/ K >= N) /\ (K = 0 <=> k = 0)
  <2>1. K = 0 <=> k = 0
    BY <1>1, <1>7
  <2> QED  BY <1>6, <1>7, <1>8, <2>1
<1>11. t < now + Y <=> K = 0
  BY <1>1, <1>5, <1>7, <1>9, <1>10, YearNumbers
<1> HIDE DEF Y
<1> QED  BY <1>4, <1>10, <1>11 DEF now

\* The steps of the search visit all buckets, each once.
LEMMA Probes ==
    ASSUME NEW c, IsCal(c), Stands(c)
    PROVE  /\ \A j \in 0 .. c.nbuckets - 1 : Probe(c, j) \in 0 .. c.nbuckets - 1
           /\ \A i, j \in 0 .. c.nbuckets - 1 : Probe(c, i) = Probe(c, j) => i = j
<1> DEFINE n == c.nbuckets
           l == c.lastbucket
<1>1. n \in Nat \ {0} /\ c.cal_clock \in Nat
  BY CalIs
<1>2. l \in 0 .. n - 1
  BY <1>1, HashIs DEF Stands
<1>3. \A j : Probe(c, j) = (l + j) % n
  BY DEF Probe
<1> HIDE DEF n, l
<1>4. ASSUME NEW j \in 0 .. n - 1 PROVE Probe(c, j) \in 0 .. n - 1
  <2> DEFINE x == l + j
  <2>1. x \in Nat
    BY <1>1, <1>2
  <2> HIDE DEF x
  <2>2. x % n \in 0 .. n - 1
    BY <1>1, <2>1, ModIs
  <2> QED  BY <1>3, <2>2 DEF x
<1>5. ASSUME NEW i \in 0 .. n - 1, NEW j \in 0 .. n - 1, Probe(c, i) = Probe(c, j) PROVE i = j
  <2>1. (l + i) % n = (l + j) % n
    BY <1>3, <1>5
  <2> QED  BY <1>1, <1>2, <2>1, StepsDiffer
<1> QED  BY <1>4, <1>5 DEF n

\* An event is found in one step, and is some years ahead.
LEMMA EventStep ==
    ASSUME NEW c, GoodCal(c), Stands(c), NEW e \in Events(c), c.cal_clock <= e.time,
           NEW b, b = c.cal_clock \div c.width
    PROVE  \E j \in 0 .. c.nbuckets - 1, k \in Nat :
               /\ e.time \div c.width = b + j + c.nbuckets * k
               /\ Probe(c, j) = Hash(c, e.time) /\ e \in Range(c.list[Probe(c, j)])
<1> DEFINE n == c.nbuckets
           w == c.width
           q == e.time \div w
<1>1. n \in Nat \ {0} /\ w \in Nat \ {0} /\ c.cal_clock \in Nat /\ e.time \in Nat
  BY CalIs, EventsAre DEF GoodCal, Event
<1>2. b \in Nat /\ q \in Nat /\ b <= q
  <2> DEFINE t == e.time
             u == c.cal_clock
             v == w
  <2>1. t \in Nat /\ u \in Nat /\ v \in Nat \ {0} /\ u <= t
    BY <1>1
  <2>2. b = u \div v /\ q = t \div v
    OBVIOUS
  <2> HIDE DEF t, u, v, q
  <2>3. u \div v <= t \div v /\ u \div v \in Nat /\ t \div v \in Nat
    BY <2>1, DivGrows, DivIs
  <2> QED  BY <2>2, <2>3
<1>3. c.lastbucket = b % n
  BY DEF Stands, Hash
<1>4. Hash(c, e.time) = q % n
  BY DEF Hash
<1>5. e \in Range(c.list[Hash(c, e.time)])
  BY InItsBucket
<1> HIDE DEF n, q
<1>6. PICK j \in 0 .. n - 1, k \in Nat : q = b + j + n * k /\ ((b % n) + j) % n = q % n
  <2>1. PICK j \in 0 .. n - 1, k \in Nat : ComesTo(b, n, j, k, q)
    BY <1>1, <1>2, StepOf
  <2> QED  BY <2>1 DEF ComesTo
<1>7. Probe(c, j) = q % n
  BY <1>3, <1>6 DEF Probe, n
<1> QED  BY <1>4, <1>5, <1>6, <1>7 DEF n, q

\* The first event of a bucket.
LEMMA FrontIs ==
    ASSUME NEW c, GoodCal(c), NEW i \in 0 .. c.nbuckets - 1, c.list[i] # <<>>, NEW f, f = c.list[i][1]
    PROVE  /\ f \in Range(c.list[i]) /\ f \in Events(c) /\ f \in Event
           /\ Hash(c, f.time) = i
           /\ \A e \in Range(c.list[i]) \ {f} : KEY_LESS_THAN(f, e)
<1> DEFINE s == c.list[i]
<1>1. IsCal(c) /\ Placed(c)
  BY DEF GoodCal
<1>2. Sorted(s) /\ s # <<>> /\ \A e \in Range(s) : Hash(c, e.time) = i
  BY <1>1 DEF Placed
<1>3. Range(s) \subseteq Events(c) /\ Events(c) \subseteq Event
  BY <1>1, EventsAre
<1>4. f = s[1]
  OBVIOUS
<1> HIDE DEF s
<1>5. f \in Range(s) /\ \A e \in Range(s) \ {f} : KEY_LESS_THAN(f, e)
  BY <1>2, <1>4, ListHead
<1> QED  BY <1>2, <1>3, <1>5 DEF s

\* The year of a filled bucket's first event.
LEMMA FrontYear ==
    ASSUME NEW c, GoodCal(c), Stands(c), \A e \in Events(c) : c.cal_clock <= e.time,
           NEW j \in Filled(c), NEW b, b = c.cal_clock \div c.width, NEW f, f = Front1(c, j)
    PROVE  /\ j \in 0 .. c.nbuckets - 1 /\ Probe(c, j) \in 0 .. c.nbuckets - 1
           /\ f \in Range(c.list[Probe(c, j)]) /\ f \in Events(c) /\ f \in Event
           /\ Hash(c, f.time) = Probe(c, j)
           /\ \A e \in Range(c.list[Probe(c, j)]) \ {f} : KEY_LESS_THAN(f, e)
           /\ \E k \in Nat : f.time \div c.width = b + j + c.nbuckets * k
<1> DEFINE i == Probe(c, j)
<1>1. IsCal(c)
  BY DEF GoodCal
<1>2. j \in 0 .. c.nbuckets - 1 /\ c.list[i] # <<>>
  BY DEF Filled
<1>3. i \in 0 .. c.nbuckets - 1
  BY <1>1, <1>2, Probes
<1>4. f = c.list[i][1]
  BY DEF Front1
<1> HIDE DEF i
<1>5. /\ f \in Range(c.list[i]) /\ f \in Events(c) /\ f \in Event
      /\ Hash(c, f.time) = i
      /\ \A e \in Range(c.list[i]) \ {f} : KEY_LESS_THAN(f, e)
  BY <1>2, <1>3, <1>4, FrontIs
<1>6. PICK m \in 0 .. c.nbuckets - 1, k \in Nat :
          f.time \div c.width = b + m + c.nbuckets * k /\ Probe(c, m) = Hash(c, f.time)
  BY <1>5, EventStep
<1>7. m = j
  BY <1>1, <1>2, <1>5, <1>6, Probes DEF i
<1> QED  BY <1>2, <1>3, <1>5, <1>6, <1>7 DEF i

\* Numbers of intervals, k years ahead or not.
LEMMA YearsAhead ==
    ASSUME NEW n \in Nat, NEW b \in Nat, NEW j \in 0 .. n - 1, NEW h \in 0 .. n - 1, NEW k \in Nat,
           NEW q, q = b + j + n * k
    PROVE  /\ k # 0 => q > b + h
           /\ k = 0 => q = b + j
           /\ q <= b + j => k = 0
<1> DEFINE m == n * k
<1>1. m \in Nat /\ (k = 0 => m = 0) /\ (k # 0 => m >= n)
  OBVIOUS
<1>2. q = b + j + m
  OBVIOUS
<1> HIDE DEF m
<1>3. n > 0
  OBVIOUS
<1> QED  BY <1>1, <1>2, <1>3

\* head() finds the event that comes first, in this year or in a later one.
LEMMA HeadIsEarliest ==
    ASSUME NEW c, GoodCal(c), Stands(c), \A e \in Events(c) : c.cal_clock <= e.time,
           Filled(c) # {}, NEW h, h = HeadStep(c), NEW f, f = Front1(c, h)
    PROVE  h \in Filled(c) /\ \A e \in Events(c) \ {f} : KEY_LESS_THAN(f, e)
<1> DEFINE n == c.nbuckets
           w == c.width
           b == c.cal_clock \div w
           near == {j \in Filled(c) : j < n - 1 /\ Front1(c, j).time < c.cal_clock + Year(c, j)}
<1>1. /\ IsCal(c) /\ n \in Nat \ {0} /\ n >= 4 /\ w \in Nat \ {0} /\ c.cal_clock \in Nat
  BY CalIs DEF GoodCal
<1>2. b = c.cal_clock \div c.width
  OBVIOUS
<1>3. h = IF near # {} THEN Min(near)
          ELSE CHOOSE j \in Filled(c) : \A k \in Filled(c) : Front1(c, j).time <= Front1(c, k).time
  BY DEF HeadStep
<1>4. b \in Nat
  BY <1>1, DivIs
<1> HIDE DEF b
<1>5. ASSUME NEW j \in Filled(c)
      PROVE  /\ j \in 0 .. n - 1 /\ Probe(c, j) \in 0 .. n - 1
             /\ Front1(c, j) \in Range(c.list[Probe(c, j)])
             /\ Front1(c, j) \in Events(c) /\ Front1(c, j) \in Event /\ Front1(c, j).time \in Nat
             /\ Hash(c, Front1(c, j).time) = Probe(c, j)
             /\ \A e \in Range(c.list[Probe(c, j)]) \ {Front1(c, j)} : KEY_LESS_THAN(Front1(c, j), e)
             /\ \E k \in Nat : Front1(c, j).time \div w = b + j + n * k
  <2> DEFINE g == Front1(c, j)
  <2>1. g = Front1(c, j)
    OBVIOUS
  <2> HIDE DEF g
  <2>2. /\ j \in 0 .. c.nbuckets - 1 /\ Probe(c, j) \in 0 .. c.nbuckets - 1
        /\ g \in Range(c.list[Probe(c, j)]) /\ g \in Events(c) /\ g \in Event
        /\ Hash(c, g.time) = Probe(c, j)
        /\ \A e \in Range(c.list[Probe(c, j)]) \ {g} : KEY_LESS_THAN(g, e)
        /\ \E k \in Nat : g.time \div c.width = b + j + c.nbuckets * k
    BY <1>2, <2>1, FrontYear
  <2>3. g.time \in Nat
    BY <2>2 DEF Event
  <2> QED  BY <2>1, <2>2, <2>3
<1>6. ASSUME NEW e \in Events(c)
      PROVE  /\ e \in Event /\ e.time \in Nat /\ e.uid \in Nat
             /\ \E j \in Filled(c), k \in Nat :
                   /\ e.time \div w = b + j + n * k /\ Probe(c, j) = Hash(c, e.time)
                   /\ e \in Range(c.list[Probe(c, j)])
  <2>1. e \in Event /\ e.time \in Nat /\ e.uid \in Nat
    BY <1>1, EventsAre DEF Event
  <2>2. PICK j \in 0 .. c.nbuckets - 1, k \in Nat :
               /\ e.time \div c.width = b + j + c.nbuckets * k
               /\ Probe(c, j) = Hash(c, e.time) /\ e \in Range(c.list[Probe(c, j)])
    BY <1>2, EventStep
  <2>3. c.list[Probe(c, j)] # <<>>
    BY <2>2 DEF Range
  <2>4. j \in Filled(c)
    BY <2>3 DEF Filled
  <2> QED  BY <2>1, <2>2, <2>4
<1>7. ASSUME NEW j \in Filled(c), NEW e \in Range(c.list[Probe(c, j)]), e \in Events(c)
      PROVE  Front1(c, j).time <= e.time
  BY <1>5, <1>6, <1>7 DEF KEY_LESS_THAN
<1> HIDE DEF n, w
<1>8. CASE near # {}
  <2>1. h \in near /\ \A j \in near : h <= j
    <3>1. h = Min(near)
      BY <1>3, <1>8
    <3>2. near \in SUBSET Nat
      BY <1>1, <1>5
    <3> HIDE DEF near
    <3> QED  BY <1>8, <3>1, <3>2, LeastNumber DEF Min
  <2>2. h \in Filled(c) /\ h < n - 1 /\ f.time < c.cal_clock + Year(c, h)
    BY <2>1
  <2>3. h \in 0 .. n - 1 /\ h \in 0 .. n - 2 /\ f \in Event /\ f.time \in Nat
    BY <1>1, <1>5, <2>2
  <2>4. f.time \div w = b + h
    <3>1. PICK k \in Nat : f.time \div w = b + h + n * k
      BY <1>5, <2>2
    <3> DEFINE t == f.time
               q == t \div w
    <3>2. t \in Nat /\ h \in 0 .. c.nbuckets - 2 /\ q = t \div c.width /\ q = b + h + c.nbuckets * k
      BY <2>3, <3>1 DEF n, w
    <3>3. q = b + h + n * k
      BY <3>1
    <3> HIDE DEF t, q
    <3>4. t < c.cal_clock + Year(c, h) <=> k = 0
      BY <1>1, <1>2, <3>2, ThisYear
    <3>5. k = 0
      BY <2>2, <3>4 DEF t
    <3> QED  BY <1>1, <1>4, <2>3, <3>3, <3>5, YearsAhead DEF q, t
  <2>5. ASSUME NEW e \in Events(c) \ {f} PROVE KEY_LESS_THAN(f, e)
    <3>1. e \in Event /\ e.time \in Nat
      BY <1>6
    <3>2. PICK j \in Filled(c), k \in Nat :
              /\ e.time \div w = b + j + n * k /\ Probe(c, j) = Hash(c, e.time)
              /\ e \in Range(c.list[Probe(c, j)])
      BY <1>6
    <3>3. j \in 0 .. n - 1
      BY <1>5
    <3>4. CASE j = h
      BY <1>5, <2>2, <3>2, <3>4
    <3>5. CASE j # h
      <4> DEFINE q == e.time \div w
      <4>1. q = b + j + n * k
        BY <3>2
      <4> HIDE DEF q
      <4>2. n \in Nat
        BY <1>1
      <4>3. (k # 0 => q > b + h) /\ (k = 0 => q = b + j)
        BY <1>4, <2>3, <3>3, <4>1, <4>2, YearsAhead
      <4>4. ~(k = 0 /\ j < h)
        <5> SUFFICES ASSUME k = 0, j < h PROVE FALSE
          OBVIOUS
        <5> DEFINE g == Front1(c, j)
                   t == g.time
                   p == t \div w
        <5>1. t \in Nat /\ t <= e.time
          BY <1>5, <1>7, <3>2
        <5>2. PICK l \in Nat : p = b + j + n * l
          BY <1>5
        <5> HIDE DEF g, t
        <5>3. p <= q
          BY <1>1, <3>1, <5>1, DivGrows DEF q
        <5> HIDE DEF p
        <5>4. p <= b + j
          BY <4>3, <5>3
        <5>5. l = 0
          BY <1>4, <3>3, <4>2, <5>2, <5>4, YearsAhead
        <5>6. j \in 0 .. c.nbuckets - 2 /\ j < n - 1
          BY <1>1, <2>3, <3>3 DEF n
        <5>7. p = t \div c.width /\ p = b + j + c.nbuckets * l
          BY <5>2 DEF p, w, n
        <5>8. t < c.cal_clock + Year(c, j)
          BY <1>1, <1>2, <5>1, <5>5, <5>6, <5>7, ThisYear
        <5>9. j \in near
          BY <5>6, <5>8 DEF t, g
        <5> HIDE DEF near
        <5>10. h <= j
          BY <2>1, <5>9
        <5> QED  BY <2>3, <3>3, <5>10
      <4>5. q > b + h
        BY <1>4, <2>3, <3>3, <3>5, <4>3, <4>4
      <4>6. f.time < e.time
        <5> DEFINE t == f.time
                   u == e.time
        <5>1. t \in Nat /\ u \in Nat /\ t \div w = b + h /\ q = u \div w
          BY <2>3, <2>4, <3>1 DEF q
        <5> HIDE DEF t, u
        <5>2. u <= t => u \div w <= t \div w
          BY <1>1, <5>1, DivGrows
        <5>3. b + h \in Nat /\ q \in Nat
          BY <1>1, <1>4, <2>3, <5>1, DivIs
        <5>4. ~(u <= t)
          BY <4>5, <5>1, <5>2, <5>3
        <5> QED  BY <5>1, <5>4 DEF t, u
      <4> QED  BY <4>6 DEF KEY_LESS_THAN
    <3> QED  BY <3>4, <3>5
  <2> QED  BY <2>2, <2>5
<1>9. CASE near = {}
  <2> DEFINE U == {Front1(c, j).time : j \in Filled(c)}
             First(j) == \A k \in Filled(c) : Front1(c, j).time <= Front1(c, k).time
  <2>1. h = CHOOSE j \in Filled(c) : First(j)
    BY <1>3, <1>9
  <2> HIDE DEF near
  <2>2. \E j \in Filled(c) : First(j)
    <3>1. U \in SUBSET Nat /\ U # {}
      BY <1>5
    <3>2. PICK x \in U : \A y \in U : x <= y
      <4> HIDE DEF U
      <4> QED  BY <3>1, LeastNumber
    <3> QED  BY <3>2
  <2>3. h \in Filled(c) /\ First(h)
    <3> HIDE DEF First
    <3> QED  BY <2>1, <2>2
  <2>4. ASSUME NEW e \in Events(c) \ {f} PROVE KEY_LESS_THAN(f, e)
    <3>1. e \in Event /\ e.time \in Nat
      BY <1>6
    <3>2. PICK j \in Filled(c) : Probe(c, j) = Hash(c, e.time) /\ e \in Range(c.list[Probe(c, j)])
      BY <1>6
    <3>3. CASE j = h
      BY <1>5, <2>3, <3>2, <3>3
    <3>4. CASE j # h
      <4>1. f.time <= Front1(c, j).time /\ Front1(c, j).time <= e.time
        BY <1>7, <2>3, <3>2
      <4>2. f.time \in Nat /\ Front1(c, j).time \in Nat /\ Hash(c, f.time) = Probe(c, h)
        BY <1>5, <2>3
      <4>3. Probe(c, j) # Probe(c, h)
        <5>1. j \in 0 .. c.nbuckets - 1 /\ h \in 0 .. c.nbuckets - 1
          BY <1>5, <2>3 DEF n
        <5> QED  BY <1>1, <3>4, <5>1, Probes
      <4>4. f.time # e.time
        BY <3>2, <4>2, <4>3
      <4>5. f.time < e.time
        BY <3>1, <4>1, <4>2, <4>4
      <4> QED  BY <4>5 DEF KEY_LESS_THAN
    <3> QED  BY <3>3, <3>4
  <2> QED  BY <2>3, <2>4
<1> QED  BY <1>8, <1>9

\* head() turns the calendar to the event that comes first.
LEMMA Heads ==
    ASSUME NEW c, CalOK(c), NEW d, d = head(c)
    PROVE  /\ CalOK(d) /\ Events(d) = Events(c) /\ d.nbuckets = c.nbuckets
           /\ Events(c) # {} =>
                 /\ d.lastbucket \in 0 .. d.nbuckets - 1 /\ d.list[d.lastbucket] # <<>>
                 /\ d.list[d.lastbucket][1] \in Events(c)
                 /\ d.cal_clock = d.list[d.lastbucket][1].time
                 /\ \A e \in Events(c) \ {d.list[d.lastbucket][1]} :
                       KEY_LESS_THAN(d.list[d.lastbucket][1], e)
<1>1. /\ GoodCal(c) /\ Stands(c) /\ c.stat_qsize <= top_threshold(c)
      /\ \A e \in Events(c) : c.cal_clock <= e.time
  BY DEF CalOK
<1>2. IsCal(c) /\ c \in Cals(c.nbuckets, c.width, c.cal_clock, c.lastbucket)
  BY <1>1 DEF GoodCal, IsCal
<1>3. CASE Filled(c) = {}
  <2>1. d = c
    BY <1>3 DEF head
  <2>2. ASSUME NEW e \in Events(c) PROVE FALSE
    <3> DEFINE b == c.cal_clock \div c.width
    <3>1. b = c.cal_clock \div c.width
      OBVIOUS
    <3> HIDE DEF b
    <3>2. PICK j \in 0 .. c.nbuckets - 1 : e \in Range(c.list[Probe(c, j)])
      BY <1>1, <3>1, EventStep
    <3>3. c.list[Probe(c, j)] # <<>>
      BY <3>2 DEF Range
    <3> QED  BY <1>3, <3>3 DEF Filled
  <2> QED  BY <2>1, <2>2
<1>4. CASE Filled(c) # {}
  <2> DEFINE h == HeadStep(c)
             f == Front1(c, h)
             l == Probe(c, h)
             t == f.time
  <2>1. d = [c EXCEPT !.lastbucket = l, !.cal_clock = t]
    BY <1>4 DEF head
  <2>2. h = HeadStep(c) /\ f = Front1(c, h) /\ l = Probe(c, h)
    OBVIOUS
  <2> HIDE DEF h, f, l
  <2>3. h \in Filled(c) /\ \A e \in Events(c) \ {f} : KEY_LESS_THAN(f, e)
    BY <1>1, <1>4, <2>2, HeadIsEarliest
  <2>4. l \in 0 .. c.nbuckets - 1 /\ f \in Events(c) /\ f \in Event /\ Hash(c, t) = l
    <3> DEFINE b == c.cal_clock \div c.width
    <3>1. b = c.cal_clock \div c.width
      OBVIOUS
    <3> HIDE DEF b
    <3> QED  BY <1>1, <2>2, <2>3, <3>1, FrontYear
  <2>5. t \in Nat
    BY <2>4 DEF Event
  <2>6. c.list[l] # <<>> /\ f = c.list[l][1]
    BY <2>2, <2>3 DEF Filled, Front1
  <2> HIDE DEF t
  <2>7. d = Turn(c, t, l)
    BY <1>2, <2>1 DEF Turn, Cals
  <2>8. /\ GoodCal(d) /\ Events(d) = Events(c)
        /\ d.cal_clock = t /\ d.lastbucket = l
        /\ d.nbuckets = c.nbuckets /\ d.width = c.width /\ d.list = c.list
        /\ d.stat_qsize = c.stat_qsize
        /\ \A x : Hash(d, x) = Hash(c, x)
    BY <1>1, <2>5, <2>7, Turned
  <2>9. Stands(d) /\ d.stat_qsize <= top_threshold(d)
    BY <1>1, <2>4, <2>8 DEF Stands, top_threshold
  <2>10. ASSUME NEW e \in Events(c) PROVE t <= e.time
    <3>1. e \in Event /\ e.time \in Nat
      BY <1>2, EventsAre DEF Event
    <3>2. e = f \/ KEY_LESS_THAN(f, e)
      BY <2>3
    <3> QED  BY <2>5, <3>1, <3>2 DEF KEY_LESS_THAN, t
  <2>11. CalOK(d)
    BY <2>8, <2>9, <2>10 DEF CalOK
  <2> QED  BY <2>3, <2>4, <2>6, <2>8, <2>11 DEF t
<1> QED  BY <1>3, <1>4

\* deque() takes the event that comes first, also when it has rebuilt the calendar before;
\* a calendar that has become too empty is rebuilt.
LEMMA Deques ==
    ASSUME NEW c, CalOK(c), Events(c) # {}, NEW d \in deque(c), NEW a, a = head(c),
           NEW f, f = a.list[a.lastbucket][1]
    PROVE  CalOK(d) /\ Events(d) = Events(c) \ {f}
<1>1. /\ CalOK(a) /\ Events(a) = Events(c)
      /\ a.lastbucket \in 0 .. a.nbuckets - 1 /\ a.list[a.lastbucket] # <<>>
      /\ f \in Events(c) /\ a.cal_clock = f.time
      /\ \A e \in Events(c) \ {f} : KEY_LESS_THAN(f, e)
  BY Heads
<1>2. /\ GoodCal(a) /\ Stands(a) /\ a.stat_qsize <= top_threshold(a) /\ a.nbuckets \in Nat
      /\ \A e \in Events(a) : a.cal_clock <= e.time
  BY <1>1, CalIs DEF CalOK, GoodCal
<1> DEFINE after(x) == IF x.stat_qsize < bot_threshold(x) THEN resize(x, x.nbuckets \div 2) ELSE {x}
<1>3. PICK x \in {a} \cup resize(a, a.nbuckets) : d \in after(Unlink(x))
  BY DEF deque
<1>4. /\ GoodCal(x) /\ Stands(x) /\ Events(x) = Events(c) /\ x.cal_clock = f.time
      /\ x.nbuckets \in Nat /\ x.stat_qsize <= 2 * x.nbuckets /\ x.stat_qsize \in Int
  <2>1. CASE x = a
    BY <1>1, <1>2, <2>1, CalIs DEF top_threshold, GoodCal
  <2>2. CASE x \in resize(a, a.nbuckets)
    <3> DEFINE n == a.nbuckets
    <3>1. n \in Nat /\ x \in resize(a, n) /\ a.stat_qsize <= 2 * n /\ a.stat_qsize \in Int
      BY <1>2, <2>2, CalIs DEF top_threshold, GoodCal
    <3> HIDE DEF n
    <3>2. /\ GoodCal(x) /\ Events(x) = Events(a) /\ Stands(x)
          /\ x.cal_clock = a.cal_clock /\ x.stat_qsize = a.stat_qsize
          /\ x.nbuckets \in Nat /\ x.nbuckets >= n
      BY <1>2, <3>1, Resized
    <3>3. x.stat_qsize <= 2 * x.nbuckets
      BY <3>1, <3>2
    <3> QED  BY <1>1, <3>1, <3>2, <3>3
  <2> QED  BY <1>3, <2>1, <2>2
<1> DEFINE i == x.lastbucket
           y == Unlink(x)
<1>5. i = Hash(x, f.time) /\ i \in 0 .. x.nbuckets - 1 /\ f \in Range(x.list[i])
  BY <1>1, <1>4, InItsBucket DEF Stands
<1>6. x.list[i] # <<>>
  <2>1. Range(<<>>) = {}
    BY DEF Range
  <2> QED  BY <1>5, <2>1
<1>7. x.list[i][1] = f
  <2> DEFINE g == x.list[i][1]
  <2>1. g = x.list[i][1] /\ i = x.lastbucket
    OBVIOUS
  <2> HIDE DEF g, i
  <2>2. g \in Events(x) /\ g \in Event /\ \A e \in Range(x.list[i]) \ {g} : KEY_LESS_THAN(g, e)
    BY <1>4, <1>5, <1>6, <2>1, FrontIs
  <2>3. f \in Event
    BY <1>2, <1>1, EventsAre DEF GoodCal
  <2>4. ASSUME g # f PROVE FALSE
    <3>1. KEY_LESS_THAN(g, f)
      BY <1>5, <2>2, <2>4
    <3>2. KEY_LESS_THAN(f, g)
      BY <1>1, <1>4, <2>2, <2>4
    <3> QED  BY <2>2, <2>3, <3>1, <3>2, KeyOrder DEF NotLater
  <2> QED  BY <2>1, <2>4
<1>8. y = Unlink(x) /\ i = x.lastbucket
  OBVIOUS
<1> HIDE DEF y, i
<1>9. /\ GoodCal(y) /\ SameYear(x, y) /\ Events(y) = Events(c) \ {f}
      /\ y.stat_qsize <= x.stat_qsize
  BY <1>4, <1>5, <1>6, <1>7, <1>8, Unlinked
<1>10. /\ Stands(y) /\ y.cal_clock = f.time /\ y.nbuckets = x.nbuckets
       /\ y.stat_qsize \in Int /\ y.stat_qsize <= 2 * y.nbuckets
  <2>1. Stands(y) /\ y.cal_clock = f.time /\ y.nbuckets = x.nbuckets
    BY <1>4, <1>9 DEF SameYear, Stands, Hash
  <2>2. y.stat_qsize \in Int
    BY <1>9, CalIs DEF GoodCal
  <2> QED  BY <1>4, <1>9, <2>1, <2>2
<1>11. \A e \in Events(y) : f.time <= e.time
  BY <1>1, <1>2, <1>9
<1>12. CASE ~(y.stat_qsize < bot_threshold(y))
  <2>1. d = y
    BY <1>3, <1>8, <1>12
  <2> QED  BY <1>9, <1>10, <1>11, <2>1 DEF CalOK, top_threshold
<1>13. CASE y.stat_qsize < bot_threshold(y)
  <2> DEFINE n == y.nbuckets \div 2
  <2>1. d \in resize(y, n)
    BY <1>3, <1>8, <1>13
  <2>2. n \in Nat /\ y.stat_qsize < n - 2
    BY <1>4, <1>10, <1>13 DEF bot_threshold
  <2> HIDE DEF n
  <2>3. /\ GoodCal(d) /\ Events(d) = Events(y) /\ Stands(d)
        /\ d.cal_clock = y.cal_clock /\ d.stat_qsize = y.stat_qsize
        /\ d.nbuckets \in Nat /\ d.nbuckets >= n
    BY <1>9, <2>1, <2>2, Resized
  <2>4. d.stat_qsize <= top_threshold(d)
    BY <1>10, <2>2, <2>3 DEF top_threshold
  <2> QED  BY <1>9, <1>10, <1>11, <2>3, <2>4 DEF CalOK
<1> QED  BY <1>12, <1>13

\* cancel() keeps the calendar in shape.
LEMMA CancelsOne ==
    ASSUME NEW c, CalOK(c), NEW e \in Events(c), NEW d, d = cancel(c, e)
    PROVE  CalOK(d) /\ Events(d) = Events(c) \ {e}
<1>1. /\ GoodCal(c) /\ Stands(c) /\ c.stat_qsize <= top_threshold(c) /\ c.nbuckets \in Nat
      /\ \A f \in Events(c) : c.cal_clock <= f.time
  BY CalIs DEF CalOK, GoodCal
<1>2. /\ GoodCal(d) /\ SameYear(c, d) /\ Events(d) = Events(c) \ {e}
      /\ d.stat_qsize <= c.stat_qsize
  BY <1>1, Cancelled
<1>3. Stands(d) /\ d.cal_clock = c.cal_clock /\ d.nbuckets = c.nbuckets
  BY <1>1, <1>2 DEF SameYear, Stands, Hash
<1>4. c.stat_qsize \in Int /\ d.stat_qsize \in Int
  BY <1>1, <1>2, CalIs DEF GoodCal
<1>5. d.stat_qsize <= top_threshold(d)
  BY <1>1, <1>2, <1>3, <1>4 DEF top_threshold
<1> QED  BY <1>1, <1>2, <1>3, <1>5 DEF CalOK

-----------------------------------------------------------------------------
(* CalendarScheduler *)

\* The calendar is in shape and holds the events of the list.
CalInv == CalOK(cal) /\ Events(cal) = Range(queue)

LEMMA CalSchedules ==
    ASSUME SchedInv, CalInv, NEW d \in Nat, schedule(d)
    PROVE  CalInv'
<1> DEFINE e == [time |-> clock + d, uid |-> uid]
<1>1. clock \in Nat /\ uid \in Nat /\ QueuesOK
  BY DEF SchedInv
<1>2. Range(queue') = Range(queue) \cup {e}
  BY <1>1, Schedules
<1>3. e \in Event /\ e.uid = uid
  BY <1>1 DEF Event
<1>4. cal' \in insert(cal, e)
  BY DEF schedule
<1>5. CalOK(cal) /\ Events(cal) = Range(queue)
  BY DEF CalInv
<1>6. \A f \in Events(cal) : f.uid < e.uid
  BY <1>1, <1>3, <1>5 DEF QueuesOK
<1> HIDE DEF e
<1>7. CalOK(cal') /\ Events(cal') = Events(cal) \cup {e}
  <2> DEFINE a == cal
             b == cal'
  <2>1. CalOK(a) /\ b \in insert(a, e) /\ \A f \in Events(a) : f.uid < e.uid
    BY <1>4, <1>5, <1>6
  <2> HIDE DEF a, b
  <2>2. CalOK(b) /\ Events(b) = Events(a) \cup {e}
    BY <1>3, <2>1, Inserts
  <2> QED  BY <2>2 DEF a, b
<1> QED  BY <1>2, <1>5, <1>7 DEF CalInv

\* The calendar dispatches the event the list does.
LEMMA CalDispatches ==
    ASSUME SchedInv, CalInv, Dispatch
    PROVE  CalInv' /\ last'[3] = queue[1]
<1> DEFINE e == queue[1]
           a == head(cal)
           f == a.list[a.lastbucket][1]
<1>1. /\ e \in Range(queue) /\ \A g \in Range(queue) \ {e} : KEY_LESS_THAN(e, g)
      /\ Range(queue') = Range(queue) \ {e}
  BY Dispatches
<1>2. CalOK(cal) /\ Events(cal) = Range(queue)
  BY DEF CalInv
<1>3. last'[3] = f /\ cal' \in deque(cal)
  BY DEF Dispatch
<1>4. a = head(cal) /\ f = a.list[a.lastbucket][1]
  OBVIOUS
<1> HIDE DEF e, a, f
<1>5. f \in Events(cal) /\ \A g \in Events(cal) \ {f} : KEY_LESS_THAN(f, g)
  BY <1>1, <1>2, <1>4, Heads
<1>6. f = e
  <2>1. e \in Event /\ f \in Event
    BY <1>1, <1>2, <1>5, EventsAre DEF CalOK, GoodCal
  <2>2. ASSUME f # e PROVE FALSE
    <3>1. KEY_LESS_THAN(e, f) /\ KEY_LESS_THAN(f, e)
      BY <1>1, <1>2, <1>5, <2>2
    <3> QED  BY <2>1, <3>1, KeyOrder DEF NotLater
  <2> QED  BY <2>2
<1>7. CalOK(cal') /\ Events(cal') = Events(cal) \ {f}
  <2>1. Events(cal) # {}
    BY <1>5
  <2> QED  BY <1>2, <1>3, <1>4, <2>1, Deques
<1> QED  BY <1>1, <1>2, <1>3, <1>6, <1>7 DEF CalInv, e

LEMMA CalCancels ==
    ASSUME SchedInv, CalInv, NEW e \in Range(queue), Cancel(e)
    PROVE  CalInv'
<1>1. Range(queue') = Range(queue) \ {e}
  BY Cancels
<1>2. CalOK(cal) /\ Events(cal) = Range(queue) /\ cal' = cancel(cal, e)
  BY DEF CalInv, Cancel
<1>3. CalOK(cal') /\ Events(cal') = Events(cal) \ {e}
  BY <1>2, CancelsOne
<1> QED  BY <1>1, <1>2, <1>3 DEF CalInv

LEMMA CalInit == Init => CalInv
<1> SUFFICES ASSUME Init PROVE CalInv
  OBVIOUS
<1> DEFINE n == 4
           w == 1
           t == 0
<1>1. cal = reinit(n, w, t) /\ queue = <<>>
  BY DEF Init
<1>2. n \in Nat /\ n >= 4 /\ w \in Nat \ {0} /\ t \in Nat
  OBVIOUS
<1> HIDE DEF n, w, t
<1>3. /\ GoodCal(cal) /\ Events(cal) = {} /\ cal.stat_qsize = 0 /\ Stands(cal)
      /\ cal.nbuckets = n
  BY <1>1, <1>2, ReinitGood
<1>4. cal.stat_qsize <= top_threshold(cal)
  BY <1>2, <1>3 DEF top_threshold
<1>5. Range(queue) = {}
  BY <1>1 DEF Range
<1> QED  BY <1>3, <1>4, <1>5 DEF CalInv, CalOK

LEMMA CalNext == SchedInv /\ CalInv /\ [Next]_vars => CalInv'
<1> SUFFICES ASSUME SchedInv, CalInv, [Next]_vars PROVE CalInv'
  OBVIOUS
<1>1. CASE At
  <2>1. PICK d \in AllDelays : schedule(d)
    BY <1>1, Ats
  <2> QED  BY <2>1, CalSchedules, DelaysAreNumbers
<1>2. CASE \E d \in Delays : Schedule(d)
  <2>1. PICK d \in AllDelays : schedule(d)
    BY <1>2, HandlerSchedules
  <2> QED  BY <2>1, CalSchedules, DelaysAreNumbers
<1>3. CASE Dispatch
  BY <1>3, CalDispatches
<1>4. CASE \E e \in Range(queue) : Cancel(e)
  BY <1>4, CalCancels
<1>5. CASE Peek
  <2>1. cal' = head(cal) /\ queue' = queue
    BY <1>5 DEF Peek
  <2>2. CalOK(cal') /\ Events(cal') = Events(cal)
    BY <2>1, Heads DEF CalInv
  <2> QED  BY <2>1, <2>2 DEF CalInv
<1>6. CASE UNCHANGED vars
  BY <1>6 DEF CalInv, vars
<1> QED  BY <1>1, <1>2, <1>3, <1>4, <1>5, <1>6 DEF Next

\* The calendar holds the list's events, each in the sorted bucket of its time, counts
\* their distinct times, and stands at no event's past (scheduler.cc).
THEOREM CalendarInvariance == Spec => []CalInv
  BY CalInit, CalNext, SchedulerInvariance, PTL DEF Spec

LEMMA ShapeFollows == CalInv => CalendarInShape
<1> SUFFICES ASSUME CalInv PROVE CalendarInShape
  OBVIOUS
<1>1. /\ IsCal(cal) /\ Placed(cal) /\ Counted(cal) /\ Stands(cal)
      /\ cal.stat_qsize <= top_threshold(cal) /\ \A e \in Events(cal) : cal.cal_clock <= e.time
  BY DEF CalInv, CalOK, GoodCal
<1>2. ASSUME NEW i \in 0 .. cal.nbuckets - 1, NEW s, s = cal.list[i]
      PROVE  /\ \A k \in DOMAIN s : Hash(cal, s[k].time) = i
             /\ \A k \in 1 .. Len(s) - 1 : s[k].time <= s[k + 1].time
             /\ cal.count[i] = Cardinality(Times(s))
  <2>1. Sorted(s) /\ \A e \in Range(s) : Hash(cal, e.time) = i
    BY <1>1, <1>2 DEF Placed
  <2>2. /\ s \in Seq(Event) /\ Len(s) \in Nat
        /\ \A a, b \in 1 .. Len(s) : a < b => KEY_LESS_THAN(s[a], s[b])
    BY <2>1 DEF Sorted
  <2>3. \A k \in DOMAIN s : s[k] \in Range(s)
    BY DEF Range
  <2>4. ASSUME NEW k \in 1 .. Len(s) - 1 PROVE s[k].time <= s[k + 1].time
    <3>1. k \in 1 .. Len(s) /\ k + 1 \in 1 .. Len(s) /\ k < k + 1
      BY <2>2
    <3>2. KEY_LESS_THAN(s[k], s[k + 1]) /\ s[k] \in Event /\ s[k + 1] \in Event
      BY <2>2, <3>1
    <3>3. s[k].time \in Nat /\ s[k + 1].time \in Nat
      BY <3>2 DEF Event
    <3> QED  BY <3>2, <3>3 DEF KEY_LESS_THAN
  <2>5. cal.count[i] = Cardinality(Times(s))
    BY <1>1, <1>2 DEF Counted
  <2> QED  BY <2>1, <2>3, <2>4, <2>5
<1>3. cal.stat_qsize = Cardinality({e.time : e \in Events(cal)})
  BY <1>1 DEF Counted, AllTimes
<1> QED  BY <1>1, <1>2, <1>3 DEF CalendarInShape, Stands

\* What insert(), deque(), cancel() and newwidth() assume of the calendar holds after any
\* calls, through all rebuilding and when head() has moved ahead of a new event.
THEOREM ShapeKept == Spec => []CalendarInShape
  BY CalendarInvariance, ShapeFollows, PTL

\* A step of the calendar is a step of a scheduler, or changes nothing that it promises.
LEMMA CalStepImplements ==
    ASSUME SchedInv, CalInv, [Next]_vars
    PROVE  [Calendar!Next]_Calendar!vars
<1>0. Events(cal) = Range(queue) /\ Events(cal') = Range(queue')
  BY CalNext DEF CalInv
<1>1. ASSUME NEW d \in AllDelays, schedule(d),
             Range(queue') = Range(queue) \cup {[time |-> clock + d, uid |-> uid]}
      PROVE  Calendar!Next
  <2>1. Calendar!Schedule(d)
    BY <1>0, <1>1 DEF schedule, Calendar!Schedule
  <2> QED  BY <2>1 DEF Calendar!Next
<1>2. CASE At
  BY <1>1, <1>2, Ats
<1>3. CASE \E d \in Delays : Schedule(d)
  BY <1>1, <1>3, HandlerSchedules
<1>4. CASE Dispatch
  <2> DEFINE e == queue[1]
  <2>1. /\ e \in Range(queue)
        /\ \A f \in Range(queue) \ {e} : KEY_LESS_THAN(e, f)
        /\ Range(queue') = Range(queue) \ {e}
    BY <1>4, Dispatches
  <2>2. last'[3] = e /\ clock' = e.time /\ uid' = uid
    BY <1>4, CalDispatches DEF Dispatch
  <2>3. clock <= e.time
    BY <2>1 DEF SchedInv, QueuesOK
  <2> HIDE DEF e
  <2>4. Calendar!Dispatch(e)
    BY <1>0, <2>1, <2>2, <2>3 DEF Calendar!Dispatch, Calendar!Earlier, KEY_LESS_THAN
  <2> QED  BY <1>0, <2>1, <2>4 DEF Calendar!Next
<1>5. CASE \E e \in Range(queue) : Cancel(e)
  <2>1. PICK e \in Range(queue) : Cancel(e)
    BY <1>5
  <2>2. Range(queue') = Range(queue) \ {e}
    BY <2>1, Cancels
  <2>3. UNCHANGED <<clock, uid, last>>
    BY <2>1 DEF Cancel
  <2>4. Calendar!Cancel(e)
    BY <1>0, <2>2, <2>3 DEF Calendar!Cancel
  <2> QED  BY <1>0, <2>4 DEF Calendar!Next
<1>6. CASE Peek \/ UNCHANGED vars
  <2>1. UNCHANGED <<clock, uid, queue, last>>
    BY <1>6 DEF Peek, vars
  <2> QED  BY <1>0, <2>1 DEF Calendar!vars
<1> QED  BY <1>2, <1>3, <1>4, <1>5, <1>6 DEF Next

\* CalendarScheduler implements EventQueue (scheduler.cc): whatever handlers schedule and
\* cancel, whatever widths its rebuilding chooses, and although the real-time scheduler
\* moves it ahead, the event it dispatches is the earliest, the first scheduled of those at
\* its time, and none is lost or dispatched twice.
THEOREM CalendarRefinement == Spec => CalendarImplements
<1>1. Init => Calendar!Init
  <2> SUFFICES ASSUME Init PROVE Calendar!Init
    OBVIOUS
  <2>1. clock = 0 /\ uid = 1 /\ queue = <<>> /\ last = <<Nobody, Nobody, Nobody>>
    BY DEF Init
  <2>2. Events(cal) = Range(queue)
    BY CalInit DEF CalInv
  <2>3. Range(<<>>) = {}
    BY DEF Range
  <2> QED  BY <2>1, <2>2, <2>3 DEF Calendar!Init
<1>2. SchedInv /\ CalInv /\ [Next]_vars => [Calendar!Next]_Calendar!vars
  BY CalStepImplements
<1> QED  BY <1>1, <1>2, SchedulerInvariance, CalendarInvariance, PTL
         DEF Spec, CalendarImplements, Calendar!Spec

=============================================================================
