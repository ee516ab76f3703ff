-------------------------- MODULE PacketBytesProofs -------------------------
(***************************************************************************)
(* How the number of bytes in a queue follows the packets that join and    *)
(* leave it, wherever they stand.  Bytes are counted as a set, so that a   *)
(* packet that leaves from the middle is a bijection between the bytes of  *)
(* the others before and after, and no induction is needed.                *)
(***************************************************************************)
EXTENDS PacketBytes, SequencesExt, SequenceTheorems, FiniteSetTheorems, TLAPS

\* Removing an element leaves the others as they were, in their order.
LEMMA RemoveAtShape ==
    ASSUME NEW S, NEW s \in Seq(S), NEW i \in 1 .. Len(s)
    PROVE  /\ RemoveAt(s, i) \in Seq(S)
           /\ Len(RemoveAt(s, i)) = Len(s) - 1
           /\ \A k \in 1 .. Len(s) - 1 :
                  RemoveAt(s, i)[k] = IF k < i THEN s[k] ELSE s[k + 1]
<1> DEFINE u == SubSeq(s, 1, i - 1)
           v == SubSeq(s, i + 1, Len(s))
<1>1. /\ u \in Seq(S) /\ Len(u) = i - 1
      /\ \A k \in 1 .. i - 1 : u[k] = s[k]
  OBVIOUS
<1>2. /\ v \in Seq(S) /\ Len(v) = Len(s) - i
      /\ \A k \in 1 .. Len(s) - i : v[k] = s[k + i]
  OBVIOUS
<1>3. RemoveAt(s, i) = u \o v
  BY DEF RemoveAt
<1> HIDE DEF u, v
<1>4. /\ u \o v \in Seq(S) /\ Len(u \o v) = Len(u) + Len(v)
      /\ \A k \in 1 .. Len(u) + Len(v) :
             (u \o v)[k] = IF k <= Len(u) THEN u[k] ELSE v[k - Len(u)]
  BY <1>1, <1>2, ConcatProperties
<1>5. i \in Nat /\ Len(s) \in Nat /\ Len(u) = i - 1 /\ Len(u) + Len(v) = Len(s) - 1
  BY <1>1, <1>2
<1>6. ASSUME NEW k \in 1 .. Len(s) - 1
      PROVE  (u \o v)[k] = IF k < i THEN s[k] ELSE s[k + 1]
  <2>1. CASE k < i
    <3>1. k \in 1 .. Len(u) + Len(v) /\ k <= Len(u) /\ k \in 1 .. i - 1
      BY <1>5, <2>1
    <3> QED  BY <1>1, <1>4, <2>1, <3>1
  <2>2. CASE ~(k < i)
    <3>1. /\ k \in 1 .. Len(u) + Len(v) /\ ~(k <= Len(u))
          /\ k - Len(u) \in 1 .. Len(s) - i /\ (k - Len(u)) + i = k + 1
      BY <1>5, <2>2
    <3> QED  BY <1>2, <1>4, <2>2, <3>1
  <2> QED  BY <2>1, <2>2
<1> QED  BY <1>3, <1>4, <1>5, <1>6


-----------------------------------------------------------------------------
(* Bytes *)

\* What the bytes of a queue are.
LEMMA ByteOf ==
    ASSUME NEW s, NEW x
    PROVE  x \in Bytes(s) <=> \E i \in DOMAIN s : \E b \in 1 .. s[i].size : x = <<i, b>>
  BY DEF Bytes

\* An empty queue holds no bytes.
LEMMA NoBytes == Bytes(<< >>) = {} /\ IsFiniteSet(Bytes(<< >>)) /\ byteLength(<< >>) = 0
<1>1. Bytes(<< >>) = {}
  BY DEF Bytes
<1> QED  BY <1>1, FS_EmptySet DEF byteLength

\* The bytes of one packet are as many as its size.
LEMMA OnePacketsBytes ==
    ASSUME NEW i, NEW n \in Nat
    PROVE  IsFiniteSet({i} \X (1 .. n)) /\ Cardinality({i} \X (1 .. n)) = n
<1> DEFINE f == [b \in 1 .. n |-> <<i, b>>]
           T == {i} \X (1 .. n)
<1>1. f \in [1 .. n -> T]
  OBVIOUS
<1>2. \A a, b \in 1 .. n : f[a] = f[b] => a = b
  OBVIOUS
<1>3. \A x \in T : \E b \in 1 .. n : f[b] = x
  <2> SUFFICES ASSUME NEW b \in 1 .. n PROVE f[b] = <<i, b>>
    OBVIOUS
  <2> QED  OBVIOUS
<1> HIDE DEF f, T
<1>4. f \in Bijection(1 .. n, T)
  BY <1>1, <1>2, <1>3 DEF Bijection, Injection, Surjection, IsInjective
<1>5. ExistsBijection(1 .. n, T)
  BY <1>4 DEF ExistsBijection
<1>6. IsFiniteSet(T) /\ Cardinality(T) = n
  BY <1>5, FS_CountingElements, FS_Interval, FS_Bijection
<1> QED  BY <1>6 DEF T

\* A packet that joins the queue brings its bytes.
LEMMA BytesAppend ==
    ASSUME NEW S, \A x \in S : x.size \in Nat, NEW s \in Seq(S), NEW p \in S,
           IsFiniteSet(Bytes(s))
    PROVE  /\ IsFiniteSet(Bytes(Append(s, p)))
           /\ byteLength(Append(s, p)) = byteLength(s) + p.size
<1> DEFINE n == Len(s) + 1
           t == Append(s, p)
           m == p.size
           N == {n} \X (1 .. m)
<1>1. /\ n \in Nat /\ n \notin DOMAIN s /\ DOMAIN t = DOMAIN s \cup {n} /\ t[n] = p
      /\ \A i \in DOMAIN s : t[i] = s[i]
  OBVIOUS
<1>2. IsFiniteSet(N) /\ Cardinality(N) = m /\ m \in Nat
  <2>1. m \in Nat
    OBVIOUS
  <2> HIDE DEF n, m
  <2> QED  BY <2>1, OnePacketsBytes
<1> HIDE DEF n, t
<1>3. Bytes(t) = Bytes(s) \cup N
  BY <1>1 DEF Bytes
<1>4. Bytes(s) \cap N = {}
  BY <1>1 DEF Bytes
<1> HIDE DEF N, m
<1>5. /\ IsFiniteSet(Bytes(s) \cup N)
      /\ Cardinality(Bytes(s) \cup N) = Cardinality(Bytes(s)) + Cardinality(N) - Cardinality(Bytes(s) \cap N)
  BY <1>2, FS_Union
<1>6. Cardinality(Bytes(s)) \in Nat /\ Cardinality(Bytes(s) \cap N) = 0
  BY <1>4, FS_CardinalityType, FS_EmptySet
<1> QED  BY <1>2, <1>3, <1>5, <1>6 DEF byteLength, t, m

\* A packet that leaves the queue, wherever it stands, takes its bytes along.
LEMMA BytesRemove ==
    ASSUME NEW S, \A x \in S : x.size \in Nat, NEW s \in Seq(S), NEW i \in 1 .. Len(s),
           IsFiniteSet(Bytes(s))
    PROVE  /\ IsFiniteSet(Bytes(RemoveAt(s, i)))
           /\ byteLength(RemoveAt(s, i)) = byteLength(s) - s[i].size
<1> DEFINE t == RemoveAt(s, i)
           L == Len(s)
           m == s[i].size
           N == {i} \X (1 .. m)
           At(k) == IF k < i THEN k ELSE k + 1
           f == [x \in Bytes(t) |-> <<At(x[1]), x[2]>>]
           R == Bytes(s) \ N
<1>1. /\ DOMAIN s = 1 .. L /\ L \in Nat /\ i \in Nat /\ t \in Seq(S) /\ Len(t) = L - 1
      /\ \A k \in 1 .. L - 1 : t[k] = IF k < i THEN s[k] ELSE s[k + 1]
  BY RemoveAtShape
<1>2. m \in Nat
  OBVIOUS
<1> HIDE DEF t
<1>3. DOMAIN t = 1 .. L - 1
  BY <1>1
<1>4. \A k \in 1 .. L - 1 : At(k) \in 1 .. L /\ At(k) # i /\ t[k] = s[At(k)]
  BY <1>1
<1>5. \A j, k \in 1 .. L - 1 : At(j) = At(k) => j = k
  OBVIOUS
<1>6. \A j \in 1 .. L : j # i => \E k \in 1 .. L - 1 : At(k) = j
  <2> SUFFICES ASSUME NEW j \in 1 .. L, j # i PROVE \E k \in 1 .. L - 1 : At(k) = j
    OBVIOUS
  <2> DEFINE k == IF j < i THEN j ELSE j - 1
  <2>1. k \in 1 .. L - 1 /\ At(k) = j
    BY <1>1
  <2> QED  BY <2>1
<1> HIDE DEF At, L
<1>7. \A x \in Bytes(t) : \E k \in 1 .. L - 1 : \E b \in 1 .. t[k].size : x = <<k, b>>
  <2> SUFFICES ASSUME NEW x \in Bytes(t)
               PROVE  \E k \in DOMAIN t : \E b \in 1 .. t[k].size : x = <<k, b>>
    BY <1>3
  <2> QED  BY ByteOf
<1>8. ASSUME NEW k \in 1 .. L - 1, NEW b \in 1 .. t[k].size
      PROVE  <<k, b>> \in Bytes(t) /\ f[<<k, b>>] = <<At(k), b>> /\ <<At(k), b>> \in R
  <2>1. <<k, b>> \in Bytes(t)
    BY <1>3, ByteOf
  <2>2. f[<<k, b>>] = <<At(k), b>>
    BY <2>1
  <2>3. <<At(k), b>> \in Bytes(s)
    BY <1>1, <1>4, ByteOf
  <2>4. <<At(k), b>> \notin N
    BY <1>4
  <2> QED  BY <2>1, <2>2, <2>3, <2>4
<1>9. f \in [Bytes(t) -> R]
  <2> SUFFICES ASSUME NEW x \in Bytes(t) PROVE f[x] \in R
    BY Zenon
  <2>1. PICK k \in 1 .. L - 1 : \E b \in 1 .. t[k].size : x = <<k, b>>
    BY <1>7
  <2>2. PICK b \in 1 .. t[k].size : x = <<k, b>>
    BY <2>1
  <2> HIDE DEF f, R
  <2> QED  BY <1>8, <2>2
<1>10. ASSUME NEW x \in Bytes(t), NEW y \in Bytes(t), f[x] = f[y] PROVE x = y
  <2>1. PICK k \in 1 .. L - 1 : \E b \in 1 .. t[k].size : x = <<k, b>>
    BY <1>7
  <2>2. PICK b \in 1 .. t[k].size : x = <<k, b>>
    BY <2>1
  <2>3. PICK j \in 1 .. L - 1 : \E c \in 1 .. t[j].size : y = <<j, c>>
    BY <1>7
  <2>4. PICK c \in 1 .. t[j].size : y = <<j, c>>
    BY <2>3
  <2> HIDE DEF f, R
  <2>5. <<At(k), b>> = <<At(j), c>>
    BY <1>8, <1>10, <2>2, <2>4
  <2> QED  BY <1>5, <2>2, <2>4, <2>5
<1>11. ASSUME NEW y \in R PROVE \E x \in Bytes(t) : f[x] = y
  <2>1. PICK j \in 1 .. L : \E b \in 1 .. s[j].size : y = <<j, b>>
    BY <1>1, ByteOf
  <2>2. PICK b \in 1 .. s[j].size : y = <<j, b>>
    BY <2>1
  <2>3. j # i
    BY <2>2
  <2>4. PICK k \in 1 .. L - 1 : At(k) = j
    BY <1>6, <2>3
  <2>5. b \in 1 .. t[k].size
    BY <1>4, <2>4
  <2> HIDE DEF f, R
  <2> QED  BY <1>8, <2>2, <2>4, <2>5
<1> HIDE DEF f
<1>12. f \in Bijection(Bytes(t), R)
  BY <1>9, <1>10, <1>11 DEF Bijection, Injection, Surjection, IsInjective
<1>13. IsFiniteSet(R) /\ Cardinality(R) = Cardinality(Bytes(s)) - m
  <2>1. N \subseteq Bytes(s)
    <3> SUFFICES ASSUME NEW b \in 1 .. m PROVE <<i, b>> \in Bytes(s)
      OBVIOUS
    <3>1. i \in DOMAIN s
      BY <1>1 DEF L
    <3> QED  BY <3>1, ByteOf
  <2>2. Bytes(s) \cap N = N
    BY <2>1
  <2> HIDE DEF m
  <2>3. Cardinality(N) = m
    BY <1>2, OnePacketsBytes
  <2> HIDE DEF N
  <2> QED  BY <2>2, <2>3, FS_Difference
<1> HIDE DEF R
<1>14. IsFiniteSet(Bytes(t)) /\ Cardinality(Bytes(t)) = Cardinality(R)
  <2>1. f \in Injection(Bytes(t), R) /\ f \in Surjection(Bytes(t), R)
    BY <1>12 DEF Bijection
  <2> QED  BY <1>13, <2>1, FS_Injection
<1> QED  BY <1>13, <1>14 DEF byteLength, t, m

\* So does the packet at the head.
LEMMA BytesTail ==
    ASSUME NEW S, \A x \in S : x.size \in Nat, NEW s \in Seq(S), s # << >>,
           IsFiniteSet(Bytes(s))
    PROVE  /\ IsFiniteSet(Bytes(Tail(s)))
           /\ byteLength(Tail(s)) = byteLength(s) - Head(s).size
<1> DEFINE one == 1
<1>1. one \in 1 .. Len(s) /\ s[one] = Head(s)
  OBVIOUS
<1>2. RemoveAt(s, one) = Tail(s)
  BY DEF RemoveAt
<1> HIDE DEF one
<1>3. /\ IsFiniteSet(Bytes(RemoveAt(s, one)))
      /\ byteLength(RemoveAt(s, one)) = byteLength(s) - s[one].size
  BY <1>1, BytesRemove
<1> QED  BY <1>1, <1>2, <1>3

\* A shorter piece from the head holds no more bytes.
LEMMA BytesPrefix ==
    ASSUME NEW S, NEW s \in Seq(S), NEW m \in 0 .. Len(s), NEW n \in 0 .. m,
           IsFiniteSet(Bytes(SubSeq(s, 1, m)))
    PROVE  /\ IsFiniteSet(Bytes(SubSeq(s, 1, n)))
           /\ byteLength(SubSeq(s, 1, n)) <= byteLength(SubSeq(s, 1, m))
<1> DEFINE u == SubSeq(s, 1, n)
           v == SubSeq(s, 1, m)
<1>1. DOMAIN u \subseteq DOMAIN v /\ \A i \in DOMAIN u : u[i] = v[i]
  OBVIOUS
<1> HIDE DEF u, v
<1>2. Bytes(u) \in SUBSET Bytes(v)
  BY <1>1 DEF Bytes
<1>3. IsFiniteSet(Bytes(u)) /\ Cardinality(Bytes(u)) <= Cardinality(Bytes(v))
  BY <1>2, FS_Subset DEF v
<1> QED  BY <1>3 DEF byteLength, u, v
=============================================================================
