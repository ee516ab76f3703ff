------------------------------ MODULE TcpProofs ------------------------------
(***************************************************************************)
(* What TcpConnection promises, proved for every window, ring size and     *)
(* number of packets, losses and marks: Spec => []P for AckedHasArrived,   *)
(* WindowKept, KarnsRule and TimerRuns.                                    *)
(*                                                                         *)
(* TcpInv is the inductive invariant.  It says of the ring of the sink     *)
(* that its slot for i holds whether i has come, for the packets from      *)
(* next_ to maxseen_ + 1, which never share a slot; and of the sender that *)
(* the packet measured lies below t_seqno_, so that output(), which goes   *)
(* on from t_seqno_, cannot send it again.                                 *)
(*                                                                         *)
(* One lemma shows what each method does to a sender or a sink, one lemma  *)
(* per action that it keeps TcpInv.  That the ring's doubling ends needs   *)
(* induction: InductionOnNat states it for the members of a set.           *)
(***************************************************************************)
EXTENDS TcpConnection, SequenceTheorems, WellFoundedInduction, TLAPS

-----------------------------------------------------------------------------
(* The inductive invariant *)

\* What travels from the sender, and back.
Packet == [seq : Nat, ce : BOOLEAN, cwr : BOOLEAN, ect : BOOLEAN, syn : BOOLEAN]
Ack == [seq : Int, ecnecho : BOOLEAN]

\* The packets up to m, and the ACKs below n.
PacketsTo(m) == {p \in Packet : p.seq <= m}
AcksBelow(n) == {a \in Ack : a.seq < n}

Sender ==
    [ecn : BOOLEAN, ect : BOOLEAN, cong_action : BOOLEAN,
     t_seqno : Nat, curseq : Nat, maxseq : Int, ack : Int, dupacks : Nat,
     cwnd : Nat, ssthresh : Nat \ {0}, wnd_init : {1, 2},
     recover : Int, last_cwnd_action : {"none", "ecn", "dupack", "timeout"},
     rtt_active : BOOLEAN, rtt_seq : Int, rtx_timer : BOOLEAN,
     closed : BOOLEAN, out : Seq(Packet)]

Rings == UNION {[0 .. n - 1 -> BOOLEAN] : n \in Nat}
Sink ==
    [next : Nat, maxseen : Nat, size : Nat, seen : Rings,
     unacked : BOOLEAN, saved : Packet \cup {Nothing}]

\* A sender at any point of a handler: its sequence numbers are in order, the
\* window is kept, and a round trip is measured with a packet that has been
\* sent and is not acknowledged.
SenderOK(s) ==
    /\ s \in Sender
    /\ -1 <= s.ack /\ s.ack < s.t_seqno /\ s.t_seqno <= s.maxseq + 1
    /\ s.maxseq <= s.ack + Wnd
    /\ s.rtt_seq <= s.maxseq
    /\ s.rtt_active => s.ack < s.rtt_seq /\ s.rtt_seq < s.t_seqno

\* The handler began with maxseq_ = m, when the packets of R had been sent more than once:
\* it has sent known packets, and none of them is the one measured again.
SentOK(s, m, R) ==
    /\ m <= s.maxseq
    /\ s.out \in Seq(PacketsTo(s.maxseq))
    /\ s.rtt_active => /\ s.rtt_seq \notin R
                       /\ \A p \in Range(s.out) : p.seq <= m => p.seq # s.rtt_seq

\* A sender inside a handler: c is the data it may send up to, m and R are what
\* maxseq_ and the packets sent twice were when the handler began.
HandlerOK(s, c, m, R) ==
    /\ SenderOK(s) /\ SentOK(s, m, R)
    /\ s.maxseq >= 0 /\ s.rtx_timer
    /\ s.curseq = c
    /\ s.maxseq = m \/ s.maxseq < c

\* t differs from s in fields the sequence numbers do not depend on.
SameNumbers(t, s) ==
    /\ t \in Sender
    /\ t.ack = s.ack /\ t.t_seqno = s.t_seqno /\ t.maxseq = s.maxseq /\ t.curseq = s.curseq
    /\ t.rtt_seq = s.rtt_seq /\ t.rtt_active = s.rtt_active /\ t.rtx_timer = s.rtx_timer
    /\ t.out = s.out

\* The ring of the sink holds what has come of the packets from next_ on.
RingOK(r, G) ==
    /\ r \in Sink
    /\ r.size \in Nat \ {0, 1}
    /\ r.seen \in [0 .. r.size - 1 -> BOOLEAN]
    /\ r.next <= r.maxseen + 1 /\ r.maxseen + 1 - r.next < r.size
    /\ \A i \in r.next .. r.maxseen + 1 : r.seen[i % r.size] <=> i \in G
    /\ G \subseteq 0 .. r.maxseen
    /\ 0 .. r.next - 1 \subseteq G
    /\ r.next \notin G

\* Nothing has been sent, or the timer is set.
StartOK ==
    \/ /\ snd.maxseq = -1 /\ snd.cwnd = Unit /\ snd.curseq = 0 /\ given = 0
       /\ ~snd.rtx_timer /\ data = <<>> /\ acks = <<>> /\ rcv.saved = Nothing
    \/ snd.maxseq >= 0 /\ given > 0 /\ snd.rtx_timer

\* The sender between two handlers.
SenderInv ==
    /\ SenderOK(snd) /\ snd.out = <<>>
    /\ snd.rtt_active => snd.rtt_seq \notin resent
    /\ resent \subseteq 0 .. snd.maxseq

\* What is sent has been handed over.
GivenInv ==
    /\ given \in 0 .. MaxSeq
    /\ snd.maxseq <= given /\ snd.curseq <= given + 1
    /\ snd.maxseq < snd.curseq \/ stopped

\* What is under way was sent, or acknowledges what has come.
NetworkInv ==
    /\ data \in Seq(PacketsTo(snd.maxseq))
    /\ acks \in Seq(AcksBelow(rcv.next))

\* What the sink has was sent, and what the sender takes for acknowledged has come.
SinkInv ==
    /\ RingOK(rcv, got)
    /\ got \subseteq 0 .. snd.maxseq
    /\ snd.ack < rcv.next

TcpInv == SenderInv /\ GivenInv /\ StartOK /\ NetworkInv /\ SinkInv

-----------------------------------------------------------------------------
(* Numbers *)

\* Every nonempty set of natural numbers has a least element.
LEMMA LeastNumber ==
    ASSUME NEW T \in SUBSET Nat, T # {}
    PROVE  \E x \in T : \A y \in T : x <= y
<1> DEFINE R == {ss \in Nat \X Nat : ss[1] < ss[2]}
<1>1. IsWellFoundedOn(R, Nat)
  BY NatLessThanWellFounded DEF OpToRel
<1>2. PICK x \in T : \A y \in T : ~(<<y, x>> \in R)
  BY <1>1, WFMin, Zenon
<1>3. ASSUME NEW y \in T PROVE ~(y < x)
  <2>1. <<y, x>> \in Nat \X Nat /\ <<y, x>>[1] = y /\ <<y, x>>[2] = x
    OBVIOUS
  <2> QED  BY <1>2, <2>1
<1> QED  BY <1>3

\* Induction on natural numbers, for the members of a set.
LEMMA InductionOnNat ==
    ASSUME NEW T, 0 \in T, \A n \in Nat : n \in T => n + 1 \in T
    PROVE  Nat \subseteq T
<1> SUFFICES ASSUME Nat \ T # {} PROVE FALSE
  OBVIOUS
<1>1. PICK x \in Nat \ T : \A y \in Nat \ T : x <= y
  BY LeastNumber
<1>2. x # 0 /\ x - 1 \in Nat
  BY <1>1
<1>3. x - 1 \in T
  BY <1>1, <1>2
<1> QED  BY <1>1, <1>2, <1>3

\* Min of the community modules is the least element.
LEMMA MinIsLeast ==
    ASSUME NEW S \in SUBSET Nat, S # {}
    PROVE  Min(S) \in S /\ \A y \in S : Min(S) <= y
<1>1. \E x \in S : \A y \in S : x <= y
  BY LeastNumber
<1> QED  BY <1>1 DEF Min

\* std::min
LEMMA MinOfTwo ==
    ASSUME NEW a \in Int, NEW b \in Int
    PROVE  Min({a, b}) = IF a <= b THEN a ELSE b
<1>1. \E x \in {a, b} : \A y \in {a, b} : x <= y
  OBVIOUS
<1>2. Min({a, b}) \in {a, b} /\ \A y \in {a, b} : Min({a, b}) <= y
  BY <1>1 DEF Min
<1> QED  BY <1>2

\* std::max
LEMMA MaxOfTwo ==
    ASSUME NEW a \in Int, NEW b \in Int
    PROVE  Max({a, b}) = IF a >= b THEN a ELSE b
<1>1. \E x \in {a, b} : \A y \in {a, b} : x >= y
  OBVIOUS
<1>2. Max({a, b}) \in {a, b} /\ \A y \in {a, b} : Max({a, b}) >= y
  BY <1>1 DEF Max
<1> QED  BY <1>2

\* Multiplication is monotonic.
LEMMA Times2 ==
    ASSUME NEW a \in Nat, NEW b \in Nat, NEW c \in Nat, b >= c
    PROVE  a * b \in Nat /\ a * b >= a * c
OBVIOUS

\* Two numbers less than s apart have different remainders.
LEMMA RingSlots ==
    ASSUME NEW s \in Nat \ {0}, NEW i \in Nat, NEW j \in Nat, i < j, j - i < s
    PROVE  i % s # j % s
<1> DEFINE a == i \div s
           b == j \div s
<1>1. /\ a \in Nat /\ b \in Nat
      /\ i = s * a + (i % s) /\ j = s * b + (j % s)
      /\ i % s \in 0 .. s - 1 /\ j % s \in 0 .. s - 1
  OBVIOUS
<1> HIDE DEF a, b
<1> SUFFICES ASSUME i % s = j % s PROVE FALSE
  OBVIOUS
<1>2. s * b - s * a = j - i
  BY <1>1
<1>3. CASE a >= b
  <2>1. s * a >= s * b  BY <1>1, <1>3, Times2
  <2>2. s * a \in Nat /\ s * b \in Nat  BY <1>1, Times2
  <2> QED  BY <1>2, <2>1, <2>2
<1>4. CASE b >= a + 1
  <2>1. s * b >= s * (a + 1)  BY <1>1, <1>4, Times2
  <2>2. s * (a + 1) = s * a + s  BY <1>1
  <2>3. s * a \in Nat /\ s * b \in Nat  BY <1>1, Times2
  <2> QED  BY <1>2, <2>1, <2>2, <2>3
<1> QED  BY <1>1, <1>3, <1>4

\* The recursion that defines Doublings has a solution.
LEMMA DoublingsDef ==
    Doublings = [k \in Nat |-> IF k = 0 THEN 1 ELSE 2 * Doublings[k - 1]]
<1> DEFINE Solves(g, n) == /\ g \in [0 .. n -> Nat] /\ g[0] = 1
                           /\ \A k \in 1 .. n : g[k] = 2 * g[k - 1]
           T == {n \in Nat : \E g \in [0 .. n -> Nat] : Solves(g, n)}
<1>1. 0 \in T
  <2> DEFINE g == [k \in 0 .. 0 |-> 1]
  <2>1. g \in [0 .. 0 -> Nat] /\ Solves(g, 0)
    OBVIOUS
  <2> HIDE DEF g
  <2> QED  BY <2>1
<1>2. ASSUME NEW n \in Nat, n \in T PROVE n + 1 \in T
  <2>1. PICK g \in [0 .. n -> Nat] : Solves(g, n)
    BY <1>2
  <2> DEFINE h == [k \in 0 .. n + 1 |-> IF k = n + 1 THEN 2 * g[n] ELSE g[k]]
  <2>2. h \in [0 .. n + 1 -> Nat] /\ h[0] = 1
    BY <2>1
  <2>3. ASSUME NEW k \in 1 .. n + 1 PROVE h[k] = 2 * h[k - 1]
    BY <2>1
  <2> HIDE DEF h
  <2>4. n + 1 \in Nat /\ Solves(h, n + 1)
    BY <2>2, <2>3
  <2> HIDE DEF Solves
  <2> QED  BY <2>2, <2>4
<1>3. Nat \subseteq T
  <2> HIDE DEF T
  <2> QED  BY <1>1, <1>2, InductionOnNat
<1>4. ASSUME NEW m \in Nat, NEW g, NEW h, NEW n \in Nat, n <= m, Solves(g, n), Solves(h, m)
      PROVE  g[n] = h[n]
  <2> DEFINE U == {k \in Nat : k <= n => g[k] = h[k]}
  <2>1. 0 \in U
    BY <1>4
  <2>2. ASSUME NEW k \in Nat, k \in U PROVE k + 1 \in U
    <3> SUFFICES ASSUME k + 1 <= n PROVE g[k + 1] = h[k + 1]
      OBVIOUS
    <3>1. g[k] = h[k] /\ k + 1 \in 1 .. n /\ k + 1 \in 1 .. m /\ (k + 1) - 1 = k
      BY <1>4, <2>2
    <3> QED  BY <1>4, <3>1
  <2>3. Nat \subseteq U
    <3> HIDE DEF U
    <3> QED  BY <2>1, <2>2, InductionOnNat
  <2> QED  BY <2>3
<1> DEFINE at(n) == CHOOSE g \in [0 .. n -> Nat] : Solves(g, n)
           f == [n \in Nat |-> at(n)[n]]
<1>5. ASSUME NEW n \in Nat PROVE Solves(at(n), n)
  BY <1>3
<1> HIDE DEF at
<1>6. f = [k \in Nat |-> IF k = 0 THEN 1 ELSE 2 * f[k - 1]]
  <2>1. ASSUME NEW k \in Nat PROVE f[k] = IF k = 0 THEN 1 ELSE 2 * f[k - 1]
    <3>1. CASE k = 0
      BY <1>5, <3>1
    <3>2. CASE k # 0
      <4>1. k - 1 \in Nat /\ k - 1 <= k /\ k \in 1 .. k
        BY <3>2
      <4>2. at(k)[k] = 2 * at(k)[k - 1]
        BY <1>5, <4>1
      <4>3. at(k - 1)[k - 1] = at(k)[k - 1]
        <5> HIDE DEF Solves
        <5> QED  BY <1>4, <1>5, <4>1
      <4> QED  BY <3>2, <4>1, <4>2, <4>3
    <3> QED  BY <3>1, <3>2
  <2> QED  BY <2>1
<1> QED  BY <1>6 DEF Doublings

\* The powers of two are unbounded: the loop of update() ends.
LEMMA DoublingsGrow == \A k \in Nat : Doublings[k] \in Nat /\ Doublings[k] > k
<1> DEFINE T == {k \in Nat : Doublings[k] \in Nat /\ Doublings[k] > k}
<1>1. 0 \in T
  BY DoublingsDef
<1>2. ASSUME NEW k \in Nat, k \in T PROVE k + 1 \in T
  <2>1. Doublings[k + 1] = 2 * Doublings[k]
    BY DoublingsDef
  <2> QED  BY <1>2, <2>1
<1>3. Nat \subseteq T
  <2> HIDE DEF T
  <2> QED  BY <1>1, <1>2, InductionOnNat
<1> QED  BY <1>3

-----------------------------------------------------------------------------
(* The sink *)

\* Two packets of the ring's range share a slot only if they are the same.
LEMMA SlotsApart ==
    ASSUME NEW s \in Nat \ {0}, NEW a \in Nat, NEW b \in Nat, b - a < s,
           NEW i \in a .. b, NEW j \in a .. b, i % s = j % s
    PROVE  i = j
<1>1. i \in Nat /\ j \in Nat /\ j - i < s /\ i - j < s
  OBVIOUS
<1>2. ~(i < j) /\ ~(j < i)
  BY <1>1, RingSlots
<1> QED  BY <1>1, <1>2

\* resize_buffers() keeps what the ring says.
LEMMA ResizeKeepsRing ==
    ASSUME NEW r, NEW G, RingOK(r, G), NEW n \in Nat, n >= r.size
    PROVE  RingOK(resize_buffers(r, n), G)
<1> DEFINE q == resize_buffers(r, n)
           s == [k \in 0 .. n - 1 |->
                  \E i \in r.next .. r.maxseen + 1 : i % n = k /\ r.seen[i % r.size]]
<1>1. s \in [0 .. n - 1 -> BOOLEAN]
  OBVIOUS
<1> HIDE DEF s
<1>2. /\ q \in Sink /\ q.size = n /\ q.seen = s /\ q.next = r.next /\ q.maxseen = r.maxseen
      /\ r.next \in Nat /\ r.maxseen \in Nat /\ r.size \in Nat \ {0, 1} /\ n \in Nat \ {0, 1}
  <2>1. s \in Rings
    BY <1>1 DEF Rings
  <2>2. q = [r EXCEPT !.size = n, !.seen = s]
    BY DEF resize_buffers, s
  <2> HIDE DEF q
  <2>3. r.next \in Nat /\ r.maxseen \in Nat /\ r.size \in Nat \ {0, 1} /\ n \in Nat \ {0, 1}
    BY DEF RingOK, Sink
  <2>4. r \in Sink
    BY DEF RingOK
  <2> QED  BY <2>1, <2>2, <2>3, <2>4 DEF Sink
<1>3. ASSUME NEW i \in r.next .. r.maxseen + 1 PROVE s[i % n] <=> i \in G
  <2>1. i % n \in 0 .. n - 1
    BY <1>2
  <2>2. s[i % n] <=> \E j \in r.next .. r.maxseen + 1 : j % n = i % n /\ r.seen[j % r.size]
    BY <2>1 DEF s
  <2>3. ASSUME NEW j \in r.next .. r.maxseen + 1, j % n = i % n PROVE j = i
    <3>1. r.maxseen + 1 \in Nat /\ (r.maxseen + 1) - r.next < n
      BY <1>2, SMTT(30) DEF RingOK
    <3> QED  BY <1>2, <2>3, <3>1, SlotsApart
  <2>4. r.seen[i % r.size] <=> i \in G
    BY DEF RingOK
  <2> QED  BY <2>2, <2>3, <2>4
<1> HIDE DEF q
<1>4. q.maxseen + 1 - q.next < n
  BY <1>2 DEF RingOK
<1>5. RingOK(q, G)
  BY <1>1, <1>2, <1>3, <1>4 DEF RingOK
<1> QED  BY <1>5 DEF q

\* The loop at the head of update() ends with a ring in which seq fits.
LEMMA GrownFits ==
    ASSUME NEW r, NEW G, RingOK(r, G), NEW seq \in Nat
    PROVE  LET g == Grown(r, seq)
           IN  RingOK(g, G) /\ seq + 1 - g.next < g.size - 1 /\ g.next = r.next
<1> DEFINE Fits(n) == seq + 1 - r.next < n - 1
           sizes == {r.size * Doublings[k] : k \in 0 .. seq + 1}
           fit == {n \in sizes : Fits(n)}
<1>1. r.next \in Nat /\ r.maxseen \in Nat /\ r.size \in Nat \ {0, 1}
  BY DEF RingOK, Sink
<1>2. CASE Fits(r.size)
  BY <1>2 DEF Grown
<1>3. CASE ~Fits(r.size)
  <2>1. ASSUME NEW k \in 0 .. seq + 1 PROVE r.size * Doublings[k] \in Nat
    <3>1. k \in Nat /\ Doublings[k] \in Nat
      BY DoublingsGrow
    <3> QED  BY <1>1, <3>1
  <2>2. fit \subseteq Nat
    BY <2>1
  <2>3. r.size * Doublings[seq + 1] \in fit
    <3>1. seq + 1 \in Nat /\ Doublings[seq + 1] \in Nat /\ Doublings[seq + 1] > seq + 1
      BY DoublingsGrow
    <3>2. Doublings[seq + 1] * r.size >= Doublings[seq + 1] * 2
      BY <1>1, <3>1, Times2
    <3>3. r.size * Doublings[seq + 1] = Doublings[seq + 1] * r.size
      BY <1>1, <3>1
    <3>4. Doublings[seq + 1] * r.size \in Nat
      BY <1>1, <3>1, Times2
    <3>5. Fits(r.size * Doublings[seq + 1])
      BY <1>1, <3>1, <3>2, <3>3, <3>4
    <3> QED  BY <3>1, <3>5
  <2> DEFINE n == Min(fit)
  <2>4. n \in fit
    <3> HIDE DEF fit
    <3> QED  BY <2>2, <2>3, MinIsLeast
  <2>5. n \in Nat /\ Fits(n)
    <3> HIDE DEF n
    <3> QED  BY <2>2, <2>4
  <2>6. Grown(r, seq) = resize_buffers(r, n)
    BY <1>3 DEF Grown
  <2> HIDE DEF n, fit
  <2>7. n >= r.size
    BY <1>1, <1>3, <2>5
  <2>8. RingOK(resize_buffers(r, n), G)
    BY <2>5, <2>7, ResizeKeepsRing
  <2>9. resize_buffers(r, n).size = n /\ resize_buffers(r, n).next = r.next
    BY DEF resize_buffers, RingOK, Sink
  <2> QED  BY <2>5, <2>6, <2>8, <2>9
<1> QED  BY <1>2, <1>3

\* update() with room for seq: the ring tells of the packets from the new
\* next_ on, and everything below it has come.
LEMMA UpdateKeepsRing ==
    ASSUME NEW r, NEW G, RingOK(r, G), NEW seq \in Nat, seq + 1 - r.next < r.size - 1
    PROVE  LET u == update(r, seq)
           IN  RingOK(u, G \cup {seq}) /\ r.next <= u.next
<1> DEFINE u == update(r, seq)
           H == G \cup {seq}
           top == Max({r.maxseen, seq})
           Seen(k) == \/ seq >= r.next /\ k = seq % r.size
                      \/ r.seen[k] /\ ~\E i \in r.maxseen + 1 .. seq + 1 :
                                          seq > r.maxseen /\ k = i % r.size
           seen == [k \in 0 .. r.size - 1 |-> Seen(k)]
           gaps == {i \in r.next .. top + 1 : ~Seen(i % r.size)}
<1>1. r.next \in Nat /\ r.maxseen \in Nat /\ r.size \in Nat \ {0, 1}
  BY DEF RingOK, Sink
<1>2. CASE seq < r.next
  <2>1. H = G
    BY <1>1, <1>2 DEF RingOK
  <2>2. u = r
    BY <1>2 DEF update
  <2>3. r.next <= r.next
    BY <1>1
  <2> HIDE DEF u, H
  <2>4. RingOK(u, H) /\ r.next <= u.next
    BY <2>1, <2>2, <2>3
  <2> QED  BY <2>4 DEF u, H
<1>3. CASE seq >= r.next
  <2>1. top \in Nat /\ top >= seq /\ top >= r.maxseen /\ (top = seq \/ top = r.maxseen)
    BY <1>1, MaxOfTwo
  <2> HIDE DEF top
  <2>2. top + 1 - r.next < r.size /\ r.next <= top + 1 /\ top + 1 \in Nat
    BY <1>1, <2>1, SMTT(30) DEF RingOK
  <2>3. ASSUME NEW i \in r.next .. top + 1, NEW j \in r.next .. top + 1,
               i % r.size = j % r.size
        PROVE  i = j
    <3> HIDE DEF u, H, Seen, seen, gaps
    <3>1. (top + 1) - r.next < r.size
      BY <1>1, <2>1, <2>2
    <3> QED  BY <1>1, <2>1, <2>2, <2>3, <3>1, SlotsApart
  <2>4. ASSUME NEW i \in r.next .. top + 1 PROVE Seen(i % r.size) <=> i \in H
    <3>1. CASE i = seq
      BY <1>3, <3>1
    <3>2. CASE i # seq /\ i <= r.maxseen
      <4>1. i % r.size # seq % r.size
        BY <1>1, <1>3, <2>1, <2>3, <3>2
      <4>2. ASSUME NEW j \in r.maxseen + 1 .. seq + 1, seq > r.maxseen PROVE i % r.size # j % r.size
        <5>1. j \in r.next .. top + 1 /\ j # i
          BY <1>1, <2>1, <3>2 DEF RingOK
        <5> QED  BY <2>3, <5>1
      <4>3. i \in r.next .. r.maxseen + 1
        BY <1>1, <3>2
      <4>4. r.seen[i % r.size] <=> i \in G
        BY <4>3 DEF RingOK
      <4> QED  BY <3>2, <4>1, <4>2, <4>4
    <3>3. CASE i # seq /\ i > r.maxseen /\ seq > r.maxseen
      <4>1. i % r.size # seq % r.size
        BY <1>1, <1>3, <2>1, <2>3, <3>3
      <4>2. i \in r.maxseen + 1 .. seq + 1
        BY <1>1, <2>1, <3>3
      <4>3. i \notin G
        BY <1>1, <3>3 DEF RingOK
      <4> QED  BY <3>3, <4>1, <4>2, <4>3
    <3>4. CASE i # seq /\ i > r.maxseen /\ seq <= r.maxseen
      <4>1. i % r.size # seq % r.size
        BY <1>1, <1>3, <2>1, <2>3, <3>4
      <4>2. i \in r.next .. r.maxseen + 1
        BY <1>1, <2>1, <3>4
      <4>3. r.seen[i % r.size] <=> i \in G
        BY <4>2 DEF RingOK
      <4> QED  BY <1>1, <3>4, <4>1, <4>3
    <3> QED  BY <1>1, <3>1, <3>2, <3>3, <3>4
  <2>5. seen \in [0 .. r.size - 1 -> BOOLEAN]
    OBVIOUS
  <2>6. ASSUME NEW i \in r.next .. top + 1 PROVE seen[i % r.size] <=> i \in H
    <3>1. i % r.size \in 0 .. r.size - 1
      BY <1>1
    <3> QED  BY <2>4, <3>1
  <2>7. gaps = {i \in r.next .. top + 1 : i \notin H}
    <3> HIDE DEF Seen, H
    <3> QED  BY <2>4
  <2>8. u = [r EXCEPT !.maxseen = top, !.seen = seen, !.next = Min(gaps)]
    BY <1>1, <1>3 DEF update, top
  <2>9. H \subseteq 0 .. top
    BY <1>1, <2>1 DEF RingOK
  <2>10. Min(gaps) \in gaps /\ \A i \in gaps : Min(gaps) <= i
    <3>1. top + 1 \in gaps /\ gaps \subseteq Nat
      <4> HIDE DEF H
      <4> QED  BY <1>1, <2>1, <2>2, <2>7, <2>9
    <3> HIDE DEF gaps
    <3> QED  BY <3>1, MinIsLeast
  <2> HIDE DEF Seen, seen, gaps
  <2> DEFINE next == Min(gaps)
  <2>11. next \in r.next .. top + 1 /\ next \notin H
    BY <2>7, <2>10
  <2>12. 0 .. next - 1 \subseteq H
    <3> SUFFICES ASSUME NEW i \in 0 .. next - 1 PROVE i \in H
      OBVIOUS
    <3>1. CASE i < r.next
      BY <1>1, <3>1, SMTT(30) DEF RingOK
    <3>2. CASE i >= r.next
      <4>1. i \in r.next .. top + 1 /\ ~(next <= i)
        BY <1>1, <2>1, <2>11, <3>2
      <4> HIDE DEF H
      <4> QED  BY <2>7, <2>10, <4>1
    <3> QED  BY <1>1, <3>1, <3>2
  <2> HIDE DEF next, u, H
  <2>13. /\ u \in Sink /\ u.next = next /\ u.maxseen = top /\ u.seen = seen /\ u.size = r.size
    <3>1. seen \in Rings
      BY <1>1, <2>5 DEF Rings
    <3>2. next \in Nat
      BY <1>1, <2>11
    <3> QED  BY <2>1, <2>8, <3>1, <3>2 DEF RingOK, Sink, next
  <2>14. u.next <= u.maxseen + 1 /\ u.maxseen + 1 - u.next < u.size
    BY <1>1, <2>1, <2>2, <2>11, <2>13
  <2>15. \A i \in u.next .. u.maxseen + 1 : u.seen[i % u.size] <=> i \in H
    <3> SUFFICES ASSUME NEW i \in u.next .. u.maxseen + 1
                 PROVE  u.seen[i % u.size] <=> i \in H
      OBVIOUS
    <3>1. i \in r.next .. top + 1
      BY <1>1, <2>1, <2>11, <2>13
    <3> QED  BY <2>6, <2>13, <3>1
  <2>16. RingOK(u, H)
    BY <1>1, <2>5, <2>9, <2>11, <2>12, <2>13, <2>14, <2>15 DEF RingOK
  <2> QED  BY <1>1, <2>1, <2>11, <2>13, <2>16 DEF u, H
<1> QED  BY <1>1, <1>2, <1>3

-----------------------------------------------------------------------------
(* Sending *)

\* The packets that output() puts on the wire.
LEMMA WireOK ==
    ASSUME NEW s, SenderOK(s), NEW last \in Int, s.t_seqno <= last, NEW m \in Int, last <= m
    PROVE  LET w == [i \in 1 .. last - s.t_seqno + 1 |->
                       [seq |-> s.t_seqno + i - 1, ce |-> FALSE,
                        cwr |-> i = 1 /\ s.cong_action,
                        ect |-> s.ecn /\ s.t_seqno + i # 1,
                        syn |-> s.ecn /\ s.t_seqno + i = 1]]
           IN  w \in Seq(PacketsTo(m)) /\ \A p \in Range(w) : p.seq >= s.t_seqno
<1> DEFINE n == last - s.t_seqno + 1
           P(i) == [seq |-> s.t_seqno + i - 1, ce |-> FALSE,
                    cwr |-> i = 1 /\ s.cong_action,
                    ect |-> s.ecn /\ s.t_seqno + i # 1,
                    syn |-> s.ecn /\ s.t_seqno + i = 1]
           w == [i \in 1 .. n |-> P(i)]
<1>1. s.t_seqno \in Nat
  BY DEF SenderOK, Sender
<1>2. n \in Nat
  BY <1>1
<1>3. ASSUME NEW i \in 1 .. n PROVE P(i) \in PacketsTo(m) /\ P(i).seq >= s.t_seqno
  <2> DEFINE a == i = 1 /\ s.cong_action
             b == s.ecn /\ s.t_seqno + i # 1
             c == s.ecn /\ s.t_seqno + i = 1
             q == s.t_seqno + i - 1
  <2>1. a \in BOOLEAN /\ b \in BOOLEAN /\ c \in BOOLEAN
    OBVIOUS
  <2>2. q \in Nat /\ q <= m /\ q >= s.t_seqno
    BY <1>1
  <2> HIDE DEF a, b, c, q
  <2>3. [seq |-> q, ce |-> FALSE, cwr |-> a, ect |-> b, syn |-> c] \in PacketsTo(m)
    BY <2>1, <2>2 DEF PacketsTo, Packet
  <2> QED  BY <2>2, <2>3 DEF a, b, c, q
<1> HIDE DEF P
<1>4. w \in [1 .. n -> PacketsTo(m)]
  BY <1>3
<1>5. w \in Seq(PacketsTo(m))
  <2> HIDE DEF w, n
  <2> QED  BY <1>2, <1>4
<1>6. \A p \in Range(w) : p.seq >= s.t_seqno
  <2> HIDE DEF n
  <2> QED  BY <1>3 DEF Range
<1> QED  BY <1>5, <1>6 DEF P

\* The packets of a sequence that is appended to.
LEMMA RangeOfConcat ==
    ASSUME NEW S, NEW a \in Seq(S), NEW b \in Seq(S), NEW p \in Range(a \o b)
    PROVE  p \in Range(a) \/ p \in Range(b)
<1>1. PICK i \in 1 .. Len(a \o b) : p = (a \o b)[i]
  <2>1. a \o b \in Seq(S)
    BY ConcatProperties
  <2> QED  BY <2>1, LenProperties DEF Range
<1>2. CASE i <= Len(a)
  BY <1>1, <1>2, ConcatProperties, LenProperties DEF Range
<1>3. CASE i > Len(a)
  <2>1. Len(a \o b) = Len(a) + Len(b) /\ Len(a) \in Nat /\ Len(b) \in Nat
    BY ConcatProperties, LenProperties
  <2>2. i - Len(a) \in 1 .. Len(b) /\ p = b[i - Len(a)]
    BY <1>1, <1>3, <2>1, ConcatProperties
  <2> QED  BY <2>2, LenProperties DEF Range
<1> QED  BY <1>1, <1>2, <1>3, LenProperties

\* output() of packets that the window allows.
LEMMA OutputOK ==
    ASSUME NEW s, SenderOK(s), NEW m \in Int, NEW R \in SUBSET (0 .. m), SentOK(s, m, R),
           NEW last \in Int, s.t_seqno <= last, last <= s.ack + Wnd
    PROVE  LET o == output(s, last)
           IN  /\ SenderOK(o) /\ SentOK(o, m, R)
               /\ o.maxseq = IF last > s.maxseq THEN last ELSE s.maxseq
               /\ o.curseq = IF s.maxseq = -1 THEN s.curseq + 1 ELSE s.curseq
               /\ o.ack = s.ack /\ o.cwnd = s.cwnd /\ o.rtx_timer
<1> DEFINE w == [i \in 1 .. last - s.t_seqno + 1 |->
                       [seq |-> s.t_seqno + i - 1, ce |-> FALSE,
                        cwr |-> i = 1 /\ s.cong_action,
                        ect |-> s.ecn /\ s.t_seqno + i # 1,
                        syn |-> s.ecn /\ s.t_seqno + i = 1]]
           new == last > s.maxseq
           o == output(s, last)
           top == IF new THEN last ELSE s.maxseq
           out == s.out \o w
           timed == IF new /\ ~s.rtt_active /\ s.maxseq + 1 > s.rtt_seq
                    THEN s.maxseq + 1 ELSE s.rtt_seq
           cur == IF s.maxseq = -1 THEN s.curseq + 1 ELSE s.curseq
           act == s.rtt_active \/ new
<1>1. /\ s.t_seqno \in Nat /\ s.maxseq \in Int /\ s.ack \in Int /\ s.rtt_seq \in Int
      /\ s.curseq \in Nat /\ s.rtt_active \in BOOLEAN /\ s.out \in Seq(Packet)
  BY DEF SenderOK, Sender
<1>2. top \in Int /\ last <= top /\ s.maxseq <= top
  BY <1>1
<1>3. o = [s EXCEPT !.out = out, !.cong_action = FALSE, !.curseq = cur, !.t_seqno = last + 1,
                    !.maxseq = top, !.rtt_active = act, !.rtt_seq = timed, !.rtx_timer = TRUE]
  BY <1>1 DEF output
<1>4. w \in Seq(PacketsTo(top)) /\ \A p \in Range(w) : p.seq >= s.t_seqno
  <2> HIDE DEF top
  <2> QED  BY <1>2, WireOK
<1> HIDE DEF w, o
<1>5. s.out \in Seq(PacketsTo(top))
  <2>1. PacketsTo(s.maxseq) \subseteq PacketsTo(top)
    BY <1>1, <1>2 DEF PacketsTo, Packet
  <2>2. s.out \in Seq(PacketsTo(s.maxseq))
    BY DEF SentOK
  <2> QED  BY <2>1, <2>2, SeqMonotonic
<1>6. out \in Seq(PacketsTo(top)) /\ out \in Seq(Packet)
  <2>1. out \in Seq(PacketsTo(top))
    BY <1>4, <1>5, ConcatProperties
  <2>2. PacketsTo(top) \subseteq Packet
    BY DEF PacketsTo
  <2> HIDE DEF out
  <2> QED  BY <2>1, <2>2, SeqMonotonic
<1>7. \A p \in Range(out) : p \in Range(s.out) \/ p \in Range(w)
  BY <1>4, <1>5, RangeOfConcat
<1>8. cur \in Nat /\ timed \in Int /\ act \in BOOLEAN /\ last + 1 \in Nat
  BY <1>1
<1>9. timed <= top /\ (act => s.ack < timed /\ timed < last + 1)
  BY <1>1, <1>2 DEF SenderOK
<1>10. act => timed \notin R /\ \A p \in Range(out) : p.seq <= m => p.seq # timed
  <2>1. \A p \in Range(out) : p.seq \in Nat
    BY <1>6, LenProperties, ElementOfSeq DEF Range, PacketsTo, Packet
  <2>2. CASE s.rtt_active
    <3>1. timed = s.rtt_seq /\ s.rtt_seq < s.t_seqno
      BY <2>2 DEF SenderOK
    <3> HIDE DEF timed, out
    <3> QED  BY <1>1, <1>4, <1>7, <2>1, <2>2, <3>1 DEF SentOK
  <2>3. CASE ~s.rtt_active /\ new
    <3>1. timed = s.maxseq + 1 /\ m <= s.maxseq
      BY <1>1, <2>3 DEF SenderOK, SentOK
    <3> HIDE DEF timed, out
    <3> QED  BY <1>1, <2>1, <3>1
  <2> QED  BY <2>2, <2>3
<1> HIDE DEF top, out, timed, cur, act
<1>11. /\ o \in Sender
       /\ o.out = out /\ o.curseq = cur /\ o.t_seqno = last + 1 /\ o.maxseq = top
       /\ o.rtt_active = act /\ o.rtt_seq = timed /\ o.rtx_timer
       /\ o.ack = s.ack /\ o.cwnd = s.cwnd
  <2>1. s \in Sender
    BY DEF SenderOK
  <2> HIDE DEF new
  <2> QED  BY <1>2, <1>3, <1>6, <1>8, <2>1 DEF Sender
<1>12. top <= s.ack + Wnd /\ last + 1 <= top + 1 /\ s.ack < last + 1 /\ -1 <= s.ack
  BY <1>1, <1>2, SenderAssumption, SMTT(30) DEF SenderOK, top
<1>13. SenderOK(o)
  BY <1>1, <1>9, <1>11, <1>12 DEF SenderOK
<1>14. SentOK(o, m, R)
  <2>1. m <= top
    BY <1>1, <1>2 DEF SentOK
  <2> QED  BY <1>6, <1>10, <1>11, <2>1 DEF SentOK
<1> QED  BY <1>11, <1>13, <1>14 DEF o, top, cur

\* window() is a number of packets, and no more than the receiver allows.
LEMMA WindowType ==
    ASSUME NEW s, SenderOK(s)
    PROVE  window(s) \in 0 .. Wnd
<1>1. s.cwnd \in Nat /\ Unit \in Nat \ {0} /\ Wnd \in Nat \ {0}
  BY SenderAssumption DEF SenderOK, Sender
<1>2. s.cwnd \div Unit \in Nat
  BY <1>1
<1> QED  BY <1>1, <1>2, MinOfTwo DEF window

\* send_much() from inside a handler.
LEMMA SendMuchOK ==
    ASSUME NEW c \in Nat, NEW m \in Int, NEW R \in SUBSET (0 .. m),
           NEW s, HandlerOK(s, c, m, R)
    PROVE  HandlerOK(send_much(s), c, m, R) /\ send_much(s).ack = s.ack
<1> DEFINE last == Min({s.ack + window(s), s.curseq - 1})
<1>1. SenderOK(s) /\ SentOK(s, m, R)
  BY DEF HandlerOK
<1>2. s.ack \in Int /\ s.curseq = c /\ s.t_seqno \in Nat /\ s.maxseq \in Int
  BY DEF HandlerOK, SenderOK, Sender
<1>3. last \in Int /\ last <= s.ack + Wnd /\ last < c
  <2>1. window(s) \in 0 .. Wnd /\ Wnd \in Nat
    BY <1>1, WindowType, SenderAssumption
  <2>2. s.ack + window(s) \in Int /\ s.curseq - 1 \in Int
    BY <1>2, <2>1
  <2>3. last = IF s.ack + window(s) <= s.curseq - 1 THEN s.ack + window(s) ELSE s.curseq - 1
    BY <2>2, MinOfTwo
  <2> HIDE DEF last
  <2> QED  BY <1>2, <2>1, <2>3
<1>4. send_much(s) = output(s, last)
  BY DEF send_much
<1> HIDE DEF last
<1>5. CASE last < s.t_seqno
  BY <1>4, <1>5 DEF output
<1>6. CASE s.t_seqno <= last
  <2> DEFINE o == output(s, last)
  <2>1. /\ SenderOK(o) /\ SentOK(o, m, R)
        /\ o.maxseq = IF last > s.maxseq THEN last ELSE s.maxseq
        /\ o.curseq = IF s.maxseq = -1 THEN s.curseq + 1 ELSE s.curseq
        /\ o.ack = s.ack /\ o.cwnd = s.cwnd /\ o.rtx_timer
    BY <1>1, <1>3, <1>6, OutputOK
  <2> HIDE DEF o
  <2>2. HandlerOK(o, c, m, R)
    BY <1>2, <1>3, <2>1 DEF HandlerOK
  <2> QED  BY <1>4, <2>1, <2>2 DEF o
<1> QED  BY <1>2, <1>3, <1>5, <1>6

\* send_one()
LEMMA SendOneOK ==
    ASSUME NEW c \in Nat, NEW m \in Int, NEW R \in SUBSET (0 .. m),
           NEW s, HandlerOK(s, c, m, R)
    PROVE  HandlerOK(send_one(s), c, m, R) /\ send_one(s).ack = s.ack
<1>1. SenderOK(s) /\ SentOK(s, m, R)
  BY DEF HandlerOK
<1>2. s.ack \in Int /\ s.curseq = c /\ s.t_seqno \in Nat /\ s.maxseq \in Int
  BY DEF HandlerOK, SenderOK, Sender
<1>3. CASE s.t_seqno <= s.ack + Wnd /\ s.t_seqno < s.curseq
  <2> DEFINE o == output(s, s.t_seqno)
  <2>0. s.t_seqno \in Int /\ s.t_seqno <= s.t_seqno
    BY <1>2
  <2>1. /\ SenderOK(o) /\ SentOK(o, m, R)
        /\ o.maxseq = IF s.t_seqno > s.maxseq THEN s.t_seqno ELSE s.maxseq
        /\ o.curseq = IF s.maxseq = -1 THEN s.curseq + 1 ELSE s.curseq
        /\ o.ack = s.ack /\ o.cwnd = s.cwnd /\ o.rtx_timer
    BY <1>1, <1>3, <2>0, OutputOK
  <2> HIDE DEF o
  <2>2. HandlerOK(o, c, m, R)
    BY <1>2, <1>3, <2>1 DEF HandlerOK
  <2> QED  BY <2>1, <2>2 DEF o, send_one
<1>4. CASE ~(s.t_seqno <= s.ack + Wnd /\ s.t_seqno < s.curseq)
  BY <1>4 DEF send_one
<1> QED  BY <1>3, <1>4

-----------------------------------------------------------------------------
(* The handlers *)

\* What only touches the congestion window keeps a sender in order.
LEMMA SameNumbersOK ==
    ASSUME NEW c, NEW m, NEW R, NEW s, HandlerOK(s, c, m, R), NEW t, SameNumbers(t, s)
    PROVE  HandlerOK(t, c, m, R) /\ t.ack = s.ack
BY DEF HandlerOK, SenderOK, SentOK, SameNumbers

\* A window cut, and the least threshold.
LEMMA SlowdownOK ==
    ASSUME NEW c, NEW m, NEW R, NEW s, HandlerOK(s, c, m, R), NEW w \in Nat, NEW half
    PROVE  HandlerOK(slowdown(s, w, half), c, m, R) /\ slowdown(s, w, half).ack = s.ack
<1> DEFINE lim == Min({s.cwnd, Wnd * Unit})
           h == Max({2, lim \div (2 * Unit)})
           k == Max({2, s.ssthresh})
           th == IF half THEN h ELSE k
<1>1. s \in Sender /\ s.cwnd \in Nat /\ s.ssthresh \in Nat \ {0}
  BY DEF HandlerOK, SenderOK, Sender
<1>2. lim \in Nat
  <2>1. Wnd * Unit \in Nat
    BY SenderAssumption
  <2> QED  BY <1>1, <2>1, MinOfTwo
<1>3. h \in Nat \ {0}
  <2> HIDE DEF lim
  <2>1. lim \div (2 * Unit) \in Nat
    BY <1>2, SenderAssumption
  <2> QED  BY <2>1, MaxOfTwo
<1>4. k \in Nat \ {0}
  BY <1>1, MaxOfTwo
<1> HIDE DEF h, k
<1>5. th \in Nat \ {0}
  BY <1>3, <1>4
<1>6. slowdown(s, w, half) = [s EXCEPT !.ssthresh = th, !.cwnd = w, !.cong_action = TRUE]
  BY DEF slowdown, h, k
<1> DEFINE t == slowdown(s, w, half)
<1> HIDE DEF th
<1>7. SameNumbers(t, s)
  <2>1. t = [s EXCEPT !.ssthresh = th, !.cwnd = w, !.cong_action = TRUE]
    BY <1>6
  <2> HIDE DEF t
  <2>2. t \in Sender
    BY <1>1, <1>5, <2>1 DEF Sender
  <2> QED  BY <1>1, <2>1, <2>2 DEF SameNumbers, Sender
<1> HIDE DEF t
<1> QED  BY <1>7, SameNumbersOK DEF t

\* opencwnd(): the window stays a number, also where it divides by itself.
LEMMA OpencwndOK ==
    ASSUME NEW c, NEW m, NEW R, NEW s, HandlerOK(s, c, m, R)
    PROVE  HandlerOK(opencwnd(s), c, m, R) /\ opencwnd(s).ack = s.ack
<1> DEFINE inc == Max({1, (Unit * Unit) \div s.cwnd})
           w == IF s.cwnd < s.ssthresh * Unit THEN s.cwnd + Unit ELSE s.cwnd + inc
<1>1. s \in Sender /\ s.cwnd \in Nat /\ s.ssthresh \in Nat \ {0} /\ Unit \in Nat \ {0}
  BY SenderAssumption DEF HandlerOK, SenderOK, Sender
<1>2. w \in Nat
  <2>1. CASE s.cwnd < s.ssthresh * Unit
    BY <1>1, <2>1
  <2>2. CASE ~(s.cwnd < s.ssthresh * Unit)
    <3>1. Unit * s.ssthresh >= Unit * 1 /\ Unit * s.ssthresh \in Nat
      BY <1>1, Times2
    <3>2. s.ssthresh * Unit = Unit * s.ssthresh
      BY <1>1
    <3>3. s.cwnd > 0 /\ Unit * Unit \in Nat
      BY <1>1, <2>2, <3>1, <3>2, Times2
    <3>4. (Unit * Unit) \div s.cwnd \in Nat
      BY <1>1, <3>3
    <3>5. inc \in Nat
      BY <3>4, MaxOfTwo
    <3> HIDE DEF inc
    <3> QED  BY <1>1, <2>2, <3>5
  <2> QED  BY <2>1, <2>2
<1> DEFINE t == opencwnd(s)
<1>3. t = [s EXCEPT !.cwnd = w]
  BY DEF opencwnd
<1> HIDE DEF w, t
<1>4. SameNumbers(t, s)
  BY <1>1, <1>2, <1>3 DEF Sender, SameNumbers
<1> QED  BY <1>4, SameNumbersOK DEF t

\* The types of the fields the sequence numbers do not depend on.
LEMMA NotesTypes ==
    ASSUME NEW c, NEW m, NEW R, NEW s, HandlerOK(s, c, m, R)
    PROVE  /\ s \in Sender
           /\ s.recover \in Int /\ s.last_cwnd_action \in {"none", "ecn", "dupack", "timeout"}
           /\ s.dupacks \in Nat /\ s.cwnd \in Nat /\ s.wnd_init \in {1, 2}
           /\ s.ect \in BOOLEAN /\ s.closed \in BOOLEAN
           /\ s.maxseq \in Int /\ s.ack \in Int /\ s.ssthresh \in Nat \ {0}
BY DEF HandlerOK, SenderOK, Sender

\* ecn()
LEMMA EcnOK ==
    ASSUME NEW c, NEW m, NEW R, NEW s, HandlerOK(s, c, m, R), NEW seqno
    PROVE  HandlerOK(ecn(s, seqno), c, m, R) /\ ecn(s, seqno).ack = s.ack
<1> DEFINE b == [s EXCEPT !.recover = s.maxseq, !.last_cwnd_action = "ecn"]
           w == Min({s.cwnd, Wnd * Unit}) \div 2
<1>1. w \in Nat
  <2>1. s.cwnd \in Nat /\ Wnd * Unit \in Nat
    BY NotesTypes, SenderAssumption
  <2>2. Min({s.cwnd, Wnd * Unit}) \in Nat
    BY <2>1, MinOfTwo
  <2> QED  BY <2>2
<1>2. HandlerOK(b, c, m, R) /\ b.ack = s.ack
  <2>0. s \in Sender /\ s.maxseq \in Int
    BY NotesTypes
  <2>1. b \in Sender
    BY <2>0 DEF Sender
  <2>2. SameNumbers(b, s)
    BY <2>0, <2>1 DEF Sender, SameNumbers
  <2> HIDE DEF b
  <2> QED  BY <2>2, SameNumbersOK
<1> HIDE DEF b, w
<1> DEFINE half == TRUE
<1> HIDE DEF half
<1>3. HandlerOK(slowdown(b, w, half), c, m, R) /\ slowdown(b, w, half).ack = b.ack
  BY <1>1, <1>2, SlowdownOK
<1> QED  BY <1>2, <1>3 DEF ecn, b, w, half

\* reset_rtx_timer(): the measurement ends before the packets go out again.
LEMMA ResetOK ==
    ASSUME NEW c, NEW m, NEW R, NEW s, HandlerOK(s, c, m, R)
    PROVE  HandlerOK(reset_rtx_timer(s), c, m, R) /\ reset_rtx_timer(s).ack = s.ack
<1> DEFINE t == reset_rtx_timer(s)
<1>1. s \in Sender /\ s.ack \in Int /\ -1 <= s.ack /\ s.t_seqno \in Nat /\ s.maxseq \in Int
  BY DEF HandlerOK, SenderOK, Sender
<1>2. s.ack + 1 \in Nat /\ s.ack + 1 <= s.maxseq + 1 /\ s.ack < s.ack + 1
  BY <1>1 DEF HandlerOK, SenderOK
<1>3. /\ t \in Sender /\ t.ack = s.ack /\ t.t_seqno = s.ack + 1 /\ t.maxseq = s.maxseq
      /\ t.curseq = s.curseq /\ t.rtt_seq = s.rtt_seq /\ t.rtt_active = FALSE
      /\ t.rtx_timer = TRUE /\ t.out = s.out
  BY <1>1, <1>2 DEF Sender, reset_rtx_timer
<1> HIDE DEF t
<1>4. HandlerOK(t, c, m, R)
  BY <1>2, <1>3 DEF HandlerOK, SenderOK, SentOK
<1> QED  BY <1>3, <1>4 DEF t

\* dupack_action()
LEMMA DupackActionOK ==
    ASSUME NEW c, NEW m, NEW R, NEW s, HandlerOK(s, c, m, R)
    PROVE  HandlerOK(dupack_action(s), c, m, R) /\ dupack_action(s).ack = s.ack
<1>1. ASSUME NEW rec \in Int, NEW half
      PROVE  LET b == [s EXCEPT !.recover = rec, !.last_cwnd_action = "dupack"]
                 t == reset_rtx_timer(slowdown(b, Unit, half))
             IN  HandlerOK(t, c, m, R) /\ t.ack = s.ack
  <2> DEFINE b == [s EXCEPT !.recover = rec, !.last_cwnd_action = "dupack"]
             u == slowdown(b, Unit, half)
  <2>0. s \in Sender
    BY NotesTypes
  <2>1. b \in Sender
    BY <2>0 DEF Sender
  <2>2. HandlerOK(b, c, m, R) /\ b.ack = s.ack
    <3>1. SameNumbers(b, s)
      BY <2>0, <2>1 DEF Sender, SameNumbers
    <3> HIDE DEF b
    <3> QED  BY <3>1, SameNumbersOK
  <2> HIDE DEF b
  <2>3. HandlerOK(u, c, m, R) /\ u.ack = s.ack
    BY <2>2, SlowdownOK, SenderAssumption
  <2> HIDE DEF u
  <2>4. HandlerOK(reset_rtx_timer(u), c, m, R) /\ reset_rtx_timer(u).ack = s.ack
    BY <2>3, ResetOK
  <2> QED  BY <2>4 DEF u, b
<1>2. CASE s.ack > s.recover \/ s.ack = 0
  <2>1. s.maxseq \in Int
    BY NotesTypes
  <2> QED  BY <1>1, <1>2, <2>1 DEF dupack_action
<1>3. CASE ~(s.ack > s.recover \/ s.ack = 0) /\ s.ecn /\ s.last_cwnd_action = "ecn"
  <2>1. [s EXCEPT !.last_cwnd_action = "dupack"]
          = [s EXCEPT !.recover = s.recover, !.last_cwnd_action = "dupack"] /\ s.recover \in Int
    BY NotesTypes DEF Sender
  <2> QED  BY <1>1, <1>3, <2>1 DEF dupack_action
<1>4. CASE ~(s.ack > s.recover \/ s.ack = 0) /\ ~(s.ecn /\ s.last_cwnd_action = "ecn")
  BY <1>4 DEF dupack_action
<1> QED  BY <1>2, <1>3, <1>4

\* newack(): a packet that has been sent is acknowledged; the timer stays set.
LEMMA NewackOK ==
    ASSUME NEW c, NEW m, NEW R, NEW s, HandlerOK(s, c, m, R),
           NEW q \in Int, s.ack < q, q <= s.maxseq
    PROVE  HandlerOK(newack(s, q), c, m, R) /\ newack(s, q).ack = q
<1> DEFINE act == s.rtt_active /\ q < s.rtt_seq
           seqno == Max({s.t_seqno, q + 1})
           b == [s EXCEPT !.dupacks = 0, !.ack = q, !.t_seqno = seqno, !.rtt_active = act]
           tm == b.t_seqno > q \/ q < b.maxseq \/ b.cwnd < Unit
           t == newack(s, q)
<1>1. s \in Sender /\ s.ack \in Int /\ -1 <= s.ack /\ s.t_seqno \in Nat /\ s.maxseq \in Int
      /\ s.rtt_seq \in Int /\ Wnd \in Nat
  BY SenderAssumption DEF HandlerOK, SenderOK, Sender
<1>2. act \in BOOLEAN /\ (act => s.rtt_active /\ q < s.rtt_seq)
  OBVIOUS
<1>3. seqno \in Nat /\ q < seqno /\ s.t_seqno <= seqno /\ seqno <= s.maxseq + 1
  <2>1. q + 1 \in Nat /\ q + 1 <= s.maxseq + 1 /\ q < q + 1
    BY <1>1
  <2>2. seqno = IF s.t_seqno >= q + 1 THEN s.t_seqno ELSE q + 1
    BY <1>1, <2>1, MaxOfTwo
  <2> HIDE DEF seqno
  <2> QED  BY <1>1, <2>1, <2>2 DEF HandlerOK, SenderOK
<1>4. t = [b EXCEPT !.rtx_timer = tm]
  BY DEF newack, newtimer
<1> HIDE DEF act, seqno, t
<1>5. /\ b \in Sender /\ b.ack = q /\ b.t_seqno = seqno /\ b.maxseq = s.maxseq
      /\ b.curseq = s.curseq /\ b.rtt_seq = s.rtt_seq /\ b.rtt_active = act /\ b.out = s.out
  BY <1>1, <1>2, <1>3 DEF Sender
<1> HIDE DEF b
<1>6. tm = TRUE
  BY <1>3, <1>5
<1> HIDE DEF tm
<1>7. /\ t \in Sender /\ t.ack = q /\ t.t_seqno = seqno /\ t.maxseq = s.maxseq
      /\ t.curseq = s.curseq /\ t.rtt_seq = s.rtt_seq /\ t.rtt_active = act /\ t.out = s.out
      /\ t.rtx_timer = TRUE
  BY <1>4, <1>5, <1>6 DEF Sender
<1>8. s.maxseq <= q + Wnd /\ -1 <= q /\ s.rtt_seq <= s.maxseq
  BY <1>1 DEF HandlerOK, SenderOK
<1>9. act => q < s.rtt_seq /\ s.rtt_seq < seqno
  BY <1>1, <1>2, <1>3 DEF HandlerOK, SenderOK
<1>10. SenderOK(t)
  BY <1>3, <1>7, <1>8, <1>9 DEF SenderOK
<1>11. SentOK(t, m, R)
  BY <1>2, <1>7 DEF HandlerOK, SentOK
<1>12. HandlerOK(t, c, m, R)
  BY <1>7, <1>10, <1>11 DEF HandlerOK
<1> QED  BY <1>7, <1>12 DEF t

\* recv_newack_helper()
LEMMA HelperOK ==
    ASSUME NEW c, NEW m, NEW R, NEW s, HandlerOK(s, c, m, R),
           NEW a \in Ack, s.ack < a.seq, a.seq <= s.maxseq
    PROVE  HandlerOK(recv_newack_helper(s, a), c, m, R) /\ recv_newack_helper(s, a).ack = a.seq
<1> DEFINE n == newack(s, a.seq)
           o == IF s.ect /\ a.ecnecho THEN n ELSE opencwnd(n)
           e == o.ect \/ a.ecnecho
           f == o.closed \/ s.curseq - 1 <= a.seq
           t == recv_newack_helper(s, a)
<1>1. HandlerOK(n, c, m, R) /\ n.ack = a.seq
  BY NewackOK DEF Ack
<1>2. HandlerOK(opencwnd(n), c, m, R) /\ opencwnd(n).ack = n.ack
  <2> HIDE DEF n
  <2> QED  BY <1>1, OpencwndOK
<1> HIDE DEF n
<1>3. HandlerOK(o, c, m, R) /\ o.ack = a.seq
  BY <1>1, <1>2
<1>4. t = [o EXCEPT !.ect = e, !.closed = f]
  BY DEF recv_newack_helper, n
<1>5. e \in BOOLEAN /\ f \in BOOLEAN
  OBVIOUS
<1> HIDE DEF o, e, f, t
<1>6. o \in Sender
  BY <1>3, NotesTypes
<1>7. t \in Sender
  BY <1>4, <1>5, <1>6 DEF Sender
<1>8. SameNumbers(t, o)
  BY <1>4, <1>6, <1>7 DEF Sender, SameNumbers
<1> QED  BY <1>3, <1>8, SameNumbersOK DEF t

\* recv(): an ACK for a packet that has been sent.
LEMMA RecvOK ==
    ASSUME NEW c \in Nat, NEW m \in Int, NEW R \in SUBSET (0 .. m),
           NEW s0, HandlerOK(s0, c, m, R), NEW a \in Ack, a.seq <= m
    PROVE  LET t == recv(s0, a)
           IN  HandlerOK(t, c, m, R) /\ (t.ack = s0.ack \/ t.ack = a.seq)
<1> DEFINE s == IF a.ecnecho /\ s0.ecn THEN ecn(s0, a.seq) ELSE s0
           n == recv_newack_helper(s, a)
           k == s.dupacks + 1
           d == [s EXCEPT !.dupacks = k]
           t == recv(s0, a)
<1>1. HandlerOK(s, c, m, R) /\ s.ack = s0.ack
  BY EcnOK
<1>2. /\ t = CASE a.seq > s.ack /\ a.seq = 0 -> [n EXCEPT !.cwnd = n.wnd_init * Unit]
               [] a.seq > s.ack /\ a.seq # 0 -> n
               [] a.seq = s.ack /\ d.dupacks = numdupacks -> dupack_action(d)
               [] a.seq = s.ack /\ d.dupacks < numdupacks -> send_one(d)
               [] a.seq = s.ack /\ d.dupacks > numdupacks -> d
               [] a.seq < s.ack -> s
  BY DEF recv
<1> HIDE DEF s, t
<1>3. s \in Sender /\ s.ack \in Int /\ s.maxseq \in Int /\ m <= s.maxseq /\ s.dupacks \in Nat
  BY <1>1, NotesTypes DEF HandlerOK, SentOK
<1>4. a.seq \in Int /\ numdupacks \in Nat
  BY SenderAssumption DEF Ack
<1>5. CASE a.seq > s.ack
  <2>1. HandlerOK(n, c, m, R) /\ n.ack = a.seq
    BY <1>1, <1>3, <1>4, <1>5, HelperOK
  <2> HIDE DEF n
  <2>2. CASE a.seq = 0
    <3> DEFINE v == [n EXCEPT !.cwnd = n.wnd_init * Unit]
    <3>1. n \in Sender /\ n.wnd_init \in {1, 2}
      BY <2>1, NotesTypes
    <3>2. n.wnd_init * Unit \in Nat
      BY <3>1, SenderAssumption
    <3>3. v \in Sender
      BY <3>1, <3>2 DEF Sender
    <3>4. SameNumbers(v, n)
      BY <3>1, <3>3 DEF Sender, SameNumbers
    <3> HIDE DEF v
    <3>5. HandlerOK(v, c, m, R) /\ v.ack = n.ack
      BY <2>1, <3>4, SameNumbersOK
    <3>6. t = v
      BY <1>2, <1>3, <1>4, <1>5, <2>2 DEF v
    <3> QED  BY <2>1, <3>5, <3>6 DEF t
  <2>3. CASE a.seq # 0
    <3>1. t = n
      BY <1>2, <1>3, <1>4, <1>5, <2>3
    <3> QED  BY <2>1, <3>1 DEF t
  <2> QED  BY <2>2, <2>3
<1>6. CASE a.seq = s.ack
  <2>1. HandlerOK(d, c, m, R) /\ d.ack = s.ack
    <3>0. k \in Nat
      BY <1>3
    <3> HIDE DEF k
    <3>1. d \in Sender
      BY <1>3, <3>0 DEF Sender
    <3>2. SameNumbers(d, s)
      BY <1>3, <3>1 DEF Sender, SameNumbers
    <3> HIDE DEF d
    <3> QED  BY <1>1, <3>2, SameNumbersOK
  <2>2. d.dupacks \in Nat
    BY <2>1, NotesTypes
  <2> HIDE DEF d
  <2>3. CASE d.dupacks = numdupacks
    <3>1. t = dupack_action(d)
      BY <1>2, <1>3, <1>4, <1>6, <2>2, <2>3
    <3> QED  BY <1>1, <2>1, <3>1, DupackActionOK DEF t
  <2>4. CASE d.dupacks < numdupacks
    <3>1. t = send_one(d)
      BY <1>2, <1>3, <1>4, <1>6, <2>2, <2>4
    <3> QED  BY <1>1, <2>1, <3>1, SendOneOK DEF t
  <2>5. CASE d.dupacks > numdupacks
    <3>1. t = d
      BY <1>2, <1>3, <1>4, <1>6, <2>2, <2>5
    <3> QED  BY <1>1, <2>1, <3>1 DEF t
  <2> QED  BY <1>4, <2>2, <2>3, <2>4, <2>5
<1>7. CASE a.seq < s.ack
  <2>1. t = s
    BY <1>2, <1>3, <1>4, <1>7
  <2> QED  BY <1>1, <2>1 DEF t
<1> QED  BY <1>3, <1>4, <1>5, <1>6, <1>7

\* timeout()
LEMMA TimeoutOK ==
    ASSUME NEW c, NEW m, NEW R, NEW s0, HandlerOK(s0, c, m, R)
    PROVE  HandlerOK(timeout(s0), c, m, R) /\ timeout(s0).ack = s0.ack
<1> DEFINE w == Max({s0.cwnd, Unit})
           i == IF s0.ack = -1 THEN 1 ELSE s0.wnd_init
           b == [s0 EXCEPT !.cwnd = w, !.recover = s0.maxseq, !.wnd_init = i]
           half == ~(s0.ack < s0.maxseq /\ s0.last_cwnd_action = "ecn")
           no == FALSE
           s == IF s0.ack = s0.maxseq THEN slowdown(b, Unit, no) ELSE slowdown(b, Unit, half)
           e == [s EXCEPT !.last_cwnd_action = "timeout"]
<1>1. s0 \in Sender /\ s0.cwnd \in Nat /\ s0.maxseq \in Int /\ s0.wnd_init \in {1, 2} /\ Unit \in Nat
  BY NotesTypes, SenderAssumption
<1>2. w \in Nat
  BY <1>1, MaxOfTwo
<1>3. i \in {1, 2}
  BY <1>1
<1>4. timeout(s0) = reset_rtx_timer(e)
  BY DEF timeout
<1> HIDE DEF w, i, half, no
<1>5. HandlerOK(b, c, m, R) /\ b.ack = s0.ack
  <2>1. b \in Sender
    BY <1>1, <1>2, <1>3 DEF Sender
  <2>2. SameNumbers(b, s0)
    BY <1>1, <2>1 DEF Sender, SameNumbers
  <2> HIDE DEF b
  <2> QED  BY <2>2, SameNumbersOK
<1> HIDE DEF b
<1>6. HandlerOK(s, c, m, R) /\ s.ack = s0.ack
  <2>1. ASSUME NEW h PROVE HandlerOK(slowdown(b, Unit, h), c, m, R) /\ slowdown(b, Unit, h).ack = s0.ack
    BY <1>1, <1>5, SlowdownOK
  <2> QED  BY <2>1
<1> HIDE DEF s
<1>7. HandlerOK(e, c, m, R) /\ e.ack = s0.ack
  <2>1. s \in Sender
    BY <1>6, NotesTypes
  <2>2. e \in Sender
    BY <2>1 DEF Sender
  <2>3. SameNumbers(e, s)
    BY <2>1, <2>2 DEF Sender, SameNumbers
  <2> HIDE DEF e
  <2> QED  BY <1>6, <2>3, SameNumbersOK
<1> HIDE DEF e
<1>8. HandlerOK(reset_rtx_timer(e), c, m, R) /\ reset_rtx_timer(e).ack = s0.ack
  BY <1>7, ResetOK
<1> QED  BY <1>4, <1>8

-----------------------------------------------------------------------------
(* The steps of the sender *)

\* The empty sequence has no members.
LEMMA NothingOut == Range(<<>>) = {} /\ \A S : <<>> \in Seq(S)
BY DEF Range

\* What a handler sent enters the network.
LEMMA Departs ==
    ASSUME TcpInv, NEW s, SenderOK(s), SentOK(s, snd.maxseq, resent),
           snd' = [s EXCEPT !.out = <<>>], data' = data \o s.out,
           resent' = resent \cup {p.seq : p \in {o \in Range(s.out) : o.seq <= snd.maxseq}}
    PROVE  /\ SenderInv'
           /\ data' \in Seq(PacketsTo(snd'.maxseq))
           /\ snd'.ack = s.ack /\ snd'.maxseq = s.maxseq /\ snd'.curseq = s.curseq
           /\ snd'.rtx_timer = s.rtx_timer /\ snd.maxseq <= snd'.maxseq
<1>1. s \in Sender /\ s.maxseq \in Int /\ snd.maxseq \in Int
  BY DEF SenderOK, Sender, TcpInv, SenderInv
<1>2. snd' \in Sender
  <2>1. <<>> \in Seq(Packet)
    BY NothingOut
  <2> QED  BY <1>1, <2>1 DEF Sender
<1>3. /\ snd'.ack = s.ack /\ snd'.t_seqno = s.t_seqno /\ snd'.maxseq = s.maxseq
      /\ snd'.curseq = s.curseq /\ snd'.rtt_seq = s.rtt_seq /\ snd'.rtt_active = s.rtt_active
      /\ snd'.rtx_timer = s.rtx_timer /\ snd'.out = <<>>
  BY <1>1 DEF Sender
<1>4. SenderOK(snd')
  BY <1>2, <1>3 DEF SenderOK
<1>5. snd.maxseq <= s.maxseq /\ s.out \in Seq(PacketsTo(s.maxseq))
  BY DEF SentOK
<1>6. data' \in Seq(PacketsTo(snd'.maxseq))
  <2>1. PacketsTo(snd.maxseq) \subseteq PacketsTo(s.maxseq)
    BY <1>1, <1>5 DEF PacketsTo, Packet
  <2>2. data \in Seq(PacketsTo(s.maxseq))
    BY <2>1, SeqMonotonic DEF TcpInv, NetworkInv
  <2> QED  BY <1>3, <1>5, <2>2, ConcatProperties
<1>7. ASSUME NEW o \in Range(s.out) PROVE o.seq \in Nat /\ o.seq <= s.maxseq
  <2>1. o \in PacketsTo(s.maxseq)
    BY <1>5, ElementOfSeq, LenProperties DEF Range
  <2> QED  BY <2>1 DEF PacketsTo, Packet
<1>8. resent' \subseteq 0 .. snd'.maxseq
  <2>1. resent \subseteq 0 .. s.maxseq
    BY <1>1, <1>5 DEF TcpInv, SenderInv
  <2> QED  BY <1>1, <1>3, <1>7, <2>1
<1>9. snd'.rtt_active => snd'.rtt_seq \notin resent'
  BY <1>3 DEF SentOK
<1> QED  BY <1>3, <1>4, <1>5, <1>6, <1>8, <1>9 DEF SenderInv

\* A sender that has begun is fit for a handler.
LEMMA Begun ==
    ASSUME TcpInv, snd.maxseq >= 0
    PROVE  /\ HandlerOK(snd, snd.curseq, snd.maxseq, resent)
           /\ given > 0 /\ snd.rtx_timer
<1>1. snd \in Sender /\ snd.maxseq \in Int
  BY DEF TcpInv, SenderInv, SenderOK, Sender
<1>2. given > 0 /\ snd.rtx_timer
  BY <1>1 DEF TcpInv, StartOK
<1>3. SentOK(snd, snd.maxseq, resent)
  BY <1>1, NothingOut DEF TcpInv, SenderInv, SentOK
<1> QED  BY <1>2, <1>3 DEF HandlerOK, TcpInv, SenderInv

\* Types that the steps need.
LEMMA TcpTypes ==
    ASSUME TcpInv
    PROVE  /\ snd \in Sender /\ snd.maxseq \in Int /\ snd.ack \in Int /\ snd.curseq \in Nat
           /\ snd.t_seqno \in Nat /\ -1 <= snd.maxseq
           /\ rcv.next \in Nat /\ rcv.next <= snd.maxseq + 1 /\ given \in Nat /\ MaxSeq \in Nat
           /\ resent \in SUBSET (0 .. snd.maxseq)
<1>1. snd \in Sender /\ snd.maxseq \in Int /\ snd.ack \in Int /\ snd.curseq \in Nat /\ snd.t_seqno \in Nat
  BY DEF TcpInv, SenderInv, SenderOK, Sender
<1>2. -1 <= snd.maxseq /\ resent \in SUBSET (0 .. snd.maxseq)
  BY <1>1 DEF TcpInv, SenderInv, SenderOK
<1>3. rcv.next \in Nat
  BY DEF TcpInv, SinkInv, RingOK, Sink
<1>4. rcv.next <= snd.maxseq + 1
  <2>1. 0 .. rcv.next - 1 \subseteq 0 .. snd.maxseq
    BY DEF TcpInv, SinkInv, RingOK
  <2>2. rcv.next # 0 => rcv.next - 1 \in 0 .. rcv.next - 1
    BY <1>3
  <2> QED  BY <1>1, <1>2, <1>3, <2>1, <2>2
<1>5. given \in Nat /\ MaxSeq \in Nat
  BY BoundAssumption DEF TcpInv, GivenInv
<1> QED  BY <1>1, <1>2, <1>3, <1>4, <1>5

\* A step of a handler that leaves t and goes on with send_much().
LEMMA HandlerStep ==
    ASSUME TcpInv, snd.maxseq >= 0, NEW c \in Nat, NEW t,
           HandlerOK(t, c, snd.maxseq, resent), Sends(t)
    PROVE  /\ SenderInv'
           /\ data' \in Seq(PacketsTo(snd'.maxseq))
           /\ snd'.ack = t.ack /\ snd'.curseq = c /\ snd'.rtx_timer
           /\ snd'.maxseq \in Nat /\ snd.maxseq <= snd'.maxseq
           /\ snd'.maxseq = snd.maxseq \/ snd'.maxseq < c
<1> DEFINE s == send_much(t)
<1>1. HandlerOK(s, c, snd.maxseq, resent) /\ s.ack = t.ack
  BY TcpTypes, SendMuchOK
<1>2. /\ snd' = [s EXCEPT !.out = <<>>] /\ data' = data \o s.out
      /\ resent' = resent \cup {p.seq : p \in {o \in Range(s.out) : o.seq <= snd.maxseq}}
  BY DEF Sends
<1> HIDE DEF s
<1>3. SenderOK(s) /\ SentOK(s, snd.maxseq, resent)
  BY <1>1 DEF HandlerOK
<1>4. /\ SenderInv'
      /\ data' \in Seq(PacketsTo(snd'.maxseq))
      /\ snd'.ack = s.ack /\ snd'.maxseq = s.maxseq /\ snd'.curseq = s.curseq
      /\ snd'.rtx_timer = s.rtx_timer /\ snd.maxseq <= snd'.maxseq
  BY <1>2, <1>3, Departs
<1>5. s.maxseq >= 0 /\ s.rtx_timer /\ s.curseq = c /\ (s.maxseq = snd.maxseq \/ s.maxseq < c)
      /\ s.maxseq \in Int
  BY <1>1, NotesTypes DEF HandlerOK
<1> QED  BY <1>1, <1>4, <1>5

\* The first data is handed over: the SYN goes out.
LEMMA FirstSend ==
    ASSUME TcpInv, snd.maxseq = -1, NEW n \in Nat \ {0}, Sends(sendmsg(snd, n))
    PROVE  /\ SenderInv'
           /\ data' \in Seq(PacketsTo(snd'.maxseq))
           /\ snd'.ack = snd.ack /\ snd'.curseq = n + 1 /\ snd'.rtx_timer
           /\ snd'.maxseq = 0
<1> DEFINE t == sendmsg(snd, n)
           s == send_much(t)
<1>1. snd \in Sender /\ snd.curseq = 0 /\ snd.cwnd = Unit /\ Unit \in Nat \ {0} /\ Wnd \in Nat \ {0}
  BY TcpTypes, SenderAssumption DEF TcpInv, StartOK
<1>2. snd.ack = -1 /\ snd.t_seqno = 0
  BY TcpTypes DEF TcpInv, SenderInv, SenderOK
<1>3. /\ t \in Sender /\ t.curseq = n
      /\ t.ack = snd.ack /\ t.t_seqno = snd.t_seqno /\ t.maxseq = snd.maxseq
      /\ t.rtt_seq = snd.rtt_seq /\ t.rtt_active = snd.rtt_active /\ t.cwnd = snd.cwnd
      /\ t.out = snd.out
  <2>1. t = [snd EXCEPT !.curseq = n]
    BY <1>1 DEF sendmsg
  <2> HIDE DEF t
  <2>2. t \in Sender /\ t.curseq = n
    BY <1>1, <2>1 DEF Sender
  <2>3. /\ t.ack = snd.ack /\ t.t_seqno = snd.t_seqno /\ t.maxseq = snd.maxseq
        /\ t.rtt_seq = snd.rtt_seq /\ t.rtt_active = snd.rtt_active /\ t.cwnd = snd.cwnd
        /\ t.out = snd.out
    BY <1>1, <2>1 DEF Sender
  <2> QED  BY <2>2, <2>3
<1> HIDE DEF t
<1>4. SenderOK(t)
  BY <1>3 DEF SenderOK, TcpInv, SenderInv
<1>5. SentOK(t, -1, resent)
  BY <1>3, NothingOut DEF SentOK, TcpInv, SenderInv
<1>6. window(t) = 1
  <2>1. t.cwnd \div Unit = 1
    BY <1>1, <1>3
  <2> QED  BY <1>1, <2>1, MinOfTwo DEF window
<1>7. Min({t.ack + window(t), t.curseq - 1}) = 0
  <2>1. t.ack + window(t) = 0 /\ t.curseq - 1 = n - 1 /\ 0 \in Int /\ n - 1 \in Int /\ 0 <= n - 1
    BY <1>2, <1>3, <1>6
  <2>2. Min({0, n - 1}) = 0
    BY <2>1, MinOfTwo
  <2> QED  BY <2>1, <2>2
<1>8. s = output(t, 0)
  BY <1>7 DEF send_much
<1>9. resent \in SUBSET (0 .. -1)
  BY TcpTypes
<1>10. 0 \in Int /\ t.t_seqno <= 0 /\ 0 <= t.ack + Wnd /\ -1 \in Int
  BY <1>1, <1>2, <1>3
<1>11. /\ SenderOK(s) /\ SentOK(s, -1, resent)
       /\ s.maxseq = IF 0 > t.maxseq THEN 0 ELSE t.maxseq
       /\ s.curseq = IF t.maxseq = -1 THEN t.curseq + 1 ELSE t.curseq
       /\ s.ack = t.ack /\ s.cwnd = t.cwnd /\ s.rtx_timer
  <2> HIDE DEF s
  <2> DEFINE m == -1
  <2>1. m \in Int /\ resent \in SUBSET (0 .. m) /\ SentOK(t, m, resent)
    BY <1>5, <1>9
  <2> HIDE DEF m
  <2>2. LET o == output(t, 0)
        IN  /\ SenderOK(o) /\ SentOK(o, m, resent)
            /\ o.maxseq = IF 0 > t.maxseq THEN 0 ELSE t.maxseq
            /\ o.curseq = IF t.maxseq = -1 THEN t.curseq + 1 ELSE t.curseq
            /\ o.ack = t.ack /\ o.cwnd = t.cwnd /\ o.rtx_timer
    BY <1>4, <1>10, <2>1, OutputOK
  <2> QED  BY <1>8, <2>2 DEF m
<1>12. /\ snd' = [s EXCEPT !.out = <<>>] /\ data' = data \o s.out
       /\ resent' = resent \cup {p.seq : p \in {o \in Range(s.out) : o.seq <= snd.maxseq}}
  BY DEF Sends, t
<1> HIDE DEF s
<1>13. SentOK(s, snd.maxseq, resent)
  BY <1>11
<1>14. /\ SenderInv'
       /\ data' \in Seq(PacketsTo(snd'.maxseq))
       /\ snd'.ack = s.ack /\ snd'.maxseq = s.maxseq /\ snd'.curseq = s.curseq
       /\ snd'.rtx_timer = s.rtx_timer /\ snd.maxseq <= snd'.maxseq
  BY <1>11, <1>12, <1>13, Departs
<1> QED  BY <1>3, <1>11, <1>14

\* A step of the sender that leaves the sink alone.
LEMMA SenderStep ==
    ASSUME TcpInv, SenderInv', GivenInv', data' \in Seq(PacketsTo(snd'.maxseq)),
           snd'.maxseq \in Nat, given' > 0, snd'.rtx_timer, snd.maxseq <= snd'.maxseq,
           acks' \in Seq(AcksBelow(rcv.next)), snd'.ack < rcv.next, UNCHANGED <<rcv, got>>
    PROVE  TcpInv'
<1>1. StartOK' /\ NetworkInv'
  BY DEF StartOK, NetworkInv
<1>2. got \subseteq 0 .. snd'.maxseq
  BY TcpTypes DEF TcpInv, SinkInv
<1>3. RingOK(rcv', got')
  BY DEF TcpInv, SinkInv
<1> QED  BY <1>1, <1>2, <1>3 DEF TcpInv, SinkInv

\* Send
LEMMA SendStep ==
    ASSUME TcpInv, NEW n \in Writes, Send(n)
    PROVE  TcpInv'
<1>1. n \in Nat \ {0}
  BY BoundAssumption
<1>2. /\ ~stopped /\ stopped' = stopped /\ given + n <= MaxSeq /\ given' = given + n
      /\ Sends(sendmsg(snd, n)) /\ UNCHANGED <<rcv, acks, got>>
  BY DEF Send
<1>3. acks' \in Seq(AcksBelow(rcv.next)) /\ snd.ack < rcv.next
  BY <1>2 DEF TcpInv, NetworkInv, SinkInv
<1>4. given' \in 0 .. MaxSeq /\ given' > 0
  BY <1>1, <1>2, TcpTypes
<1>5. CASE snd.maxseq = -1
  <2>1. /\ SenderInv'
        /\ data' \in Seq(PacketsTo(snd'.maxseq))
        /\ snd'.ack = snd.ack /\ snd'.curseq = n + 1 /\ snd'.rtx_timer
        /\ snd'.maxseq = 0
    BY <1>1, <1>2, <1>5, FirstSend
  <2>2. given = 0
    BY <1>5 DEF TcpInv, StartOK
  <2>3. GivenInv'
    BY <1>1, <1>2, <1>4, <2>1, <2>2 DEF GivenInv
  <2>4. snd'.maxseq \in Nat /\ snd.maxseq <= snd'.maxseq /\ snd'.ack < rcv.next
    BY <1>3, <1>5, <2>1
  <2> QED  BY <1>2, <1>3, <1>4, <2>1, <2>3, <2>4, SenderStep
<1>6. CASE snd.maxseq >= 0
  <2> DEFINE c == snd.curseq + n
             t == sendmsg(snd, n)
  <2>1. HandlerOK(t, c, snd.maxseq, resent) /\ t.ack = snd.ack
    <3>1. HandlerOK(snd, snd.curseq, snd.maxseq, resent) /\ snd \in Sender /\ c \in Nat
      BY <1>1, <1>6, Begun, TcpTypes
    <3>2. t = [snd EXCEPT !.curseq = c]
      BY DEF sendmsg
    <3> HIDE DEF t, c
    <3>3. t \in Sender
      BY <3>1, <3>2 DEF Sender
    <3>4. /\ t.ack = snd.ack /\ t.t_seqno = snd.t_seqno /\ t.maxseq = snd.maxseq /\ t.curseq = c
          /\ t.rtt_seq = snd.rtt_seq /\ t.rtt_active = snd.rtt_active /\ t.rtx_timer = snd.rtx_timer
          /\ t.out = snd.out
      BY <3>1, <3>2 DEF Sender
    <3> QED  BY <3>1, <3>3, <3>4 DEF HandlerOK, SenderOK, SentOK
  <2>2. c \in Nat /\ c <= given' + 1
    BY <1>1, <1>2, TcpTypes DEF TcpInv, GivenInv
  <2>3. snd.maxseq < c /\ snd.maxseq <= given'
    BY <1>1, <1>2, TcpTypes DEF TcpInv, GivenInv
  <2>4. Sends(t)
    BY <1>2
  <2> HIDE DEF c, t
  <2>5. /\ SenderInv'
        /\ data' \in Seq(PacketsTo(snd'.maxseq))
        /\ snd'.ack = t.ack /\ snd'.curseq = c /\ snd'.rtx_timer
        /\ snd'.maxseq \in Nat /\ snd.maxseq <= snd'.maxseq
        /\ snd'.maxseq = snd.maxseq \/ snd'.maxseq < c
    BY <1>6, <2>1, <2>2, <2>4, HandlerStep
  <2>6. GivenInv'
    <3>1. given' \in Nat /\ snd.maxseq \in Int
      BY <1>4, TcpTypes
    <3>2. snd'.maxseq \in Nat /\ snd'.curseq = c /\ (snd'.maxseq = snd.maxseq \/ snd'.maxseq < c)
      BY <2>5
    <3>3. snd'.maxseq < c
      BY <2>3, <3>2
    <3>4. snd'.maxseq <= given'
      <4>1. c \in Nat /\ c <= given' + 1
        BY <2>2
      <4>2. snd'.maxseq \in Nat /\ snd'.maxseq < c /\ given' \in Nat
        BY <3>1, <3>2, <3>3
      <4>3. ASSUME NEW x \in Nat, NEW y \in Nat, NEW z \in Nat, x < y, y <= z + 1 PROVE x <= z
        BY <4>3
      <4> QED  BY <4>1, <4>2, <4>3
    <3> QED  BY <1>4, <2>2, <3>2, <3>3, <3>4 DEF GivenInv
  <2>7. snd'.ack < rcv.next
    BY <1>3, <2>1, <2>5
  <2> QED  BY <1>2, <1>3, <1>4, <2>5, <2>6, <2>7, SenderStep
<1> QED  BY <1>5, <1>6, TcpTypes

\* Stop
LEMMA StopStep ==
    ASSUME TcpInv, Stop
    PROVE  TcpInv'
<1>1. /\ given > 0 /\ stopped' = TRUE /\ given' = given
      /\ Sends(advance0(snd)) /\ UNCHANGED <<rcv, acks, got>>
  BY DEF Stop
<1>2. acks' \in Seq(AcksBelow(rcv.next)) /\ snd.ack < rcv.next
  BY <1>1 DEF TcpInv, NetworkInv, SinkInv
<1>3. snd.maxseq >= 0
  BY <1>1, TcpTypes DEF TcpInv, StartOK
<1> DEFINE c == Max({0, snd.maxseq})
           t == advance0(snd)
<1>4. c = snd.maxseq /\ c \in Nat
  BY <1>3, TcpTypes, MaxOfTwo
<1>5. HandlerOK(t, c, snd.maxseq, resent) /\ t.ack = snd.ack
  <2>1. HandlerOK(snd, snd.curseq, snd.maxseq, resent) /\ snd \in Sender /\ c \in Nat
    BY <1>3, <1>4, Begun, TcpTypes
  <2>2. t = [snd EXCEPT !.curseq = c]
    BY DEF advance0
  <2> HIDE DEF t, c
  <2>3. t \in Sender
    BY <2>1, <2>2 DEF Sender
  <2>4. /\ t.ack = snd.ack /\ t.t_seqno = snd.t_seqno /\ t.maxseq = snd.maxseq /\ t.curseq = c
        /\ t.rtt_seq = snd.rtt_seq /\ t.rtt_active = snd.rtt_active /\ t.rtx_timer = snd.rtx_timer
        /\ t.out = snd.out
    BY <2>1, <2>2 DEF Sender
  <2> QED  BY <2>1, <2>3, <2>4 DEF HandlerOK, SenderOK, SentOK
<1> HIDE DEF c
<1>6. Sends(t)
  BY <1>1
<1> HIDE DEF t
<1>7. /\ SenderInv'
      /\ data' \in Seq(PacketsTo(snd'.maxseq))
      /\ snd'.ack = t.ack /\ snd'.curseq = c /\ snd'.rtx_timer
      /\ snd'.maxseq \in Nat /\ snd.maxseq <= snd'.maxseq
      /\ snd'.maxseq = snd.maxseq \/ snd'.maxseq < c
  BY <1>3, <1>4, <1>5, <1>6, HandlerStep
<1>8. GivenInv'
  BY <1>1, <1>4, <1>7, TcpTypes DEF GivenInv, TcpInv
<1>9. snd'.ack < rcv.next
  BY <1>2, <1>5, <1>7
<1> QED  BY <1>1, <1>2, <1>7, <1>8, <1>9, SenderStep

\* A handler that changes no data to send.
LEMMA SameDataStep ==
    ASSUME TcpInv, snd.maxseq >= 0, NEW t, HandlerOK(t, snd.curseq, snd.maxseq, resent),
           Sends(t), t.ack < rcv.next, acks' \in Seq(AcksBelow(rcv.next)),
           UNCHANGED <<rcv, given, stopped, got>>
    PROVE  TcpInv'
<1>1. /\ SenderInv'
      /\ data' \in Seq(PacketsTo(snd'.maxseq))
      /\ snd'.ack = t.ack /\ snd'.curseq = snd.curseq /\ snd'.rtx_timer
      /\ snd'.maxseq \in Nat /\ snd.maxseq <= snd'.maxseq
      /\ snd'.maxseq = snd.maxseq \/ snd'.maxseq < snd.curseq
  <2> DEFINE c == snd.curseq
  <2>1. c \in Nat
    BY TcpTypes
  <2> HIDE DEF c
  <2>2. HandlerOK(t, c, snd.maxseq, resent)
    BY DEF c
  <2>3. /\ SenderInv'
        /\ data' \in Seq(PacketsTo(snd'.maxseq))
        /\ snd'.ack = t.ack /\ snd'.curseq = c /\ snd'.rtx_timer
        /\ snd'.maxseq \in Nat /\ snd.maxseq <= snd'.maxseq
        /\ snd'.maxseq = snd.maxseq \/ snd'.maxseq < c
    BY <2>1, <2>2, HandlerStep
  <2> QED  BY <2>3 DEF c
<1>2. GivenInv'
  BY <1>1, TcpTypes DEF GivenInv, TcpInv
<1>3. given' > 0
  BY Begun
<1> QED  BY <1>1, <1>2, <1>3, SenderStep

\* RecvAck
LEMMA RecvAckStep ==
    ASSUME TcpInv, RecvAck
    PROVE  TcpInv'
<1> DEFINE a == Head(acks)
           t == recv(snd, a)
<1>1. acks # <<>> /\ acks' = Tail(acks) /\ Sends(t) /\ UNCHANGED <<rcv, given, stopped, got>>
  BY DEF RecvAck
<1>2. a \in AcksBelow(rcv.next) /\ acks' \in Seq(AcksBelow(rcv.next))
  BY <1>1, HeadTailProperties DEF TcpInv, NetworkInv
<1>3. a \in Ack /\ a.seq < rcv.next /\ a.seq <= snd.maxseq
  <2> HIDE DEF a
  <2>1. a \in Ack /\ a.seq < rcv.next /\ a.seq \in Int
    BY <1>2 DEF AcksBelow, Ack
  <2> QED  BY <2>1, TcpTypes
<1>4. snd.maxseq >= 0
  BY <1>1, TcpTypes DEF TcpInv, StartOK
<1>5. HandlerOK(t, snd.curseq, snd.maxseq, resent) /\ (t.ack = snd.ack \/ t.ack = a.seq)
  <2> DEFINE c == snd.curseq
             m == snd.maxseq
  <2>1. c \in Nat /\ m \in Int /\ resent \in SUBSET (0 .. m) /\ a.seq <= m
    BY <1>3, TcpTypes
  <2>2. HandlerOK(snd, c, m, resent)
    BY <1>4, Begun
  <2> HIDE DEF a, c, m
  <2>3. HandlerOK(recv(snd, a), c, m, resent)
          /\ (recv(snd, a).ack = snd.ack \/ recv(snd, a).ack = a.seq)
    BY <1>3, <2>1, <2>2, RecvOK
  <2> QED  BY <2>3 DEF c, m
<1>6. t.ack < rcv.next
  BY <1>3, <1>5 DEF TcpInv, SinkInv
<1> HIDE DEF t, a
<1> QED  BY <1>1, <1>2, <1>4, <1>5, <1>6, SameDataStep

\* Expire
LEMMA ExpireStep ==
    ASSUME TcpInv, Expire
    PROVE  TcpInv'
<1> DEFINE t == timeout(snd)
<1>1. snd.rtx_timer /\ Sends(t) /\ UNCHANGED <<rcv, given, acks, stopped, got>>
  BY DEF Expire
<1>2. snd.maxseq >= 0
  BY <1>1, TcpTypes DEF TcpInv, StartOK
<1>3. HandlerOK(t, snd.curseq, snd.maxseq, resent) /\ t.ack = snd.ack
  BY <1>2, Begun, TimeoutOK
<1>4. t.ack < rcv.next /\ acks' \in Seq(AcksBelow(rcv.next))
  BY <1>1, <1>3 DEF TcpInv, SinkInv, NetworkInv
<1> HIDE DEF t
<1> QED  BY <1>1, <1>2, <1>3, <1>4, SameDataStep

-----------------------------------------------------------------------------
(* The steps of the sink and of the network *)

\* The ring does not depend on what is said of congestion.
LEMMA SameRing ==
    ASSUME NEW r, NEW G, RingOK(r, G), NEW q \in Sink,
           q.next = r.next, q.maxseen = r.maxseen, q.size = r.size, q.seen = r.seen
    PROVE  RingOK(q, G)
BY DEF RingOK

\* ack() and the packet it sends.
LEMMA AckOK ==
    ASSUME NEW r, NEW G, RingOK(r, G), NEW p
    PROVE  /\ RingOK(ack(r, p), G) /\ ack(r, p).next = r.next
           /\ AckPacket(ack(r, p), r, p) \in AcksBelow(r.next)
<1> DEFINE ps == {p, r.saved} \ {Nothing}
           un == (r.unacked /\ ~\E o \in ps : o.cwr) \/ \E o \in ps : o.ect /\ o.ce
           q == ack(r, p)
           e == (q.unacked /\ \E o \in ps : o.ect) \/ \E o \in ps : ~o.ect /\ o.syn
<1>1. r \in Sink /\ r.next \in Nat
  BY DEF RingOK, Sink
<1>2. un \in BOOLEAN /\ e \in BOOLEAN
  OBVIOUS
<1>3. q = [r EXCEPT !.unacked = un, !.saved = Nothing]
  BY DEF ack
<1>4. AckPacket(q, r, p) = [seq |-> q.next - 1, ecnecho |-> e]
  BY DEF AckPacket
<1> HIDE DEF un, q, e, ps
<1>5. q \in Sink
  BY <1>1, <1>2, <1>3 DEF Sink
<1>6. q.next = r.next /\ q.maxseen = r.maxseen /\ q.size = r.size /\ q.seen = r.seen
  BY <1>1, <1>3 DEF Sink
<1>7. RingOK(q, G)
  BY <1>5, <1>6, SameRing
<1>8. AckPacket(q, r, p) \in AcksBelow(r.next)
  BY <1>1, <1>2, <1>4, <1>6 DEF AcksBelow, Ack
<1> QED  BY <1>6, <1>7, <1>8 DEF q

\* A step of the sink: next_ does not go back.
LEMMA SinkStep ==
    ASSUME TcpInv, snd.maxseq >= 0, NEW n \in Nat, rcv.next <= n, rcv'.next = n,
           RingOK(rcv', got'), got' \subseteq 0 .. snd.maxseq,
           data' \in Seq(PacketsTo(snd.maxseq)),
           acks' = acks \/ \E a \in AcksBelow(n) : acks' = Append(acks, a),
           UNCHANGED <<snd, given, stopped, resent>>
    PROVE  TcpInv'
<1>1. acks \in Seq(AcksBelow(n))
  <2>1. AcksBelow(rcv.next) \subseteq AcksBelow(n)
    BY TcpTypes DEF AcksBelow, Ack
  <2> QED  BY <2>1, SeqMonotonic DEF TcpInv, NetworkInv
<1>2. acks' \in Seq(AcksBelow(n))
  BY <1>1, AppendProperties
<1>3. NetworkInv'
  BY <1>2 DEF NetworkInv
<1>4. SinkInv'
  BY TcpTypes, SMTT(30) DEF SinkInv, TcpInv
<1>5. SenderInv' /\ GivenInv'
  BY DEF TcpInv, SenderInv, GivenInv
<1>6. StartOK'
  BY Begun DEF StartOK
<1> QED  BY <1>3, <1>4, <1>5, <1>6 DEF TcpInv

\* RecvData
LEMMA RecvDataStep ==
    ASSUME TcpInv, RecvData
    PROVE  TcpInv'
<1> DEFINE p == Head(data)
           g == Grown(rcv, p.seq)
           r == update(g, p.seq)
<1>1. /\ data # <<>> /\ data' = Tail(data) /\ got' = got \cup {p.seq}
      /\ \/ rcv' = [r EXCEPT !.saved = p] /\ acks' = acks
         \/ rcv' = ack(r, p) /\ acks' = Append(acks, AckPacket(rcv', r, p))
      /\ UNCHANGED <<snd, given, stopped, resent>>
  BY DEF RecvData
<1>2. p \in PacketsTo(snd.maxseq) /\ data' \in Seq(PacketsTo(snd.maxseq))
  BY <1>1, HeadTailProperties DEF TcpInv, NetworkInv
<1> HIDE DEF p
<1>3. p \in Packet /\ p.seq \in Nat /\ p.seq <= snd.maxseq
  BY <1>2 DEF PacketsTo, Packet
<1>4. snd.maxseq >= 0
  BY <1>3, TcpTypes
<1>5. RingOK(g, got) /\ p.seq + 1 - g.next < g.size - 1 /\ g.next = rcv.next
  BY <1>3, GrownFits DEF TcpInv, SinkInv
<1> HIDE DEF g
<1>6. RingOK(r, got') /\ rcv.next <= r.next
  BY <1>1, <1>3, <1>5, UpdateKeepsRing
<1> HIDE DEF r
<1>7. r \in Sink /\ r.next \in Nat
  BY <1>6 DEF RingOK, Sink
<1>8. got' \subseteq 0 .. snd.maxseq
  BY <1>1, <1>3, TcpTypes DEF TcpInv, SinkInv
<1>9. CASE rcv' = [r EXCEPT !.saved = p] /\ acks' = acks
  <2>1. rcv' \in Sink
    BY <1>3, <1>7, <1>9 DEF Sink
  <2>2. rcv'.next = r.next /\ rcv'.maxseen = r.maxseen /\ rcv'.size = r.size /\ rcv'.seen = r.seen
    BY <1>7, <1>9 DEF Sink
  <2>3. RingOK(rcv', got')
    BY <1>6, <2>1, <2>2, SameRing
  <2> QED  BY <1>1, <1>2, <1>4, <1>6, <1>7, <1>8, <1>9, <2>2, <2>3, SinkStep
<1>10. CASE rcv' = ack(r, p) /\ acks' = Append(acks, AckPacket(rcv', r, p))
  <2>1. /\ RingOK(ack(r, p), got') /\ ack(r, p).next = r.next
        /\ AckPacket(ack(r, p), r, p) \in AcksBelow(r.next)
    BY <1>6, AckOK
  <2>2. \E a \in AcksBelow(r.next) : acks' = Append(acks, a)
    BY <1>10, <2>1
  <2> QED  BY <1>1, <1>2, <1>4, <1>6, <1>7, <1>8, <1>10, <2>1, <2>2, SinkStep
<1> QED  BY <1>1, <1>9, <1>10

\* AckDelayed
LEMMA AckDelayedStep ==
    ASSUME TcpInv, AckDelayed
    PROVE  TcpInv'
<1> DEFINE p == rcv.saved
<1>1. /\ p # Nothing /\ rcv' = ack(rcv, p) /\ acks' = Append(acks, AckPacket(rcv', rcv, p))
      /\ UNCHANGED <<snd, data, given, stopped, got, resent>>
  BY DEF AckDelayed
<1>2. snd.maxseq >= 0
  BY <1>1, TcpTypes DEF TcpInv, StartOK
<1> HIDE DEF p
<1>3. /\ RingOK(ack(rcv, p), got) /\ ack(rcv, p).next = rcv.next
      /\ AckPacket(ack(rcv, p), rcv, p) \in AcksBelow(rcv.next)
  BY AckOK DEF TcpInv, SinkInv
<1>4. \E a \in AcksBelow(rcv.next) : acks' = Append(acks, a)
  BY <1>1, <1>3
<1>5. rcv.next \in Nat /\ rcv.next <= rcv.next /\ rcv'.next = rcv.next /\ RingOK(rcv', got')
  BY <1>1, <1>3, TcpTypes
<1>6. data' \in Seq(PacketsTo(snd.maxseq)) /\ got' \subseteq 0 .. snd.maxseq
  BY <1>1 DEF TcpInv, NetworkInv, SinkInv
<1> QED  BY <1>1, <1>2, <1>4, <1>5, <1>6, SinkStep

\* What the network loses or marks.
LEMMA NetworkStep ==
    ASSUME TcpInv,
           data' \in Seq(PacketsTo(snd.maxseq)), acks' \in Seq(AcksBelow(rcv.next)),
           data = <<>> => data' = <<>>, acks = <<>> => acks' = <<>>,
           UNCHANGED <<snd, rcv, given, stopped, got, resent>>
    PROVE  TcpInv'
<1>1. SenderInv' /\ GivenInv' /\ SinkInv'
  BY DEF TcpInv, SenderInv, GivenInv, SinkInv
<1>2. NetworkInv'
  BY DEF NetworkInv
<1>3. StartOK'
  BY DEF TcpInv, StartOK
<1> QED  BY <1>1, <1>2, <1>3 DEF TcpInv

\* A sequence without its i-th element.
LEMMA RemoveAtType ==
    ASSUME NEW S, NEW s \in Seq(S), NEW i \in DOMAIN s
    PROVE  RemoveAt(s, i) \in Seq(S) /\ s # <<>>
<1>1. i \in 1 .. Len(s) /\ Len(s) \in Nat
  BY LenProperties
<1>2. SubSeq(s, 1, i - 1) \in Seq(S)
  BY <1>1, SubSeqProperties, ElementOfSeq
<1>3. SubSeq(s, i + 1, Len(s)) \in Seq(S)
  BY <1>1, SubSeqProperties, ElementOfSeq
<1> QED  BY <1>1, <1>2, <1>3, ConcatProperties DEF RemoveAt

\* LoseData and LoseAck
LEMMA LoseStep ==
    ASSUME TcpInv, (\E i \in DOMAIN data : LoseData(i)) \/ (\E i \in DOMAIN acks : LoseAck(i))
    PROVE  TcpInv'
<1>1. data \in Seq(PacketsTo(snd.maxseq)) /\ acks \in Seq(AcksBelow(rcv.next))
  BY DEF TcpInv, NetworkInv
<1>2. ASSUME NEW i \in DOMAIN data, LoseData(i) PROVE TcpInv'
  <2>1. data' \in Seq(PacketsTo(snd.maxseq)) /\ data # <<>>
    BY <1>1, <1>2, RemoveAtType DEF LoseData
  <2> QED  BY <1>1, <1>2, <2>1, NetworkStep DEF LoseData
<1>3. ASSUME NEW i \in DOMAIN acks, LoseAck(i) PROVE TcpInv'
  <2>1. acks' \in Seq(AcksBelow(rcv.next)) /\ acks # <<>>
    BY <1>1, <1>3, RemoveAtType DEF LoseAck
  <2> QED  BY <1>1, <1>3, <2>1, NetworkStep DEF LoseAck
<1> QED  BY <1>2, <1>3

\* Mark
LEMMA MarkStep ==
    ASSUME TcpInv, NEW i \in DOMAIN data, Mark(i)
    PROVE  TcpInv'
<1> DEFINE P == PacketsTo(snd.maxseq)
           q == [data[i] EXCEPT !.ce = TRUE]
<1>1. data \in Seq(P) /\ acks \in Seq(AcksBelow(rcv.next))
  BY DEF TcpInv, NetworkInv
<1>2. data' = [data EXCEPT ![i] = q] /\ UNCHANGED <<snd, rcv, acks, given, stopped, got, resent>>
  BY DEF Mark
<1>3. data[i] \in P /\ i \in 1 .. Len(data)
  <2> HIDE DEF P
  <2> QED  BY <1>1, LenProperties, ElementOfSeq
<1>4. q \in P
  <2> DEFINE d == data[i]
  <2>1. d \in P
    BY <1>3
  <2> HIDE DEF d
  <2>2. [d EXCEPT !.ce = TRUE] \in P
    BY <2>1 DEF PacketsTo, Packet
  <2> QED  BY <2>2 DEF d
<1> HIDE DEF q, P
<1>5. data' \in Seq(P)
  BY <1>1, <1>2, <1>3, <1>4, ExceptSeq
<1>6. data # <<>>
  BY <1>3
<1> QED  BY <1>1, <1>2, <1>5, <1>6, NetworkStep DEF P

-----------------------------------------------------------------------------
(* The theorems *)

\* A new sender and a new sink.
LEMMA TcpInitial == Init => TcpInv
<1> SUFFICES ASSUME Init PROVE TcpInv
  OBVIOUS
<1>1. PICK e \in BOOLEAN : snd = NewSender(e)
  BY DEF Init
<1>2. Wnd \in Nat \ {0} /\ Unit \in Nat \ {0} /\ RingSize \in Nat \ {0, 1} /\ MaxSeq \in Nat
  BY SenderAssumption, RingAssumption, BoundAssumption
<1>3. snd \in Sender
  <2>1. <<>> \in Seq(Packet)
    BY NothingOut
  <2> QED  BY <1>1, <1>2, <2>1 DEF NewSender, Sender
<1>4. /\ snd.ack = -1 /\ snd.t_seqno = 0 /\ snd.maxseq = -1 /\ snd.curseq = 0 /\ snd.cwnd = Unit
      /\ snd.rtt_seq = -1 /\ snd.rtt_active = FALSE /\ snd.rtx_timer = FALSE /\ snd.out = <<>>
  BY <1>1 DEF NewSender
<1>5. SenderInv
  BY <1>2, <1>3, <1>4 DEF Init, SenderInv, SenderOK
<1>6. GivenInv
  BY <1>2, <1>4 DEF Init, GivenInv
<1>7. rcv.next = 0 /\ rcv.maxseen = 0 /\ rcv.size = RingSize /\ rcv.saved = Nothing
      /\ rcv.seen = [k \in 0 .. RingSize - 1 |-> FALSE]
  BY DEF Init, NewSink
<1>8. StartOK
  BY <1>4, <1>7 DEF Init, StartOK
<1>9. NetworkInv
  BY NothingOut DEF Init, NetworkInv
<1>10. RingOK(rcv, got)
  <2>1. [k \in 0 .. RingSize - 1 |-> FALSE] \in [0 .. RingSize - 1 -> BOOLEAN]
    OBVIOUS
  <2>2. [k \in 0 .. RingSize - 1 |-> FALSE] \in Rings
    BY <1>2, <2>1 DEF Rings
  <2>3. rcv \in Sink
    BY <1>2, <2>2 DEF Init, NewSink, Sink
  <2>4. \A i \in 0 .. 1 : i % RingSize \in 0 .. RingSize - 1
    BY <1>2
  <2>5. got = {}
    BY DEF Init
  <2> QED  BY <1>2, <1>7, <2>1, <2>3, <2>4, <2>5 DEF RingOK
<1>11. SinkInv
  BY <1>4, <1>7, <1>10 DEF SinkInv, Init
<1> QED  BY <1>5, <1>6, <1>8, <1>9, <1>11 DEF TcpInv

\* TcpInv is an invariant: every step of the sender, the sink and the network
\* keeps it.
THEOREM TcpInvariance == Spec => []TcpInv
<1>1. Init => TcpInv
  BY TcpInitial
<1>2. TcpInv /\ [Next]_vars => TcpInv'
  <2> SUFFICES ASSUME TcpInv, [Next]_vars PROVE TcpInv'
    OBVIOUS
  <2>1. ASSUME NEW n \in Writes, Send(n) PROVE TcpInv'
    BY <2>1, SendStep
  <2>2. CASE Stop
    BY <2>2, StopStep
  <2>3. CASE RecvAck
    BY <2>3, RecvAckStep
  <2>4. CASE Expire
    BY <2>4, ExpireStep
  <2>5. CASE RecvData
    BY <2>5, RecvDataStep
  <2>6. CASE AckDelayed
    BY <2>6, AckDelayedStep
  <2>7. CASE (\E i \in DOMAIN data : LoseData(i)) \/ (\E i \in DOMAIN acks : LoseAck(i))
    BY <2>7, LoseStep
  <2>8. ASSUME NEW i \in DOMAIN data, Mark(i) PROVE TcpInv'
    BY <2>8, MarkStep
  <2>9. CASE UNCHANGED vars
    BY <2>9 DEF vars, TcpInv, SenderInv, GivenInv, StartOK, NetworkInv, SinkInv
  <2> QED  BY <2>1, <2>2, <2>3, <2>4, <2>5, <2>6, <2>7, <2>8, <2>9 DEF Next
<1> QED  BY <1>1, <1>2, PTL DEF Spec

\* Acker::update() and TcpAgent::recv(): what the sender takes for acknowledged
\* has come, and the cumulative number is exactly the first packet that has not.
THEOREM AckedArrived == Spec => []AckedHasArrived
<1>1. TcpInv => AckedHasArrived
  <2> SUFFICES ASSUME TcpInv PROVE AckedHasArrived
    OBVIOUS
  <2> DEFINE gap == (0 .. MaxSeq + 1) \ got
  <2>1. rcv.next \in gap
    BY TcpTypes DEF TcpInv, SinkInv, RingOK, GivenInv
  <2>2. \A i \in gap : rcv.next <= i
    <3> SUFFICES ASSUME NEW i \in gap, i < rcv.next PROVE FALSE
      BY TcpTypes
    <3>1. i \in 0 .. rcv.next - 1
      BY TcpTypes
    <3> QED  BY <3>1 DEF TcpInv, SinkInv, RingOK
  <2>3. gap \in SUBSET Nat
    BY TcpTypes
  <2> HIDE DEF gap
  <2>4. Min(gap) \in gap /\ \A y \in gap : Min(gap) <= y
    BY <2>1, <2>3, MinIsLeast
  <2>5. rcv.next = Min(gap)
    <3>1. rcv.next \in Nat /\ Min(gap) \in Nat
      BY <2>1, <2>3, <2>4
    <3>2. rcv.next <= Min(gap) /\ Min(gap) <= rcv.next
      BY <2>1, <2>2, <2>4
    <3> QED  BY <3>1, <3>2
  <2>6. \A a \in Range(acks) : a.seq < rcv.next
    <3>1. acks \in Seq(AcksBelow(rcv.next))
      BY DEF TcpInv, NetworkInv
    <3>2. \A a \in Range(acks) : a \in AcksBelow(rcv.next)
      BY <3>1, ElementOfSeq, LenProperties DEF Range
    <3> QED  BY <3>2 DEF AcksBelow
  <2>7. snd.ack < rcv.next
    BY DEF TcpInv, SinkInv
  <2> QED  BY <2>5, <2>6, <2>7 DEF AckedHasArrived, gap
<1> QED  BY <1>1, TcpInvariance, PTL

\* TcpAgent::output() and its callers never send beyond the receiver's window,
\* nor what the application has not handed over.
THEOREM WindowIsKept == Spec => []WindowKept
<1>1. TcpInv => WindowKept
  BY DEF TcpInv, SenderInv, SenderOK, GivenInv, WindowKept
<1> QED  BY <1>1, TcpInvariance, PTL

\* output(), newack() and reset_rtx_timer() measure a round trip only with a
\* packet that was sent once.
THEOREM KarnsRuleHolds == Spec => []KarnsRule
<1>1. TcpInv => KarnsRule
  <2> SUFFICES ASSUME TcpInv, snd.rtt_active
               PROVE  snd.rtt_seq \in (snd.ack + 1 .. snd.maxseq) \ resent
    BY DEF KarnsRule
  <2>1. snd.rtt_seq \in Int /\ snd.ack \in Int /\ snd.maxseq \in Int
    BY DEF TcpInv, SenderInv, SenderOK, Sender
  <2>2. snd.ack < snd.rtt_seq /\ snd.rtt_seq <= snd.maxseq /\ snd.rtt_seq \notin resent
    BY DEF TcpInv, SenderInv, SenderOK
  <2> QED  BY <2>1, <2>2
<1> QED  BY <1>1, TcpInvariance, PTL

\* The retransmission timer runs while there is anything to wait for: newtimer()
\* never cancels it.
THEOREM TimerAlwaysRuns == Spec => []TimerRuns
<1>1. TcpInv => TimerRuns
  <2> SUFFICES ASSUME TcpInv, snd.ack < snd.maxseq \/ 0 < given PROVE snd.rtx_timer
    BY DEF TimerRuns
  <2>1. snd.ack \in Int /\ snd.maxseq \in Int /\ -1 <= snd.ack /\ given \in Nat
    BY TcpTypes DEF TcpInv, SenderInv, SenderOK
  <2> QED  BY <2>1 DEF TcpInv, StartOK
<1> QED  BY <1>1, TcpInvariance, PTL
=============================================================================
