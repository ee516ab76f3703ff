--------------------------- MODULE RedQueueSafety ---------------------------
(***************************************************************************)
(* Proofs about RedQueue, for every scale, weight, table Keep, set of      *)
(* configurations and set of packets: types, safety, that it implements    *)
(* LossyFifo, and what the estimator and the probabilities guarantee.  The *)
(* drop logic enters the safety proofs only through RecvEffect: whatever   *)
(* enque() decides, the packet was appended and at most one packet was     *)
(* removed, and only a queue that is full or holds more than one unit      *)
(* loses one.                                                              *)
(***************************************************************************)
EXTENDS RedQueue, PacketBytesProofs

-----------------------------------------------------------------------------
(* Arithmetic *)

\* A quotient of naturals by a positive number is a natural.
LEMMA DivNat == \A a \in Nat, b \in Nat \ {0} : a \div b \in Nat
  OBVIOUS

\* A quotient by a positive number is an integer.
LEMMA DivInt == \A a \in Int, b \in Nat \ {0} : a \div b \in Int
  OBVIOUS

\* Products of naturals are naturals.
LEMMA MulNat == \A a, b \in Nat : a * b \in Nat
  OBVIOUS

\* The fixed-point product of naturals is a natural.
LEMMA FMulNat == \A a, b \in Nat : FMul(a, b) \in Nat
  BY ScaleAssumption, DivNat, MulNat DEF FMul

\* The fixed-point product of integers is an integer.
LEMMA FMulInt == \A a, b \in Int : FMul(a, b) \in Int
  BY ScaleAssumption, DivInt DEF FMul

\* The fixed-point quotient of naturals is a natural, whatever the divisor.
LEMMA FDivNat == \A a, b \in Nat : FDiv(a, b) \in Nat
<1> SUFFICES ASSUME NEW a \in Nat, NEW b \in Nat PROVE FDiv(a, b) \in Nat
    OBVIOUS
<1>1. CASE b > 0
  <2>1. a * One \in Nat  BY ScaleAssumption, MulNat
  <2>2. (a * One) \div b \in Nat  BY <1>1, <2>1, DivNat
  <2> QED  BY <1>1, <2>2 DEF FDiv
<1>2. CASE b = 0
  <2>1. One * One \in Nat  BY ScaleAssumption, MulNat
  <2> QED  BY <1>2, <2>1 DEF FDiv
<1> QED  BY <1>1, <1>2

\* The fixed-point quotient of integers is an integer.
LEMMA FDivInt == \A a, b \in Int : FDiv(a, b) \in Int
<1> SUFFICES ASSUME NEW a \in Int, NEW b \in Int PROVE FDiv(a, b) \in Int
    OBVIOUS
<1>1. CASE b > 0
  <2>1. (a * One) \div b \in Int  BY <1>1, ScaleAssumption, DivInt
  <2> QED  BY <1>1, <2>1 DEF FDiv
<1>2. CASE b < 0
  <2>1. ((-a) * One) \div (-b) \in Int  BY <1>2, ScaleAssumption, DivInt
  <2> QED  BY <1>2, <2>1 DEF FDiv
<1>3. CASE b = 0
  BY <1>3, ScaleAssumption, MulNat DEF FDiv
<1> QED  BY <1>1, <1>2, <1>3

\* Capping keeps a number a number.
LEMMA AtMostType ==
    /\ \A x, b \in Nat : AtMost(x, b) \in Nat
    /\ \A x, b \in Int : AtMost(x, b) \in Int /\ AtMost(x, b) <= b
  BY DEF AtMost

-----------------------------------------------------------------------------
(* Types of the operators of RedQueue *)

\* The parameters have their types.
LEMMA EdpType == TypeOK => edp \in Config /\ th \in Thresholds
  BY ConfigAssumption DEF TypeOK

\* What drop_early() marks is still a packet.
LEMMA QueuedType ==
    /\ Packets \subseteq Queued
    /\ Queued \subseteq Packet
    /\ \A p \in Packets : Mark(p) \in Queued /\ Mark(p).size = p.size
    /\ \A p \in Queued : p.size \in Nat \ {0}
  BY ConfigAssumption DEF Queued, Mark, Packet

\* The size the discipline looks at is a number; in packets it is a natural.
LEMMA QSizeType ==
    ASSUME TypeOK
    PROVE  QSize \in Int /\ (~edp.qib => QSize \in Nat)
  BY DEF TypeOK, QSize

\* So is the average.
LEMMA EstimatorType ==
    ASSUME TypeOK, NEW m \in IdleSlots
    PROVE  estimator(m) \in Int
<1>1. m \in 0 .. MaxIdle /\ Keep[m] \in Int
  BY KeepAssumption, ScaleAssumption DEF IdleSlots
<1>2. ave \in Int /\ QSize \in Int
  BY QSizeType DEF TypeOK
<1> DEFINE decayed == IF edp.is_modifiedRed THEN ave ELSE FMul(ave, Keep[m])
<1>3. decayed \in Int
  BY <1>1, <1>2, FMulInt
<1>4. One - Weight \in Int /\ Weight \in Int
  BY ScaleAssumption
<1>5. FMul(decayed, One - Weight) \in Int
  <2> HIDE DEF decayed
  <2> QED  BY <1>3, <1>4, FMulInt
<1>6. Weight * QSize \in Int
  BY <1>2, <1>4
<1>7. estimator(m) = FMul(decayed, One - Weight) + Weight * QSize
  BY DEF estimator
<1> HIDE DEF decayed
<1> QED  BY <1>5, <1>6, <1>7

\* Neither adaptation of max_p makes it negative.
LEMMA AdaptedType ==
    ASSUME TypeOK, NEW a \in Int, NEW due \in BOOLEAN
    PROVE  AdaptedMaxP(a, due) \in Nat
<1>1. cur_max_p \in Nat /\ edp.alpha \in Nat /\ edp.beta \in Nat
  BY EdpType DEF TypeOK, Config
<1>2. FDiv(cur_max_p, edp.alpha) \in Nat /\ FMul(cur_max_p, edp.beta) \in Nat
  BY <1>1, FDivNat, FMulNat
<1>3. cur_max_p + AtMost(edp.alpha, cur_max_p \div 4) \in Nat
  <2>1. cur_max_p \div 4 \in Nat  BY <1>1
  <2>2. AtMost(edp.alpha, cur_max_p \div 4) \in Nat  BY <1>1, <2>1 DEF AtMost
  <2> QED  BY <1>1, <2>2
<1>4. updateMaxPFeng(a) \in Nat
  BY <1>1, <1>2 DEF updateMaxPFeng
<1>5. updateMaxP(a) \in Nat
  BY <1>1, <1>2, <1>3 DEF updateMaxP
<1> QED  BY <1>1, <1>4, <1>5 DEF AdaptedMaxP

\* NARED's adjustment does not, either.
LEMMA NaredType ==
    ASSUME TypeOK, NEW a \in Int, NEW max_p \in Nat
    PROVE  NaredMaxP(a, max_p) \in Nat
<1>1. (9 * max_p) \div 10 \in Nat /\ max_p \div 4 \in Nat /\ One \div 100 \in Nat
  BY DivNat, ScaleAssumption
<1>2. max_p + AtMost(One \div 100, max_p \div 4) \in Nat
  BY <1>1 DEF AtMost
<1> QED  BY <1>1, <1>2 DEF NaredMaxP

\* A cube of an integer is an integer.
LEMMA CubeType == \A x \in Int : Cube(x) \in Int
  BY FMulInt DEF Cube

\* Both curves are numbers, and capped.
LEMMA CalculateType ==
    ASSUME TypeOK, NEW a \in Int, NEW n \in Nat, NEW max_p \in Nat
    PROVE  calculate_p(a, n, max_p) \in Int /\ calculate_p(a, n, max_p) <= One
<1> USE DEF Buffer
<1>1. /\ th.min \in Nat /\ th.max \in Nat /\ gentle_p \in Nat
      /\ edp.buffer_size \in Nat /\ One \in Int
  BY ScaleAssumption, EdpType DEF TypeOK, Config, Thresholds
<1>2. calculate_p_new(a, max_p) \in Int /\ calculate_p_new(a, max_p) <= One
  <2> DEFINE span == IF th.max - th.min = 0 THEN One
                     ELSE th.max - th.min
  <2>1. span \in Int  BY <1>1
  <2>2. FMul(FDiv(a - th.min, span), max_p) \in Int
    <3> HIDE DEF span
    <3>1. a - th.min \in Int /\ max_p \in Int  BY <1>1
    <3>2. FDiv(a - th.min, span) \in Int  BY <2>1, <3>1, FDivInt
    <3> QED  BY <3>1, <3>2, FMulInt
  <2>3. FMul(One - gentle_p, FDiv(a, th.max)) + 2 * gentle_p - One \in Int
    <3>1. FDiv(a, th.max) \in Int
      <4>1. th.max \in Int  BY <1>1
      <4> QED  BY <4>1, FDivInt
    <3>2. One - gentle_p \in Int  BY <1>1
    <3>3. FMul(One - gentle_p, FDiv(a, th.max)) \in Int
      BY <3>1, <3>2, FMulInt
    <3> QED  BY <1>1, <3>3
  <2> QED  BY <1>1, <2>2, <2>3, AtMostType DEF calculate_p_new
<1>3. /\ calculate_p_modifiedRed(a, n, max_p) \in Int
      /\ calculate_p_modifiedRed(a, n, max_p) <= One
  <2> DEFINE num == FMul(max_p, Cube(a - th.min))
             den == FMul(One - max_p, Cube(Buffer - th.min))
                    + FMul(max_p, Cube(a - max_p))
             temp_p == FDiv(num, den)
  <2>1. num \in Int /\ den \in Int
    <3>1. /\ a - th.min \in Int /\ Buffer - th.min \in Int
          /\ a - max_p \in Int /\ One - max_p \in Int /\ max_p \in Int
      BY <1>1
    <3>2. /\ Cube(a - th.min) \in Int /\ Cube(Buffer - th.min) \in Int
          /\ Cube(a - max_p) \in Int
      BY <3>1, CubeType
    <3>3. /\ FMul(One - max_p, Cube(Buffer - th.min)) \in Int
          /\ FMul(max_p, Cube(a - max_p)) \in Int
      BY <3>1, <3>2, FMulInt
    <3> QED  BY <3>1, <3>2, <3>3, FMulInt
  <2>2. temp_p \in Int
    <3> HIDE DEF num, den
    <3> QED  BY <2>1, FDivInt
  <2>3. FDiv(temp_p, One - n * temp_p) \in Int
    <3> HIDE DEF temp_p
    <3> QED  BY <1>1, <2>2, FDivInt
  <2>4. /\ 0 \in Int /\ One \in Int
        /\ calculate_p_modifiedRed(a, n, max_p) =
             AtMost(CASE a < th.min -> 0
                      [] a >= Buffer /\ a >= th.min -> One
                      [] OTHER -> FDiv(temp_p, One - n * temp_p), One)
    BY <1>1 DEF calculate_p_modifiedRed
  <2> HIDE DEF temp_p
  <2> QED  BY <2>3, <2>4, AtMostType
<1> QED  BY <1>2, <1>3 DEF calculate_p

\* modify_p() returns a number.
LEMMA ModifyType ==
    ASSUME TypeOK, NEW p \in Int, NEW n \in Nat, NEW nb \in Nat, NEW sz \in Nat
    PROVE  modify_p(p, n, nb, sz) \in Int
<1> DEFINE n1 == IF edp.bytes THEN nb \div edp.mean_pktsize ELSE n
           spread == CASE edp.wait /\ n1 * p < One -> 0
                       [] edp.wait /\ n1 * p >= One /\ n1 * p < 2 * One ->
                            FDiv(p, 2 * One - n1 * p)
                       [] ~edp.wait /\ n1 * p < One -> FDiv(p, One - n1 * p)
                       [] OTHER -> One
<1>1. edp.mean_pktsize \in Nat \ {0} /\ One \in Int
  BY ScaleAssumption, EdpType DEF Config
<1>2. n1 \in Nat
  BY <1>1, DivNat
<1>3. spread \in Int
  <2> HIDE DEF n1
  <2>1. FDiv(p, 2 * One - n1 * p) \in Int /\ FDiv(p, One - n1 * p) \in Int
    <3>1. n1 * p \in Int  BY <1>2
    <3>2. 2 * One - n1 * p \in Int /\ One - n1 * p \in Int  BY <1>1, <3>1
    <3> QED  BY <3>2, FDivInt
  <2> QED  BY <1>1, <2>1
<1>4. modify_p(p, n, nb, sz) =
        IF edp.bytes /\ spread < One
        THEN AtMost((spread * sz) \div edp.mean_pktsize, One)
        ELSE AtMost(spread, One)
  BY DEF modify_p
<1> HIDE DEF spread
<1>5. (spread * sz) \div edp.mean_pktsize \in Int
  BY <1>1, <1>3, DivInt
<1> QED  BY <1>1, <1>3, <1>4, <1>5, AtMostType

-----------------------------------------------------------------------------
(* What an arrival does to the queue, whatever the drop logic decides *)

\* Removing the packet just appended undoes the append.
LEMMA RemoveLast ==
    ASSUME NEW S, NEW s \in Seq(S), NEW x \in S
    PROVE  RemoveAt(Append(s, x), Len(s) + 1) = s
<1> DEFINE t == Append(s, x)
<1>1. t \in Seq(S) /\ Len(t) = Len(s) + 1
  OBVIOUS
<1>2. SubSeq(t, 1, Len(s)) = s
  OBVIOUS
<1>3. SubSeq(t, Len(s) + 2, Len(t)) = << >>
  OBVIOUS
<1>4. RemoveAt(t, Len(s) + 1) = SubSeq(t, 1, Len(s)) \o SubSeq(t, Len(s) + 2, Len(t))
  BY DEF RemoveAt
<1> QED  BY <1>2, <1>3, <1>4

\* enque() turned q into t, b bytes long, for a packet r: it was appended, and
\* perhaps one packet was removed.
Enqueued(r, t, b) ==
    \/ /\ ~Full
       /\ t = Append(q, r)
       /\ b = bytes + r.size
       /\ dropped' = dropped
    \/ /\ Full \/ QSize > 1
       /\ dropped' = dropped + 1
       /\ \E i \in 1 .. Len(q) + 1 :
              /\ t = RemoveAt(Append(q, r), i)
              /\ b = bytes + r.size - Append(q, r)[i].size
              /\ edp.drop = "tail" => i = Len(q) + 1

\* An arrival is an enque() followed by the rest of Queue::recv().
ArrivalShape ==
    \E r \in Queued, t \in Seq(Queued), b \in Int :
        Enqueued(r, t, b) /\ HandOff(t, b)

\* The victim is a packet of the queue, the arriving one included.
LEMMA VictimRange ==
    ASSUME TypeOK, NEW n \in Nat \ {0}, NEW i \in pickPacketToDrop(n)
    PROVE  i \in 1 .. n /\ (edp.drop = "tail" => i = n)
<1>1. edp.drop \in Victim
  BY EdpType DEF Config
<1> QED  BY <1>1 DEF pickPacketToDrop, Victim, AtMost

\* A forced drop has the shape.
LEMMA ForcedShape ==
    ASSUME TypeOK, NEW r \in Queued, NEW n, NEW nb,
           Full \/ QSize > 1, ForcedDrop(r, n, nb)
    PROVE  ArrivalShape
<1> DEFINE s == Append(q, r)
<1>1. q \in Seq(Queued) /\ s \in Seq(Queued) /\ Len(s) = Len(q) + 1
      /\ bytes \in Int /\ Len(q) \in Nat
  BY DEF TypeOK
<1>2. PICK i \in pickPacketToDrop(Len(s)) :
          HandOff(RemoveAt(s, i), bytes + r.size - s[i].size)
  BY DEF ForcedDrop
<1>3. i \in 1 .. Len(q) + 1 /\ (edp.drop = "tail" => i = Len(q) + 1)
  BY <1>1, VictimRange
<1>4. RemoveAt(s, i) \in Seq(Queued)
  BY <1>1, <1>3, RemoveAtShape
<1>5. bytes + r.size - s[i].size \in Int
  <2>1. s[i] \in Queued  BY <1>1, <1>3
  <2>2. r.size \in Nat /\ s[i].size \in Nat  BY <2>1, QueuedType
  <2> HIDE DEF s
  <2> QED  BY <1>1, <2>2
<1>6. dropped' = dropped + 1
  BY DEF ForcedDrop
<1>7. Enqueued(r, RemoveAt(s, i), bytes + r.size - s[i].size)
  BY <1>3, <1>6 DEF Enqueued
<1> QED  BY <1>2, <1>4, <1>5, <1>7 DEF ArrivalShape

\* So has the end of enque() when no random drop was decided.
LEMMA StoreShape ==
    ASSUME TypeOK, NEW r \in Queued, NEW forced \in BOOLEAN, NEW n, NEW nb,
           forced => QSize > 1, Store(r, forced, n, nb)
    PROVE  ArrivalShape
<1>1. CASE forced \/ Full
  <2>1. ForcedDrop(r, n, nb)  BY <1>1 DEF Store
  <2> QED  BY <1>1, <2>1, ForcedShape
<1>2. CASE ~forced /\ ~Full
  <2>1. HandOff(Append(q, r), bytes + r.size) /\ dropped' = dropped
    BY <1>2 DEF Store
  <2>2. Append(q, r) \in Seq(Queued)  BY DEF TypeOK
  <2>3. bytes + r.size \in Int  BY QueuedType DEF TypeOK
  <2>4. Enqueued(r, Append(q, r), bytes + r.size)
    BY <1>2, <2>1 DEF Enqueued
  <2> QED  BY <2>1, <2>2, <2>3, <2>4 DEF ArrivalShape
<1> QED  BY <1>1, <1>2

\* So has a random drop.
LEMMA UnforcedShape ==
    ASSUME TypeOK, NEW r \in Queued, QSize > 1, UnforcedDrop(r)
    PROVE  ArrivalShape
<1>1. CASE Full
  <2>1. ForcedDrop(r, 0, 0)  BY <1>1 DEF UnforcedDrop
  <2> QED  BY <1>1, <2>1, ForcedShape
<1>2. CASE ~Full
  <2>1. HandOff(q, bytes) /\ dropped' = dropped + 1
    BY <1>2 DEF UnforcedDrop
  <2>2. q \in Seq(Queued) /\ bytes \in Int /\ Len(q) \in Nat
    BY DEF TypeOK
  <2>3. q = RemoveAt(Append(q, r), Len(q) + 1)
    BY <2>2, RemoveLast
  <2>4. Append(q, r)[Len(q) + 1] = r /\ r.size \in Nat
    BY <2>2, QueuedType
  <2>5. bytes = bytes + r.size - Append(q, r)[Len(q) + 1].size
    BY <2>2, <2>4
  <2>6. Enqueued(r, q, bytes)
    BY <2>1, <2>2, <2>3, <2>5 DEF Enqueued
  <2> QED  BY <2>1, <2>2, <2>6 DEF ArrivalShape
<1> QED  BY <1>1, <1>2

\* An arrival counts the packet, changes the early-drop variables within their
\* types, and has the shape.
LEMMA RecvEffect ==
    ASSUME TypeOK, NEW p \in Packets, Recv(p)
    PROVE  /\ ArrivalShape
           /\ arrived < MaxArrivals /\ arrived' = arrived + 1
           /\ edp' = edp /\ th' = th /\ gentle_p' = gentle_p /\ ready' = ready
           /\ \E m \in IdleSlots : ave' = estimator(m)
           /\ count' \in Nat /\ count_bytes' \in Nat
           /\ old' \in BOOLEAN /\ status' \in Statuses
           /\ cur_max_p' \in Nat /\ prob1' \in Int /\ prob' \in Int
<1>1. PICK m \in IdleSlots, due \in BOOLEAN :
          LET a == estimator(m)
              max_p == AdaptedMaxP(a, due)
              n == count + 1
              nb == count_bytes + p.size
          IN  /\ ave' = a
              /\ status' = IF edp.adaptive /\ edp.feng_adaptive
                           THEN FengStatus(a) ELSE status
              /\ \/ NoEarlyDrop(p, a, max_p, n, nb)
                 \/ AverageTooHigh(p, a, max_p, n, nb)
                 \/ JustCrossed(p, a, max_p)
                 \/ DropEarly(p, a, max_p, n, nb)
  BY DEF Recv
<1> DEFINE a == estimator(m)
           max_p == AdaptedMaxP(a, due)
           n == count + 1
           nb == count_bytes + p.size
<1>2. a \in Int
  BY EstimatorType
<1>3. max_p \in Nat
  BY <1>2, AdaptedType
<1>4. p \in Queued /\ p.size \in Nat /\ Mark(p) \in Queued
  BY QueuedType
<1>5. n \in Nat /\ nb \in Nat
  BY <1>4 DEF TypeOK
<1>6. ave' = a /\ status' \in Statuses
  BY <1>1 DEF TypeOK, FengStatus, Statuses
<1>7. old \in BOOLEAN /\ prob1 \in Int /\ prob \in Int
  BY DEF TypeOK
<1>a. \/ NoEarlyDrop(p, a, max_p, n, nb)
      \/ AverageTooHigh(p, a, max_p, n, nb)
      \/ JustCrossed(p, a, max_p)
      \/ DropEarly(p, a, max_p, n, nb)
  BY <1>1
<1> HIDE DEF a, max_p, n, nb
<1> DEFINE Effect == /\ ArrivalShape
                     /\ count' \in Nat /\ count_bytes' \in Nat
                     /\ old' \in BOOLEAN
                     /\ cur_max_p' \in Nat /\ prob1' \in Int /\ prob' \in Int
<1>s. ASSUME NEW r \in Queued, NEW forced \in BOOLEAN, NEW k \in Nat,
             NEW kb \in Nat, Store(r, forced, k, kb)
      PROVE  count' \in Nat /\ count_bytes' \in Nat
  BY <1>s DEF Store, ForcedDrop
<1>8. ASSUME NoEarlyDrop(p, a, max_p, n, nb) PROVE Effect
  <2>1. Store(p, FALSE, n, nb)  BY <1>8 DEF NoEarlyDrop
  <2>2. ArrivalShape  BY <1>4, <2>1, StoreShape
  <2>3. count' \in Nat /\ count_bytes' \in Nat  BY <1>4, <1>5, <1>s, <2>1
  <2>4. old' = FALSE /\ prob' = 0 /\ cur_max_p' = max_p /\ prob1' = prob1
    BY <1>8 DEF NoEarlyDrop
  <2>5. old' \in BOOLEAN  BY <2>4
  <2>6. prob' \in Int /\ cur_max_p' \in Nat /\ prob1' \in Int
    BY <1>3, <1>7, <2>4
  <2> QED  BY <2>2, <2>3, <2>5, <2>6
<1>9. ASSUME AverageTooHigh(p, a, max_p, n, nb) PROVE Effect
  <2>1. Store(p, TRUE, n, nb) /\ QSize > 1
    BY <1>9 DEF AverageTooHigh, EarlyDropZone
  <2>2. ArrivalShape  BY <1>4, <2>1, StoreShape
  <2>3. count' \in Nat /\ count_bytes' \in Nat  BY <1>4, <1>5, <1>s, <2>1
  <2> QED  BY <1>3, <1>7, <1>9, <2>2, <2>3 DEF AverageTooHigh
<1>10. ASSUME JustCrossed(p, a, max_p) PROVE Effect
  <2>1. Store(p, FALSE, 1, p.size)  BY <1>10 DEF JustCrossed
  <2>2. ArrivalShape  BY <1>4, <2>1, StoreShape
  <2>3. count' \in Nat /\ count_bytes' \in Nat  BY <1>4, <1>s, <2>1
  <2> QED  BY <1>3, <1>7, <1>10, <2>2, <2>3 DEF JustCrossed
<1>11. ASSUME DropEarly(p, a, max_p, n, nb) PROVE Effect
  <2> DEFINE mp == IF edp.is_modifiedRed /\ OnCurve(a)
                   THEN NaredMaxP(a, max_p) ELSE max_p
             p1 == calculate_p(a, n, mp)
             pr == modify_p(p1, n, nb, p.size)
  <2>1. mp \in Nat
    BY <1>2, <1>3, NaredType
  <2>2. /\ cur_max_p' = mp /\ prob1' = p1 /\ prob' = pr /\ old' = old
        /\ QSize > 1
        /\ \/ Store(p, FALSE, n, nb)
           \/ Store(Mark(p), FALSE, 0, 0)
           \/ UnforcedDrop(p)
    BY <1>11 DEF DropEarly, EarlyDropZone
  <2>3. p1 \in Int
    <3> HIDE DEF mp
    <3> QED  BY <1>2, <1>5, <2>1, CalculateType
  <2>4. pr \in Int
    <3> HIDE DEF p1
    <3> QED  BY <1>4, <1>5, <2>3, ModifyType
  <2> HIDE DEF mp, p1, pr
  <2>5. CASE Store(p, FALSE, n, nb)
    BY <1>4, <1>5, <1>7, <1>s, <2>1, <2>2, <2>3, <2>4, <2>5, StoreShape
  <2>6. CASE Store(Mark(p), FALSE, 0, 0)
    BY <1>4, <1>7, <1>s, <2>1, <2>2, <2>3, <2>4, <2>6, StoreShape
  <2>7. CASE UnforcedDrop(p)
    <3>1. count' \in Nat /\ count_bytes' \in Nat
      BY <2>7 DEF UnforcedDrop, ForcedDrop
    <3> QED
      BY <1>4, <1>7, <2>1, <2>2, <2>3, <2>4, <2>7, <3>1, UnforcedShape
  <2> QED  BY <2>2, <2>5, <2>6, <2>7
<1>12. Effect
  BY <1>a, <1>8, <1>9, <1>10, <1>11
<1>13. /\ arrived < MaxArrivals /\ arrived' = arrived + 1
       /\ edp' = edp /\ th' = th /\ gentle_p' = gentle_p /\ ready' = ready
  BY DEF Recv
<1> QED  BY <1>6, <1>12, <1>13 DEF a

-----------------------------------------------------------------------------
(* Type correctness *)

\* reset() only computes naturals.
LEMMA ResetThresholdsType ==
    ASSUME TypeOK
    PROVE  ResetThresholds(th) \in Thresholds
<1>1. /\ th.min_pkts \in Nat /\ th.max_pkts \in Nat /\ th.bottom \in Nat
      /\ edp.auto_bottom \in Nat /\ edp.targetqueue \in Nat
      /\ edp.mean_pktsize \in Nat /\ One \in Nat /\ th \in Thresholds
  BY ScaleAssumption, EdpType DEF Config, Thresholds
<1>2. AtLeast(5 * One, edp.targetqueue \div 2) \in Nat
  BY <1>1, DivNat DEF AtLeast
<1>3. AtMost(One \div 100, edp.auto_bottom) \in Nat
  BY <1>1, DivNat DEF AtMost
<1>4. initialize_params(th) \in Thresholds
  BY <1>1, <1>2, <1>3 DEF initialize_params, Thresholds
<1> DEFINE i == IF edp.linked THEN initialize_params(th) ELSE th
           max == IF i.max_pkts = 0 THEN 3 * i.min_pkts ELSE i.max_pkts
           unit == IF edp.qib THEN edp.mean_pktsize ELSE 1
<1>5. i \in Thresholds
  BY <1>1, <1>4
<1>6. ResetThresholds(th) =
        [min_pkts |-> i.min_pkts, max_pkts |-> max, bottom |-> i.bottom,
         min |-> i.min_pkts * unit, max |-> max * unit]
  BY DEF ResetThresholds
<1> HIDE DEF i
<1>7. max \in Nat /\ i.min_pkts \in Nat /\ unit \in Nat /\ i.bottom \in Nat
  BY <1>1, <1>5 DEF Thresholds
<1> HIDE DEF max, unit
<1>8. i.min_pkts * unit \in Nat /\ max * unit \in Nat
  BY <1>7, MulNat
<1> QED  BY <1>6, <1>7, <1>8 DEF Thresholds

\* Whatever enque() decided, the queue's variables keep their types.
LEMMA ShapeTypes ==
    ASSUME TypeOK, ArrivalShape
    PROVE  /\ q' \in Seq(Queued) /\ out' \in Seq(Queued) /\ bytes' \in Int
           /\ blocked' \in BOOLEAN /\ idle' \in BOOLEAN
           /\ sent' \in Nat /\ dropped' \in Nat
<1>1. PICK r \in Queued, t \in Seq(Queued), b \in Int :
          Enqueued(r, t, b) /\ HandOff(t, b)
  BY DEF ArrivalShape
<1>2. dropped' \in Nat
  BY <1>1 DEF Enqueued, TypeOK
<1>3. CASE blocked
  BY <1>1, <1>2, <1>3 DEF HandOff, TypeOK
<1>4. CASE ~blocked /\ t # << >>
  <2>1. Tail(t) \in Seq(Queued) /\ Head(t) \in Queued
    BY <1>4
  <2>2. Append(out, Head(t)) \in Seq(Queued) /\ sent + 1 \in Nat
    BY <2>1 DEF TypeOK
  <2>3. b - Head(t).size \in Int
    BY <2>1, QueuedType
  <2> QED  BY <1>1, <1>2, <1>4, <2>1, <2>2, <2>3 DEF HandOff
<1>5. CASE ~blocked /\ t = << >>
  BY <1>1, <1>2, <1>5 DEF HandOff, TypeOK
<1> QED  BY <1>3, <1>4, <1>5

\* resume() keeps the types.
LEMMA ResumeTypes ==
    ASSUME TypeOK, Resume
    PROVE  TypeOK'
<1>1. out # << >> /\ out \in Seq(Queued) /\ q \in Seq(Queued) /\ bytes \in Int
  BY DEF Resume, TypeOK
<1>2. Tail(out) \in Seq(Queued)
  BY <1>1
<1>3. UNCHANGED <<edp, th, edv, gentle_p, ready, arrived, dropped>>
  BY DEF Resume
<1>4. CASE q # << >>
  <2>1. Head(q) \in Queued /\ Tail(q) \in Seq(Queued)
    BY <1>1, <1>4
  <2>2. Append(Tail(out), Head(q)) \in Seq(Queued) /\ bytes - Head(q).size \in Int
    BY <1>1, <1>2, <2>1, QueuedType
  <2>3. /\ q' = Tail(q) /\ bytes' = bytes - Head(q).size
        /\ out' = Append(Tail(out), Head(q)) /\ sent' = sent + 1
        /\ idle' = FALSE /\ blocked' = blocked
    BY <1>4 DEF Resume
  <2>4. sent' \in Nat
    BY <2>3 DEF TypeOK
  <2>5. q' \in Seq(Queued) /\ out' \in Seq(Queued) /\ bytes' \in Int
    BY <2>1, <2>2, <2>3
  <2>6. idle' \in BOOLEAN /\ blocked' \in BOOLEAN
    BY <2>3 DEF TypeOK
  <2> QED  BY <1>3, <2>4, <2>5, <2>6 DEF TypeOK, edv
<1>5. CASE q = << >>
  <2>1. /\ q' = q /\ bytes' = bytes /\ sent' = sent /\ out' = Tail(out)
        /\ idle' = TRUE /\ blocked' = ~Reopens
    BY <1>5 DEF Resume
  <2>2. blocked' \in BOOLEAN
    BY <2>1
  <2> QED  BY <1>1, <1>2, <1>3, <2>1, <2>2 DEF TypeOK, edv
<1> QED  BY <1>4, <1>5

\* reset() keeps the types.
LEMMA ResetTypes ==
    ASSUME TypeOK, Reset
    PROVE  TypeOK'
<1>1. edp.max_p_inv \in Nat /\ One \in Nat
  BY ScaleAssumption, EdpType DEF Config
<1>2. FDiv(One, edp.max_p_inv) \in Nat
  BY <1>1, FDivNat
<1>3. th' \in Thresholds /\ edp' \in Configs
  BY ResetThresholdsType DEF Reset, TypeOK
<1>4. cur_max_p' \in Nat /\ gentle_p' \in Nat
  BY <1>2 DEF Reset, TypeOK
<1>5. dropped' \in Nat /\ q' \in Seq(Queued) /\ out' \in Seq(Queued)
  BY DEF Reset, TypeOK
<1>6. /\ bytes' \in Int /\ ave' \in Int /\ count' \in Nat /\ count_bytes' \in Nat
      /\ prob1' \in Int /\ prob' \in Int /\ sent' \in Nat
      /\ arrived' \in 0 .. MaxArrivals /\ status' \in Statuses
  BY DEF Reset, TypeOK
<1>7. /\ old' \in BOOLEAN /\ idle' \in BOOLEAN /\ ready' \in BOOLEAN
      /\ blocked' \in BOOLEAN
  BY DEF Reset, TypeOK
<1> QED  BY <1>3, <1>4, <1>5, <1>6, <1>7 DEF TypeOK

\* recv() keeps the types.
LEMMA RecvTypes ==
    ASSUME TypeOK, NEW p \in Packets, Recv(p)
    PROVE  TypeOK'
<1>1. ave' \in Int
  BY RecvEffect, EstimatorType
<1>2. arrived' \in 0 .. MaxArrivals
  BY RecvEffect, ConfigAssumption DEF TypeOK
<1>3. /\ edp' \in Configs /\ th' \in Thresholds /\ gentle_p' \in Nat
      /\ ready' \in BOOLEAN
  BY RecvEffect DEF TypeOK
<1>4. /\ q' \in Seq(Queued) /\ out' \in Seq(Queued) /\ bytes' \in Int
      /\ blocked' \in BOOLEAN /\ idle' \in BOOLEAN
      /\ sent' \in Nat /\ dropped' \in Nat
  BY RecvEffect, ShapeTypes
<1>5. /\ count' \in Nat /\ count_bytes' \in Nat
      /\ old' \in BOOLEAN /\ status' \in Statuses
      /\ cur_max_p' \in Nat /\ prob1' \in Int /\ prob' \in Int
  BY RecvEffect
<1> QED  BY <1>1, <1>2, <1>3, <1>4, <1>5 DEF TypeOK

\* The constructor's state has the types.
LEMMA InitTypes == Init => TypeOK
<1> SUFFICES ASSUME Init PROVE TypeOK
    OBVIOUS
<1>1. edp \in Config
  BY ConfigAssumption DEF Init
<1>2. th \in Thresholds
  BY <1>1 DEF Init, Config, Thresholds
<1>3. q \in Seq(Queued) /\ out \in Seq(Queued)
  BY DEF Init
<1>4. /\ bytes \in Int /\ ave \in Int /\ count \in Nat /\ count_bytes \in Nat
      /\ cur_max_p \in Nat /\ gentle_p \in Nat /\ prob1 \in Int /\ prob \in Int
      /\ sent \in Nat /\ dropped \in Nat
  BY DEF Init
<1>5. arrived \in 0 .. MaxArrivals
  BY ConfigAssumption DEF Init
<1>6. /\ blocked \in BOOLEAN /\ idle \in BOOLEAN /\ old \in BOOLEAN
      /\ ready \in BOOLEAN
  BY DEF Init
<1>7. edp \in Configs /\ status \in Statuses
  BY DEF Init
<1> QED  BY <1>2, <1>3, <1>4, <1>5, <1>6, <1>7 DEF TypeOK

\* Every variable of the queue keeps its type, in every configuration: the
\* code's int and double fields never receive anything but a number, whatever
\* sequence of arrivals, callbacks and resets a simulation makes.
THEOREM TypeCorrect == Spec => []TypeOK
<1>1. TypeOK /\ [Next]_vars => TypeOK'
  <2> SUFFICES ASSUME TypeOK, [Next]_vars PROVE TypeOK'
      OBVIOUS
  <2>1. CASE \E p \in Packets : Recv(p)
    BY <2>1, RecvTypes
  <2>2. CASE Resume
    BY <2>2, ResumeTypes
  <2>3. CASE Reset
    BY <2>3, ResetTypes
  <2>4. CASE UNCHANGED vars
    BY <2>4 DEF TypeOK, vars, edv
  <2> QED  BY <2>1, <2>2, <2>3, <2>4 DEF Next, Arrive
<1> QED  BY <1>1, InitTypes, PTL DEF Spec

-----------------------------------------------------------------------------
(* Safety: the invariant *)

\* What the recv/resume/reset protocol keeps true: none of the parts is
\* inductive without the types, and the bound on the average needs the limit.
Inv == TypeOK /\ Conservation /\ OneOutstanding /\ WithinLimit

-----------------------------------------------------------------------------
(* The queue that enque() leaves to recv() *)

\* Its length and the number of dropped packets move together.
LEMMA EnqueuedLength ==
    ASSUME TypeOK, NEW r \in Queued, NEW t \in Seq(Queued), NEW b \in Int,
           Enqueued(r, t, b)
    PROVE  /\ \/ dropped' = dropped /\ Len(t) = Len(q) + 1
              \/ dropped' = dropped + 1 /\ Len(t) = Len(q)
           /\ ~edp.qib /\ Len(q) <= edp.qlim => Len(t) <= edp.qlim
<1>1. /\ q \in Seq(Queued) /\ Len(q) \in Nat /\ dropped \in Nat
      /\ Append(q, r) \in Seq(Queued) /\ Len(Append(q, r)) = Len(q) + 1
  BY DEF TypeOK
<1>2. edp.qlim \in Nat
  BY EdpType DEF Config
<1>3. CASE ~Full /\ t = Append(q, r) /\ dropped' = dropped
  <2>1. ~edp.qib => Len(q) < edp.qlim
    BY <1>1, <1>2, <1>3 DEF Full, QSize, QLimit
  <2> QED  BY <1>1, <1>2, <1>3, <2>1
<1>4. CASE dropped' = dropped + 1
           /\ \E i \in 1 .. Len(q) + 1 : t = RemoveAt(Append(q, r), i)
  <2>1. PICK i \in 1 .. Len(q) + 1 : t = RemoveAt(Append(q, r), i)
    BY <1>4
  <2>2. Len(RemoveAt(Append(q, r), i)) = Len(Append(q, r)) - 1
    BY <1>1, RemoveAtShape
  <2>3. Len(t) = Len(q)
    BY <1>1, <2>1, <2>2
  <2> QED  BY <1>1, <1>4, <2>3
<1> QED  BY <1>3, <1>4 DEF Enqueued

\* What recv() then does: the length, the packets sent and those at the target.
LEMMA HandOffEffect ==
    ASSUME TypeOK, OneOutstanding, NEW t \in Seq(Queued), NEW b \in Int,
           HandOff(t, b)
    PROVE  /\ \/ sent' = sent /\ Len(q') = Len(t)
              \/ sent' = sent + 1 /\ Len(q') = Len(t) - 1
           /\ b >= bytes'
           /\ OneOutstanding'
<1>1. sent \in Nat /\ Len(t) \in Nat /\ out \in Seq(Queued) /\ Len(out) \in Nat
  BY DEF TypeOK
<1>2. CASE blocked
  <2>1. q' = t /\ bytes' = b /\ idle' = FALSE
        /\ out' = out /\ blocked' = blocked /\ sent' = sent
    BY <1>2 DEF HandOff
  <2>2. OneOutstanding'
    BY <1>2, <2>1 DEF OneOutstanding
  <2> QED  BY <1>1, <2>1, <2>2
<1>3. CASE ~blocked /\ t # << >>
  <2>1. /\ q' = Tail(t) /\ bytes' = b - Head(t).size /\ sent' = sent + 1
        /\ out' = Append(out, Head(t))
    BY <1>3 DEF HandOff
  <2>2. blocked' = TRUE /\ idle' = FALSE
    BY <1>3 DEF HandOff
  <2>3. Head(t) \in Queued /\ Head(t).size \in Nat /\ Len(Tail(t)) = Len(t) - 1
    BY <1>3, QueuedType
  <2>4. out = << >>
    BY <1>3 DEF OneOutstanding
  <2>5. Len(out') = 1 /\ out' # << >>
    BY <2>1, <2>3, <2>4
  <2>6. OneOutstanding'
    BY <2>2, <2>5 DEF OneOutstanding
  <2>7. Len(q') = Len(t) - 1
    BY <2>1, <2>3
  <2>9. b >= bytes'
    BY <2>1, <2>3
  <2> QED  BY <2>1, <2>6, <2>7, <2>9
<1>4. CASE ~blocked /\ t = << >>
  <2>1. /\ q' = t /\ bytes' = b /\ out' = out /\ sent' = sent
    BY <1>4 DEF HandOff
  <2>2. blocked' = blocked
    BY <1>4 DEF HandOff
  <2>3. OneOutstanding'
    BY <1>4, <2>1, <2>2 DEF OneOutstanding
  <2> QED  BY <1>1, <2>1, <2>3
<1> QED  BY <1>2, <1>3, <1>4

\* In bytes, a queue that drops at its tail grows only below its limit.
LEMMA EnqueuedBytes ==
    ASSUME TypeOK, NEW r \in Queued, NEW t \in Seq(Queued), NEW b \in Int,
           Enqueued(r, t, b), edp.qib, edp.drop = "tail",
           NEW p \in Packets, \A x \in Packets : x.size <= p.size,
           bytes < edp.qlim * edp.mean_pktsize + p.size
    PROVE  b < edp.qlim * edp.mean_pktsize + p.size
<1>1. /\ q \in Seq(Queued) /\ Len(q) \in Nat /\ bytes \in Int
      /\ Append(q, r)[Len(q) + 1] = r
  BY DEF TypeOK
<1>2. r.size \in Nat /\ p.size \in Nat
  BY QueuedType
<1>3. r.size <= p.size
  <2>1. PICK x \in Packets : r = x \/ r = Mark(x)  BY DEF Queued
  <2>2. x.size = r.size  BY <2>1, QueuedType
  <2> QED  BY <2>1, <2>2
<1> DEFINE limit == edp.qlim * edp.mean_pktsize
<1>4. limit \in Nat
  BY EdpType, MulNat DEF Config
<1>5. CASE ~Full /\ b = bytes + r.size
  <2>1. bytes < limit
    <3>1. QSize = bytes /\ QLimit = limit  BY DEF QSize, QLimit
    <3> HIDE DEF limit
    <3> QED  BY <1>1, <1>4, <1>5, <3>1 DEF Full
  <2> HIDE DEF limit
  <2>2. b < limit + p.size
    BY <1>1, <1>2, <1>3, <1>4, <1>5, <2>1
  <2> QED  BY <2>2 DEF limit
<1>6. CASE b = bytes + r.size - Append(q, r)[Len(q) + 1].size
  BY <1>1, <1>2, <1>6
<1> QED  BY <1>5, <1>6 DEF Enqueued

-----------------------------------------------------------------------------
(* The invariant *)

\* The constructor's state satisfies it.
LEMMA InitInv == Init => Inv
<1> SUFFICES ASSUME Init PROVE Inv
    OBVIOUS
<1>1. TypeOK
  BY InitTypes
<1>2. Conservation /\ OneOutstanding
  BY DEF Init, Conservation, OneOutstanding
<1>3. edp.qlim \in Nat /\ edp.qlim * edp.mean_pktsize \in Nat
  BY <1>1, EdpType, MulNat DEF Config
<1>4. WithinLimit
  <2>1. q = << >> /\ bytes = 0  BY DEF Init
  <2>2. \A p \in Packets : p.size \in Nat \ {0}  BY QueuedType
  <2> QED  BY <1>3, <2>1, <2>2 DEF WithinLimit
<1> QED  BY <1>1, <1>2, <1>4 DEF Inv

\* recv() preserves it.
LEMMA RecvInv ==
    ASSUME Inv, NEW p \in Packets, Recv(p)
    PROVE  Inv'
<1>0. TypeOK /\ Conservation /\ OneOutstanding /\ WithinLimit
  BY DEF Inv
<1>1. TypeOK'
  BY <1>0, RecvTypes
<1>2. PICK r \in Queued, t \in Seq(Queued), b \in Int :
          Enqueued(r, t, b) /\ HandOff(t, b)
  BY <1>0, RecvEffect DEF ArrivalShape
<1>3. arrived' = arrived + 1 /\ edp' = edp
  BY <1>0, RecvEffect
<1>4. /\ sent \in Nat /\ dropped \in Nat /\ Len(q) \in Nat /\ arrived \in Nat
      /\ sent' \in Nat /\ dropped' \in Nat /\ Len(q') \in Nat /\ Len(t) \in Nat
      /\ bytes \in Int /\ bytes' \in Int
  <2>1. sent \in Nat /\ dropped \in Nat /\ arrived \in Nat /\ bytes \in Int
        /\ q \in Seq(Queued)
    BY <1>0 DEF TypeOK
  <2>2. sent' \in Nat /\ dropped' \in Nat /\ bytes' \in Int /\ q' \in Seq(Queued)
    BY <1>1 DEF TypeOK
  <2> QED  BY <2>1, <2>2
<1>5. /\ \/ dropped' = dropped /\ Len(t) = Len(q) + 1
         \/ dropped' = dropped + 1 /\ Len(t) = Len(q)
      /\ ~edp.qib /\ Len(q) <= edp.qlim => Len(t) <= edp.qlim
  BY <1>0, <1>2, EnqueuedLength
<1>6. /\ \/ sent' = sent /\ Len(q') = Len(t)
         \/ sent' = sent + 1 /\ Len(q') = Len(t) - 1
      /\ b >= bytes' /\ OneOutstanding'
  BY <1>0, <1>2, HandOffEffect
<1>7. Conservation'
  <2>1. arrived = sent + dropped + Len(q)
    BY <1>0 DEF Conservation
  <2>2. arrived' = sent' + dropped' + Len(q')
    <3> DEFINE waits == Len(q)
               will_wait == Len(q')
               stored == Len(t)
    <3>1. /\ waits \in Nat /\ stored \in Nat
          /\ sent \in Nat /\ dropped \in Nat /\ arrived' = arrived + 1
          /\ arrived = sent + dropped + waits
      BY <1>3, <1>4, <2>1
    <3>2. \/ dropped' = dropped /\ stored = waits + 1
          \/ dropped' = dropped + 1 /\ stored = waits
      BY <1>5
    <3>3. \/ sent' = sent /\ will_wait = stored
          \/ sent' = sent + 1 /\ will_wait = stored - 1
      BY <1>6
    <3>4. arrived' = sent' + dropped' + will_wait
      <4> HIDE DEF waits, will_wait, stored
      <4> QED  BY <3>1, <3>2, <3>3
    <3> QED  BY <3>4
  <2> QED  BY <2>2 DEF Conservation
<1>8. edp.qlim \in Nat
  BY <1>0, EdpType DEF Config
<1>9. ~edp'.qib => Len(q') <= edp'.qlim
  BY <1>0, <1>3, <1>4, <1>5, <1>6, <1>8 DEF WithinLimit
<1>10. ASSUME edp'.qib, edp'.drop = "tail", NEW x \in Packets,
              \A y \in Packets : y.size <= x.size
       PROVE  bytes' < edp'.qlim * edp'.mean_pktsize + x.size
  <2>1. bytes < edp.qlim * edp.mean_pktsize + x.size
    BY <1>0, <1>3, <1>10 DEF WithinLimit
  <2>2. b < edp.qlim * edp.mean_pktsize + x.size
    BY <1>0, <1>2, <1>3, <1>10, <2>1, EnqueuedBytes
  <2>3. edp.qlim * edp.mean_pktsize + x.size \in Nat
    <3>1. edp.qlim \in Nat /\ edp.mean_pktsize \in Nat
      BY <1>0, EdpType DEF Config
    <3>2. edp.qlim * edp.mean_pktsize \in Nat /\ x.size \in Nat
      BY <3>1, MulNat, QueuedType
    <3> QED  BY <3>2
  <2> QED  BY <1>3, <1>4, <1>6, <2>2, <2>3
<1>11. WithinLimit'
  BY <1>9, <1>10 DEF WithinLimit
<1> QED  BY <1>1, <1>6, <1>7, <1>11 DEF Inv

\* resume() preserves it.
LEMMA ResumeInv ==
    ASSUME Inv, Resume
    PROVE  Inv'
<1>0. TypeOK /\ Conservation /\ OneOutstanding /\ WithinLimit
  BY DEF Inv
<1>1. TypeOK'
  BY <1>0, ResumeTypes
<1>2. /\ arrived' = arrived /\ dropped' = dropped /\ edp' = edp
      /\ out # << >> /\ out \in Seq(Queued) /\ Len(out) <= 1 /\ q \in Seq(Queued)
  BY <1>0 DEF Resume, TypeOK, OneOutstanding
<1>3. Len(out) = 1 /\ Tail(out) = << >>
  <2>1. Len(out) \in Nat /\ Len(out) # 0
    BY <1>2, EmptySeq
  <2>2. Len(out) = 1
    <3>1. \A n \in Nat : n # 0 /\ n <= 1 => n = 1
      OBVIOUS
    <3>2. Len(out) <= 1
      BY <1>2
    <3> QED  BY <2>1, <3>1, <3>2
  <2>3. Tail(out) \in Seq(Queued) /\ Len(Tail(out)) = 0
    BY <1>2, <2>2
  <2> QED  BY <2>2, <2>3, EmptySeq
<1>4. /\ sent \in Nat /\ dropped \in Nat /\ Len(q) \in Nat /\ arrived \in Nat
      /\ bytes \in Int /\ edp.qlim \in Nat
      /\ edp.qlim * edp.mean_pktsize \in Nat
  <2>1. edp.qlim \in Nat /\ edp.mean_pktsize \in Nat
    BY <1>0, EdpType DEF Config
  <2>2. edp.qlim * edp.mean_pktsize \in Nat
    BY <2>1, MulNat
  <2>3. /\ sent \in Nat /\ dropped \in Nat /\ arrived \in Nat
        /\ bytes \in Int /\ q \in Seq(Queued)
    BY <1>0 DEF TypeOK
  <2> QED  BY <2>1, <2>2, <2>3
<1>5. CASE q # << >>
  <2>1. /\ q' = Tail(q) /\ bytes' = bytes - Head(q).size
        /\ out' = Append(Tail(out), Head(q)) /\ sent' = sent + 1
    BY <1>5 DEF Resume
  <2>2. idle' = FALSE /\ blocked' = blocked
    BY <1>5 DEF Resume
  <2>3. Head(q) \in Queued /\ Head(q).size \in Nat /\ Len(Tail(q)) = Len(q) - 1
    BY <1>2, <1>5, QueuedType
  <2>a. Len(q') = Len(q) - 1
    BY <2>1, <2>3
  <2>b. arrived = sent + dropped + Len(q)
    BY <1>0 DEF Conservation
  <2>c. arrived' = sent' + dropped' + Len(q')
    <3> DEFINE waits == Len(q)
               will_wait == Len(q')
    <3>1. /\ waits \in Nat /\ will_wait = waits - 1
          /\ arrived = sent + dropped + waits
      BY <1>4, <2>a, <2>b
    <3>2. arrived' = sent' + dropped' + will_wait
      <4> HIDE DEF waits, will_wait
      <4> QED  BY <1>2, <1>4, <2>1, <3>1
    <3> QED  BY <3>2
  <2>4. Conservation'
    BY <2>c DEF Conservation
  <2>5. out' = << Head(q) >>
    <3>1. out' = Append(<< >>, Head(q))
      BY <1>3, <2>1
    <3> QED  BY <3>1
  <2>6. Len(out') = 1 /\ out' # << >>
    BY <2>5
  <2>7. OneOutstanding'
    BY <1>0, <1>2, <2>2, <2>6 DEF OneOutstanding
  <2>8. bytes' <= bytes /\ Len(q') <= Len(q) /\ bytes' \in Int /\ Len(q') \in Nat
    BY <1>4, <2>1, <2>3
  <2>9. \A p \in Packets : p.size \in Nat
    BY QueuedType
  <2>10. WithinLimit'
    BY <1>0, <1>2, <1>4, <2>8, <2>9 DEF WithinLimit
  <2> QED  BY <1>1, <2>4, <2>7, <2>10 DEF Inv
<1>6. CASE q = << >>
  <2>1. /\ q' = q /\ bytes' = bytes /\ sent' = sent /\ out' = << >>
    BY <1>3, <1>6 DEF Resume
  <2>2. blocked' = ~Reopens
    BY <1>6 DEF Resume
  <2>3. Conservation' /\ WithinLimit'
    BY <1>0, <1>2, <2>1 DEF Conservation, WithinLimit
  <2>4. out' = << >> /\ q' = << >> /\ Len(out') = 0
    BY <1>6, <2>1
  <2>5. Len(out') <= 1
    BY <2>4
  <2>6. OneOutstanding'
    BY <2>2, <2>4, <2>5 DEF OneOutstanding
  <2> QED  BY <1>1, <2>3, <2>6 DEF Inv
<1> QED  BY <1>5, <1>6

\* reset() preserves it: what it throws away is counted, and the packet at
\* the target, if any, keeps the queue blocked.
LEMMA ResetInv ==
    ASSUME Inv, Reset
    PROVE  Inv'
<1>0. TypeOK /\ Conservation /\ OneOutstanding
  BY DEF Inv
<1>1. TypeOK'
  BY <1>0, ResetTypes
<1>2. /\ q' = << >> /\ bytes' = 0 /\ dropped' = dropped + Len(q)
      /\ out' = out /\ sent' = sent /\ arrived' = arrived /\ edp' = edp
  BY DEF Reset
<1>3. blocked' = blocked
  BY DEF Reset
<1>4. Conservation'
  BY <1>0, <1>2 DEF Conservation, TypeOK
<1>5. OneOutstanding'
  BY <1>0, <1>2, <1>3 DEF OneOutstanding
<1>6. edp'.qlim \in Nat /\ edp'.qlim * edp'.mean_pktsize \in Nat
  BY <1>0, <1>2, EdpType, MulNat DEF Config
<1>7. \A p \in Packets : p.size \in Nat \ {0}
  BY QueuedType
<1>8. WithinLimit'
  BY <1>2, <1>6, <1>7 DEF WithinLimit
<1> QED  BY <1>1, <1>4, <1>5, <1>8 DEF Inv

\* Inv is inductive.
LEMMA InvInductive == Inv /\ [Next]_vars => Inv'
<1> SUFFICES ASSUME Inv, [Next]_vars PROVE Inv'
    OBVIOUS
<1>1. CASE \E p \in Packets : Recv(p)
  BY <1>1, RecvInv
<1>2. CASE Resume
  BY <1>2, ResumeInv
<1>3. CASE Reset
  BY <1>3, ResetInv
<1>4. CASE UNCHANGED vars
  <2>1. TypeOK'
    BY <1>4 DEF Inv, TypeOK, vars, edv
  <2>2. Conservation' /\ OneOutstanding' /\ WithinLimit'
    BY <1>4 DEF Inv, vars, edv, Conservation, OneOutstanding, WithinLimit
  <2> QED  BY <2>1, <2>2 DEF Inv
<1> QED  BY <1>1, <1>2, <1>3, <1>4 DEF Next, Arrive

\* Inv holds in every reachable state.
THEOREM Invariance == Spec => []Inv
  BY InitInv, InvInductive, PTL DEF Spec

\* Whatever the drop logic, the victim and the order of arrivals, callbacks
\* and resets, every packet that arrived was sent on, counted as dropped, or
\* still waits.
THEOREM PacketsConserved == Spec => []Conservation
<1>1. Inv => Conservation  BY DEF Inv
<1> QED  BY <1>1, Invariance, PTL

\* recv() and resume() keep at most one packet at the target, for either value
\* of unblock_on_resume_, and never strand a packet in an unblocked queue.
THEOREM TargetHoldsOne == Spec => []OneOutstanding
<1>1. Inv => OneOutstanding  BY DEF Inv
<1> QED  BY <1>1, Invariance, PTL

\* The hard limit of enque() holds for every limit, packet size and victim.
THEOREM LimitHolds == Spec => []WithinLimit
<1>1. Inv => WithinLimit  BY DEF Inv
<1> QED  BY <1>1, Invariance, PTL

-----------------------------------------------------------------------------
(* The byte count *)

\* The finiteness is what makes the count a number that grows and shrinks.
Counted == IsFiniteSet(Bytes(q)) /\ ByteCount

\* The packets of a queue have sizes.
LEMMA SizesOfQueued == \A x \in Queued : x.size \in Nat
  BY QueuedType

\* enque() keeps account of the packet that joined and of the one it removed.
LEMMA EnqueuedCounts ==
    ASSUME TypeOK, Counted, NEW r \in Queued, NEW t \in Seq(Queued), NEW b \in Int,
           Enqueued(r, t, b)
    PROVE  IsFiniteSet(Bytes(t)) /\ b = byteLength(t)
<1> DEFINE s == Append(q, r)
<1>1. q \in Seq(Queued) /\ s \in Seq(Queued) /\ Len(s) = Len(q) + 1 /\ bytes \in Int
  BY DEF TypeOK
<1>2. IsFiniteSet(Bytes(q)) /\ bytes = byteLength(q)
  BY DEF Counted, ByteCount
<1>3. IsFiniteSet(Bytes(s)) /\ byteLength(s) = bytes + r.size /\ r.size \in Nat
  BY <1>1, <1>2, SizesOfQueued, BytesAppend
<1> HIDE DEF s
<1>4. CASE t = s /\ b = bytes + r.size
  BY <1>3, <1>4
<1>5. CASE \E i \in 1 .. Len(q) + 1 : t = RemoveAt(s, i) /\ b = bytes + r.size - s[i].size
  <2>1. PICK i \in 1 .. Len(s) : t = RemoveAt(s, i) /\ b = bytes + r.size - s[i].size
    BY <1>1, <1>5
  <2>2. IsFiniteSet(Bytes(RemoveAt(s, i))) /\ byteLength(RemoveAt(s, i)) = byteLength(s) - s[i].size
    BY <1>1, <1>3, SizesOfQueued, BytesRemove
  <2>3. s[i].size \in Nat
    BY <1>1, SizesOfQueued
  <2> QED  BY <1>1, <1>3, <2>1, <2>2, <2>3
<1> QED  BY <1>4, <1>5 DEF Enqueued, s

\* recv() keeps account of the packet it hands on.
LEMMA HandOffCounts ==
    ASSUME NEW t \in Seq(Queued), NEW b \in Int, HandOff(t, b),
           IsFiniteSet(Bytes(t)), b = byteLength(t)
    PROVE  Counted'
<1>1. CASE q' = t /\ bytes' = b
  BY <1>1 DEF Counted, ByteCount
<1>2. CASE t # << >> /\ q' = Tail(t) /\ bytes' = b - Head(t).size
  BY <1>2, SizesOfQueued, BytesTail DEF Counted, ByteCount
<1> QED  BY <1>1, <1>2 DEF HandOff

\* bytes_ is the size of the queued packets, through every arrival, every removal
\* from the middle of the queue, every departure and every reset.
THEOREM BytesCounted == Spec => []ByteCount
<1>1. Init => Counted
  BY NoBytes DEF Init, Counted, ByteCount
<1>2. Inv /\ Counted /\ [Next]_vars => Counted'
  <2> SUFFICES ASSUME Inv, Counted, [Next]_vars PROVE Counted'
    OBVIOUS
  <2>1. CASE \E p \in Packets : Recv(p)
    <3>1. TypeOK /\ ArrivalShape
      BY <2>1, RecvEffect DEF Inv
    <3>2. PICK r \in Queued, t \in Seq(Queued), b \in Int : Enqueued(r, t, b) /\ HandOff(t, b)
      BY <3>1 DEF ArrivalShape
    <3>3. IsFiniteSet(Bytes(t)) /\ b = byteLength(t)
      BY <3>1, <3>2, EnqueuedCounts
    <3> QED  BY <3>2, <3>3, HandOffCounts
  <2>2. CASE Resume
    <3>1. \/ q # << >> /\ q' = Tail(q) /\ bytes' = bytes - Head(q).size
          \/ q' = q /\ bytes' = bytes
      BY <2>2 DEF Resume
    <3>2. q \in Seq(Queued)
      BY DEF Inv, TypeOK
    <3> QED  BY <3>1, <3>2, SizesOfQueued, BytesTail DEF Counted, ByteCount
  <2>3. CASE Reset
    BY <2>3, NoBytes DEF Reset, Counted, ByteCount
  <2>4. CASE UNCHANGED vars
    BY <2>4 DEF vars, Counted, ByteCount
  <2> QED  BY <2>1, <2>2, <2>3, <2>4 DEF Next, Arrive
<1>3. Counted => ByteCount
  BY DEF Counted
<1> QED  BY <1>1, <1>2, <1>3, Invariance, PTL DEF Spec

-----------------------------------------------------------------------------
(* RED implements the promise of a queue *)

\* An arrival is an arrival of the abstract queue.
LEMMA ArrivalRefines ==
    ASSUME TypeOK, ArrivalShape
    PROVE  \E r \in Queued : Fifo!Arrive(r)
<1>1. PICK r \in Queued, t \in Seq(Queued), b \in Int :
          Enqueued(r, t, b) /\ HandOff(t, b)
  BY DEF ArrivalShape
<1>2. t \in Fifo!AfterArrival(r)
  <2>1. \A i : Fifo!RemoveAt(Append(q, r), i) = RemoveAt(Append(q, r), i)
    BY DEF RemoveAt, Fifo!RemoveAt
  <2>2. \/ t = Append(q, r)
        \/ \E i \in 1 .. Len(q) + 1 : t = RemoveAt(Append(q, r), i)
    BY <1>1 DEF Enqueued
  <2> QED  BY <2>1, <2>2, Zenon DEF Fifo!AfterArrival
<1>3. IF blocked \/ t = << >>
      THEN q' = t /\ UNCHANGED <<out, blocked>>
      ELSE q' = Tail(t) /\ out' = Append(out, Head(t)) /\ blocked' = TRUE
  BY <1>1 DEF HandOff
<1>4. Fifo!Arrive(r)
  BY <1>2, <1>3 DEF Fifo!Arrive
<1> QED  BY <1>4

\* Every step of the queue is a step of the abstract queue, or none.
LEMMA StepRefines == TypeOK /\ [Next]_vars => [Fifo!Next]_(Fifo!vars)
<1> SUFFICES ASSUME TypeOK, [Next]_vars PROVE [Fifo!Next]_(Fifo!vars)
    OBVIOUS
<1>1. CASE \E p \in Packets : Recv(p)
  <2>1. ArrivalShape  BY <1>1, RecvEffect
  <2> QED  BY <2>1, ArrivalRefines DEF Fifo!Next
<1>2. CASE Resume
  <2>1. Fifo!Finish  BY <1>2 DEF Resume, Fifo!Finish
  <2> QED  BY <2>1 DEF Fifo!Next
<1>3. CASE Reset
  <2>1. Fifo!Flush  BY <1>3 DEF Reset, Fifo!Flush
  <2> QED  BY <2>1 DEF Fifo!Next
<1>4. CASE UNCHANGED vars
  BY <1>4 DEF vars, Fifo!vars
<1> QED  BY <1>1, <1>2, <1>3, <1>4 DEF Next, Arrive

\* RED, in every variant, is a queue that hands packets on one at a time, in
\* the order in which they arrived, never twice, and never one it was not
\* given: an early drop, a forced drop from the middle and a reset only leave
\* packets out.
THEOREM Refinement == Spec => ImplementsFifo
<1>1. Init => Fifo!Init
  BY DEF Init, Fifo!Init
<1> QED  BY <1>1, StepRefines, TypeCorrect, PTL DEF Spec, ImplementsFifo, Fifo!Spec

-----------------------------------------------------------------------------
(* Bounds of the arithmetic *)

\* A product of naturals grows with either factor.
LEMMA MulMono ==
    \A a, b, c \in Nat : a <= b => a * c <= b * c /\ c * a <= c * b
  OBVIOUS

\* Rounding down keeps a quotient below the exact bound.
LEMMA DivBound ==
    ASSUME NEW a \in Nat, NEW c \in Nat, NEW d \in Nat \ {0}, a <= c * d
    PROVE  a \div d <= c
  OBVIOUS

\* ... and above an exact lower bound.
LEMMA DivBelow ==
    ASSUME NEW a \in Nat, NEW c \in Nat, NEW d \in Nat \ {0}, c * d <= a
    PROVE  c <= a \div d
  OBVIOUS

\* A share k of at most B units is at most B times k.
LEMMA FMulBound ==
    ASSUME NEW x \in Nat, NEW k \in Nat, NEW B \in Nat, x <= B * One
    PROVE  FMul(x, k) <= B * k
<1>1. One \in Nat \ {0} /\ One \in Nat
  BY ScaleAssumption
<1>2. x * k <= (B * One) * k
  <2>1. B * One \in Nat  BY <1>1, MulNat
  <2> QED  BY <2>1, MulMono
<1>3. (B * One) * k = (B * k) * One
  BY <1>1
<1>4. x * k \in Nat /\ B * k \in Nat
  BY MulNat
<1>5. x * k <= (B * k) * One
  BY <1>2, <1>3
<1>6. (x * k) \div One <= B * k
  BY <1>1, <1>4, <1>5, DivBound
<1> QED  BY <1>6 DEF FMul

\* A share of at most 1.0 of a number is at most the number.
LEMMA FMulShrinks ==
    ASSUME NEW x \in Nat, NEW k \in Nat, k <= One
    PROVE  FMul(x, k) <= x
<1>1. One \in Nat \ {0} /\ One \in Nat
  BY ScaleAssumption
<1>2. x * k <= x * One
  BY <1>1, MulMono
<1>3. x * k \in Nat
  BY MulNat
<1>4. (x * k) \div One <= x
  BY <1>1, <1>2, <1>3, DivBound
<1> QED  BY <1>4 DEF FMul

-----------------------------------------------------------------------------
(* The average *)

\* The bound is inductive together with the average being no less than 0.
AveInv == ~edp.qib => ave \in Nat /\ ave <= edp.qlim * One

\* One run of the estimator stays within the limit, however long the queue
\* was idle and whether or not the idle time counts (NARED).
LEMMA EstimatorBounded ==
    ASSUME TypeOK, WithinLimit, AveInv, ~edp.qib, NEW m \in IdleSlots
    PROVE  estimator(m) \in Nat /\ estimator(m) <= edp.qlim * One
<1>1. /\ One \in Nat /\ Weight \in Nat /\ One - Weight \in Nat
      /\ (One - Weight) + Weight = One
  BY ScaleAssumption
<1>2. ave \in Nat /\ ave <= edp.qlim * One /\ edp.qlim \in Nat
  BY EdpType DEF AveInv, Config
<1>3. Keep[m] \in Nat /\ Keep[m] <= One
  BY KeepAssumption, ScaleAssumption DEF IdleSlots
<1>4. QSize \in Nat /\ QSize <= edp.qlim
  BY DEF QSize, WithinLimit, TypeOK
<1> DEFINE decayed == IF edp.is_modifiedRed THEN ave ELSE FMul(ave, Keep[m])
           limit == edp.qlim * One
<1>5. decayed \in Nat /\ decayed <= limit
  <2>1. FMul(ave, Keep[m]) \in Nat
    BY <1>2, <1>3, FMulNat
  <2>2. FMul(ave, Keep[m]) <= ave
    BY <1>2, <1>3, FMulShrinks
  <2>3. limit \in Nat
    BY <1>1, <1>2, MulNat
  <2>4. FMul(ave, Keep[m]) <= limit
    <3> HIDE DEF limit
    <3>1. ave <= limit  BY <1>2 DEF limit
    <3> QED  BY <1>2, <2>1, <2>2, <2>3, <3>1
  <2> QED  BY <1>2, <2>1, <2>4
<1>6. estimator(m) = FMul(decayed, One - Weight) + Weight * QSize
  BY DEF estimator
<1> HIDE DEF decayed
<1>7. FMul(decayed, One - Weight) <= edp.qlim * (One - Weight)
  BY <1>1, <1>2, <1>5, FMulBound
<1>8. Weight * QSize <= Weight * edp.qlim
  BY <1>1, <1>2, <1>4, MulMono
<1>9. FMul(decayed, One - Weight) \in Nat /\ Weight * QSize \in Nat
  BY <1>1, <1>4, <1>5, FMulNat, MulNat
<1>10. /\ edp.qlim * (One - Weight) \in Nat /\ Weight * edp.qlim \in Nat
       /\ edp.qlim * (One - Weight) + Weight * edp.qlim = edp.qlim * One
  <2>1. edp.qlim * (One - Weight) \in Nat /\ Weight * edp.qlim \in Nat
    BY <1>1, <1>2, MulNat
  <2>2. \A l, o, w \in Int : l * (o - w) + w * l = l * o
    OBVIOUS
  <2> QED  BY <1>1, <1>2, <2>1, <2>2
<1> DEFINE old_part == FMul(decayed, One - Weight)
           new_part == Weight * QSize
           old_max == edp.qlim * (One - Weight)
           new_max == Weight * edp.qlim
<1>11. old_part + new_part <= old_max + new_max /\ old_part + new_part \in Nat
  <2> HIDE DEF old_part, new_part, old_max, new_max, limit
  <2>1. /\ old_part \in Nat /\ new_part \in Nat
        /\ old_max \in Nat /\ new_max \in Nat
        /\ old_part <= old_max /\ new_part <= new_max
    BY <1>7, <1>8, <1>9, <1>10 DEF old_part, new_part, old_max, new_max
  <2> QED  BY <2>1
<1> QED  BY <1>6, <1>10, <1>11

\* Every step keeps the average within the limit.
LEMMA AveInvariance == Spec => []AveInv
<1>1. Init => AveInv
  <2> SUFFICES ASSUME Init PROVE AveInv
      OBVIOUS
  <2>1. edp.qlim \in Nat  BY InitTypes, EdpType DEF Config
  <2>2. edp.qlim * One \in Nat  BY <2>1, ScaleAssumption, MulNat
  <2>3. ave = 0  BY DEF Init
  <2> QED  BY <2>2, <2>3 DEF AveInv
<1>2. Inv /\ AveInv /\ [Next]_vars => AveInv'
  <2> SUFFICES ASSUME Inv, AveInv, [Next]_vars PROVE AveInv'
      OBVIOUS
  <2>0. TypeOK /\ WithinLimit  BY DEF Inv
  <2>1. CASE \E p \in Packets : Recv(p)
    <3>1. PICK p \in Packets : Recv(p)  BY <2>1
    <3>2. edp' = edp  BY <2>0, <3>1, RecvEffect
    <3>3. PICK m \in IdleSlots : ave' = estimator(m)
      BY <2>0, <3>1, RecvEffect
    <3>4. ~edp.qib => ave' \in Nat /\ ave' <= edp.qlim * One
      BY <2>0, <3>3, EstimatorBounded
    <3> QED  BY <3>2, <3>4 DEF AveInv
  <2>2. CASE Resume
    BY <2>2 DEF Resume, AveInv, edv
  <2>3. CASE Reset
    <3>1. edp.qlim \in Nat  BY <2>0, EdpType DEF Config
    <3>2. edp.qlim * One \in Nat  BY <3>1, ScaleAssumption, MulNat
    <3>3. ave' = 0 /\ edp' = edp  BY <2>3 DEF Reset
    <3> QED  BY <3>2, <3>3 DEF AveInv
  <2>4. CASE UNCHANGED vars
    BY <2>4 DEF AveInv, vars, edv
  <2> QED  BY <2>1, <2>2, <2>3, <2>4 DEF Next, Arrive
<1> QED  BY <1>1, <1>2, Invariance, PTL DEF Spec

\* The estimator never leaves the range of the queue sizes it was given.
THEOREM AverageNeverAboveLimit == Spec => []AverageBounded
<1>1. AveInv => AverageBounded
  BY DEF AveInv, AverageBounded
<1> QED  BY <1>1, AveInvariance, PTL

-----------------------------------------------------------------------------
(* Arrivals at an idle queue *)

\* red.cc: "A packet that arrives to an idle queue will never be dropped":
\* it is not, whatever the average has remained, when the queue is measured
\* in packets and may hold one.
THEOREM IdleArrivalsKept ==
    (\A c \in Configs : ~c.qib) => (Spec => IdleArrivalKept)
<1> SUFFICES ASSUME \A c \in Configs : ~c.qib PROVE Spec => IdleArrivalKept
    OBVIOUS
<1> DEFINE Kept == idle /\ arrived' # arrived /\ edp.qlim > 0 => dropped' = dropped
<1>1. Inv /\ [Next]_vars => [Kept]_vars
  <2> SUFFICES ASSUME Inv, Next, idle, arrived' # arrived, edp.qlim > 0
               PROVE  dropped' = dropped
      BY DEF vars
  <2>1. PICK p \in Packets : Recv(p)
    BY DEF Next, Arrive, Resume, Reset
  <2>2. TypeOK /\ q = << >>
    BY DEF Inv, OneOutstanding
  <2>3. edp.qlim \in Nat /\ ~edp.qib
    BY <2>2, EdpType DEF Config, TypeOK
  <2>4. QSize = 0 /\ QLimit = edp.qlim
    BY <2>2, <2>3 DEF QSize, QLimit
  <2>5. ~Full /\ ~(QSize > 1)
    BY <2>3, <2>4 DEF Full
  <2>6. ArrivalShape
    BY <2>1, <2>2, RecvEffect
  <2> QED  BY <2>5, <2>6 DEF ArrivalShape, Enqueued
<1> QED  BY <1>1, Invariance, PTL DEF Spec, IdleArrivalKept

-----------------------------------------------------------------------------
(* Marking instead of dropping *)

\* A packet that may be marked is not dropped by a queue that is not full.
LEMMA MarkKeeps ==
    ASSUME TypeOK, AlwaysMarks, ~Full, NEW p \in Packets, p.ect, Recv(p)
    PROVE  dropped' = dropped
<1>1. PICK m \in IdleSlots, due \in BOOLEAN :
          LET a == estimator(m)
              max_p == AdaptedMaxP(a, due)
              n == count + 1
              nb == count_bytes + p.size
          IN  \/ NoEarlyDrop(p, a, max_p, n, nb)
              \/ AverageTooHigh(p, a, max_p, n, nb)
              \/ JustCrossed(p, a, max_p)
              \/ DropEarly(p, a, max_p, n, nb)
  BY DEF Recv
<1> DEFINE a == estimator(m)
           max_p == AdaptedMaxP(a, due)
           n == count + 1
           nb == count_bytes + p.size
<1>2. a \in Int
  BY EstimatorType
<1>3. max_p \in Nat
  BY <1>2, AdaptedType
<1>4. n \in Nat
  BY DEF TypeOK
<1>5. \/ NoEarlyDrop(p, a, max_p, n, nb)
      \/ AverageTooHigh(p, a, max_p, n, nb)
      \/ JustCrossed(p, a, max_p)
      \/ DropEarly(p, a, max_p, n, nb)
  BY <1>1
<1> HIDE DEF a, max_p, n, nb
<1>s. ASSUME NEW r, NEW k, NEW kb, Store(r, FALSE, k, kb)
      PROVE  dropped' = dropped
  BY <1>s DEF Store
<1>6. CASE NoEarlyDrop(p, a, max_p, n, nb)
  BY <1>6, <1>s DEF NoEarlyDrop
<1>7. CASE AverageTooHigh(p, a, max_p, n, nb)
  BY <1>7 DEF AverageTooHigh, ForcedByAverage, AlwaysMarks
<1>8. CASE JustCrossed(p, a, max_p)
  BY <1>8, <1>s DEF JustCrossed
<1>9. CASE DropEarly(p, a, max_p, n, nb)
  <2> DEFINE mp == IF edp.is_modifiedRed /\ OnCurve(a)
                   THEN NaredMaxP(a, max_p) ELSE max_p
             p1 == calculate_p(a, n, mp)
             markable == /\ edp.setbit /\ p.ect
                         /\ edp.use_mark_p => p1 < edp.mark_p
  <2>1. mp \in Nat
    BY <1>2, <1>3, NaredType
  <2>2. \/ Store(p, FALSE, n, nb)
        \/ Store(Mark(p), FALSE, 0, 0)
        \/ ~markable
    BY <1>9 DEF DropEarly
  <2>3. p1 \in Int /\ p1 <= One
    <3> HIDE DEF mp
    <3> QED  BY <1>2, <1>4, <2>1, CalculateType
  <2>4. edp.mark_p \in Nat /\ edp.mark_p >= 2 * One /\ One \in Nat \ {0}
    BY EdpType, ScaleAssumption DEF AlwaysMarks, Config
  <2>5. markable
    <3> HIDE DEF p1
    <3>1. p1 < edp.mark_p  BY <2>3, <2>4
    <3> QED  BY <3>1 DEF AlwaysMarks
  <2> HIDE DEF markable
  <2> QED  BY <1>s, <2>2, <2>5
<1> QED  BY <1>5, <1>6, <1>7, <1>8, <1>9

\* red.h: "Set use_mark_p true and set mark_p to 2.0 to always mark instead of
\* drop when queue is not full": so it is, in every variant and at every
\* average, NARED's probabilities included.
THEOREM MarksInsteadOfDropping == Spec => MarkInsteadOfDrop
<1> DEFINE Marks == AlwaysMarks /\ (\A p \in Packets : p.ect)
                    /\ arrived' # arrived /\ dropped' # dropped => Full
<1>1. TypeOK /\ [Next]_vars => [Marks]_vars
  <2> SUFFICES ASSUME TypeOK, Next, AlwaysMarks, \A p \in Packets : p.ect,
                      arrived' # arrived, dropped' # dropped
               PROVE  Full
      BY DEF vars
  <2>1. PICK p \in Packets : Recv(p)
    BY DEF Next, Arrive, Resume, Reset
  <2> QED  BY <2>1, MarkKeeps
<1> QED  BY <1>1, TypeCorrect, PTL DEF Spec, MarkInsteadOfDrop

-----------------------------------------------------------------------------
(* Probabilities *)

\* A quotient of a natural by a positive number is a natural.
LEMMA FDivPos ==
    ASSUME NEW x \in Nat, NEW d \in Int, d > 0
    PROVE  FDiv(x, d) \in Nat
<1>1. d \in Nat
  OBVIOUS
<1> QED  BY <1>1, FDivNat

\* The gentle line starts at the max_p that reset() saw, hence above 0.
LEMMA GentleNat ==
    ASSUME NEW a \in Nat, NEW max \in Nat \ {0}, a >= max,
           NEW g \in Nat, g <= One
    PROVE  FMul(One - g, FDiv(a, max)) + 2 * g - One >= 0
<1>1. One \in Nat \ {0} /\ One \in Nat /\ One - g \in Nat
  BY ScaleAssumption
<1>2. One * max <= a * One /\ a * One \in Nat
  <2>1. max <= a  OBVIOUS
  <2>2. One * max <= One * a  BY <1>1, <2>1, MulMono
  <2>3. One * a = a * One  BY <1>1
  <2> QED  BY <1>1, <2>2, <2>3, MulNat
<1>3. One <= (a * One) \div max
  BY <1>1, <1>2, DivBelow
<1>4. FDiv(a, max) = (a * One) \div max
  BY DEF FDiv
<1> DEFINE ratio == FDiv(a, max)
<1>5. ratio \in Nat /\ One <= ratio
  BY <1>3, <1>4, FDivNat
<1> HIDE DEF ratio
<1>6. (One - g) * One <= (One - g) * ratio /\ (One - g) * ratio \in Nat
  BY <1>1, <1>5, MulMono, MulNat
<1>7. One - g <= ((One - g) * ratio) \div One
  BY <1>1, <1>6, DivBelow
<1>8. One - g <= FMul(One - g, ratio) /\ FMul(One - g, ratio) \in Nat
  BY <1>1, <1>5, <1>7, FMulNat DEF FMul
<1> DEFINE share == FMul(One - g, ratio)
<1>9. share + 2 * g - One >= 0
  <2>1. share \in Nat /\ One - g <= share  BY <1>8
  <2> HIDE DEF share
  <2> QED  BY <1>1, <2>1
<1> QED  BY <1>9 DEF ratio

\* calculate_p_new() is a probability once the average has reached th_min.
LEMMA CalculateRange ==
    ASSUME TypeOK, NEW a \in Int, NEW max_p \in Nat, a >= th.min,
           gentle_p <= One, edp.gentle => th.max > 0
    PROVE  IsProbability(calculate_p_new(a, max_p))
<1>1. /\ th.min \in Nat /\ th.max \in Nat /\ gentle_p \in Nat
      /\ One \in Nat \ {0} /\ a \in Nat
  <2>1. th.min \in Nat /\ th.max \in Nat /\ gentle_p \in Nat
    BY EdpType DEF TypeOK, Thresholds
  <2> QED  BY <2>1, ScaleAssumption
<1> DEFINE diff == th.max - th.min
           span == IF diff = 0 THEN One ELSE diff
           line == FMul(FDiv(a - th.min, span), max_p)
           gentle_line == FMul(One - gentle_p, FDiv(a, th.max)) + 2 * gentle_p - One
           p == CASE edp.gentle /\ a >= th.max -> gentle_line
                  [] ~edp.gentle /\ a >= th.max -> One
                  [] a < th.max -> line
<1>2. calculate_p_new(a, max_p) = AtMost(p, One)
  BY DEF calculate_p_new
<1>3. CASE edp.gentle /\ a >= th.max
  <2>1. gentle_line >= 0
    BY <1>1, <1>3, GentleNat
  <2>2. gentle_line \in Int
    <3>0. FDiv(a, th.max) \in Nat
      BY <1>1, FDivNat
    <3>1. One - gentle_p \in Int /\ FDiv(a, th.max) \in Int
      BY <1>1, <3>0
    <3>2. FMul(One - gentle_p, FDiv(a, th.max)) \in Int
      BY <3>1, FMulInt
    <3> QED  BY <1>1, <3>2
  <2>3. p = gentle_line
    <3> HIDE DEF gentle_line, line
    <3>1. ~(a < th.max)  BY <1>1, <1>3
    <3> QED  BY <1>3, <3>1
  <2> HIDE DEF p, gentle_line
  <2> QED  BY <1>1, <1>2, <2>1, <2>2, <2>3 DEF AtMost, IsProbability
<1>4. CASE ~edp.gentle /\ a >= th.max
  <2>1. p = One
    <3> HIDE DEF gentle_line, line
    <3>1. ~(a < th.max)  BY <1>1, <1>4
    <3> QED  BY <1>4, <3>1
  <2> HIDE DEF p
  <2> QED  BY <1>1, <1>2, <2>1 DEF AtMost, IsProbability
<1>5. CASE a < th.max
  <2>1. span \in Int /\ span > 0 /\ a - th.min \in Nat
    BY <1>1, <1>5
  <2>2. FDiv(a - th.min, span) \in Nat
    <3> HIDE DEF span
    <3> QED  BY <2>1, FDivPos
  <2>3. line \in Nat
    <3> HIDE DEF span
    <3> QED  BY <2>2, FMulNat
  <2>4. p = line
    BY <1>1, <1>5
  <2> HIDE DEF p, line
  <2> QED  BY <1>1, <1>2, <2>3, <2>4 DEF AtMost, IsProbability
<1> QED  BY <1>1, <1>3, <1>4, <1>5

\* modify_p() turns a probability into a probability.
LEMMA ModifyRange ==
    ASSUME TypeOK, NEW p \in Int, IsProbability(p), NEW n \in Nat,
           NEW nb \in Nat, NEW sz \in Nat
    PROVE  IsProbability(modify_p(p, n, nb, sz))
<1> DEFINE n1 == IF edp.bytes THEN nb \div edp.mean_pktsize ELSE n
           np == n1 * p
           spread == CASE edp.wait /\ np < One -> 0
                       [] edp.wait /\ np >= One /\ np < 2 * One ->
                            FDiv(p, 2 * One - np)
                       [] ~edp.wait /\ np < One -> FDiv(p, One - np)
                       [] OTHER -> One
<1>1. edp.mean_pktsize \in Nat \ {0} /\ One \in Nat \ {0} /\ p \in Nat
  BY ScaleAssumption, EdpType DEF Config, IsProbability
<1>2. n1 \in Nat
  BY <1>1, DivNat
<1>3. np \in Nat
  <2> HIDE DEF n1
  <2> QED  BY <1>1, <1>2, MulNat
<1>4. modify_p(p, n, nb, sz) =
        IF edp.bytes /\ spread < One
        THEN AtMost((spread * sz) \div edp.mean_pktsize, One)
        ELSE AtMost(spread, One)
  BY DEF modify_p
<1>5. spread \in Nat
  <2> HIDE DEF np
  <2>1. np < 2 * One => FDiv(p, 2 * One - np) \in Nat
    <3> SUFFICES ASSUME np < 2 * One PROVE FDiv(p, 2 * One - np) \in Nat
        OBVIOUS
    <3>1. 2 * One - np \in Int /\ 2 * One - np > 0  BY <1>1, <1>3
    <3> QED  BY <1>1, <3>1, FDivPos
  <2>2. np < One => FDiv(p, One - np) \in Nat
    <3> SUFFICES ASSUME np < One PROVE FDiv(p, One - np) \in Nat
        OBVIOUS
    <3>1. One - np \in Int /\ One - np > 0  BY <1>1, <1>3
    <3> QED  BY <1>1, <3>1, FDivPos
  <2> QED  BY <1>1, <2>1, <2>2
<1> HIDE DEF spread
<1>6. (spread * sz) \div edp.mean_pktsize \in Nat
  <2>1. spread * sz \in Nat  BY <1>5, MulNat
  <2> QED  BY <1>1, <2>1, DivNat
<1> QED  BY <1>1, <1>4, <1>5, <1>6 DEF AtMost, IsProbability

\* What reset() must leave behind for the curve to be a probability: the
\* gentle line needs a threshold above 0 and a max_p of at most 1.0.
CurveInv ==
    /\ ready /\ edp.gentle => th.max > 0
    /\ edp.gentle /\ ~edp.linked => th.max_pkts > 0
    /\ gentle_p <= One
    /\ ProbRange

\* reset() establishes it again.
LEMMA ResetCurve ==
    ASSUME TypeOK, CurveInv, Reset
    PROVE  CurveInv'
<1>1. /\ th.min_pkts \in Nat /\ th.max_pkts \in Nat /\ edp.targetqueue \in Nat
      /\ edp.mean_pktsize \in Nat \ {0} /\ One \in Nat \ {0}
      /\ edp.max_p_inv \in Nat /\ edp.max_p_inv >= One
  <2>1. edp \in Configs  BY DEF TypeOK
  <2> QED  BY <2>1, ScaleAssumption, ThresholdAssumption, EdpType DEF Config, Thresholds
<1>2. FDiv(One, edp.max_p_inv) <= One
  <2>1. One * One <= One * edp.max_p_inv /\ One * One \in Nat
    BY <1>1, MulMono, MulNat
  <2>2. (One * One) \div edp.max_p_inv <= One
    BY <1>1, <2>1, DivBound
  <2> QED  BY <1>1, <2>2 DEF FDiv
<1>3. gentle_p' <= One
  BY <1>2 DEF Reset, CurveInv
<1>4. edp' = edp /\ th' = ResetThresholds(th) /\ prob1' = prob1 /\ prob' = prob
  BY DEF Reset
<1> DEFINE i == IF edp.linked THEN initialize_params(th) ELSE th
           max == IF i.max_pkts = 0 THEN 3 * i.min_pkts ELSE i.max_pkts
           unit == IF edp.qib THEN edp.mean_pktsize ELSE 1
<1>5. ResetThresholds(th).max_pkts = max /\ ResetThresholds(th).max = max * unit
  BY DEF ResetThresholds
<1>6. ASSUME edp.gentle PROVE max \in Nat \ {0}
  <2>1. CASE edp.linked
    <3>1. AtLeast(5 * One, edp.targetqueue \div 2) \in Nat \ {0}
      <4> DEFINE half == edp.targetqueue \div 2
      <4>1. half \in Nat /\ 5 * One \in Nat \ {0}
        BY <1>1, DivNat
      <4> HIDE DEF half
      <4>2. AtLeast(5 * One, half) \in Nat \ {0}
        BY <4>1 DEF AtLeast
      <4> QED  BY <4>2 DEF half
    <3>2. i.max_pkts \in Nat \ {0}
      BY <1>1, <2>1, <3>1 DEF initialize_params
    <3> HIDE DEF i
    <3> QED  BY <3>2
  <2>2. CASE ~edp.linked
    BY <1>1, <1>6, <2>2 DEF CurveInv
  <2> QED  BY <2>1, <2>2
<1>7. unit \in Nat \ {0}
  BY <1>1
<1> HIDE DEF max, unit
<1>8. ASSUME edp.gentle PROVE max * unit > 0
  BY <1>6, <1>7, <1>8
<1>9. edp'.gentle => th'.max > 0 /\ th'.max_pkts > 0
  BY <1>4, <1>5, <1>6, <1>8
<1>10. ProbRange'
  BY <1>4 DEF CurveInv, ProbRange, IsProbability
<1> QED  BY <1>3, <1>9, <1>10 DEF CurveInv

\* recv() preserves it.
LEMMA RecvCurve ==
    ASSUME TypeOK, CurveInv, NEW p \in Packets, Recv(p)
    PROVE  CurveInv'
<1>1. edp' = edp /\ th' = th /\ gentle_p' = gentle_p /\ ready' = ready
  BY RecvEffect
<1>2. SUFFICES ASSUME ~edp.is_modifiedRed
               PROVE  IsProbability(prob1') /\ IsProbability(prob')
  BY <1>1 DEF CurveInv, ProbRange, IsProbability
<1>3. PICK m \in IdleSlots, due \in BOOLEAN :
          LET a == estimator(m)
              max_p == AdaptedMaxP(a, due)
              n == count + 1
              nb == count_bytes + p.size
          IN  \/ NoEarlyDrop(p, a, max_p, n, nb)
              \/ AverageTooHigh(p, a, max_p, n, nb)
              \/ JustCrossed(p, a, max_p)
              \/ DropEarly(p, a, max_p, n, nb)
  BY DEF Recv
<1> DEFINE a == estimator(m)
           max_p == AdaptedMaxP(a, due)
           n == count + 1
           nb == count_bytes + p.size
<1>4. a \in Int
  BY EstimatorType
<1>5. max_p \in Nat
  BY <1>4, AdaptedType
<1>6. p.size \in Nat
  BY QueuedType
<1>7. n \in Nat /\ nb \in Nat
  BY <1>6 DEF TypeOK
<1>8. \/ NoEarlyDrop(p, a, max_p, n, nb)
      \/ AverageTooHigh(p, a, max_p, n, nb)
      \/ JustCrossed(p, a, max_p)
      \/ DropEarly(p, a, max_p, n, nb)
  BY <1>3
<1> HIDE DEF a, max_p, n, nb
<1>9. IsProbability(prob1) /\ IsProbability(prob) /\ IsProbability(0)
  BY <1>2, ScaleAssumption DEF CurveInv, ProbRange, IsProbability
<1>10. CASE NoEarlyDrop(p, a, max_p, n, nb)
  BY <1>9, <1>10 DEF NoEarlyDrop
<1>11. CASE AverageTooHigh(p, a, max_p, n, nb)
  BY <1>9, <1>11 DEF AverageTooHigh
<1>12. CASE JustCrossed(p, a, max_p)
  BY <1>9, <1>12 DEF JustCrossed
<1>13. CASE DropEarly(p, a, max_p, n, nb)
  <2> DEFINE p1 == calculate_p_new(a, max_p)
             pr == modify_p(p1, n, nb, p.size)
  <2>1. prob1' = p1 /\ prob' = pr /\ a >= th.min
    BY <1>2, <1>13 DEF DropEarly, calculate_p, EarlyDropZone
  <2>2. ready /\ gentle_p <= One /\ (edp.gentle => th.max > 0)
    BY DEF Recv, CurveInv
  <2>3. IsProbability(p1)
    BY <1>4, <1>5, <2>1, <2>2, CalculateRange
  <2>4. p1 \in Int
    BY <1>2, <1>4, <1>5, <1>7, CalculateType DEF calculate_p
  <2>5. IsProbability(pr)
    <3> HIDE DEF p1
    <3> QED  BY <1>6, <1>7, <2>3, <2>4, ModifyRange
  <2> QED  BY <2>1, <2>3, <2>5
<1> QED  BY <1>8, <1>10, <1>11, <1>12, <1>13

\* In every variant of RED but NARED, what drop_early() compares with its
\* random number is a probability, for all thresholds that are not inverted
\* and every max_p of at most 1.0.
THEOREM ProbabilitiesInRange == Spec => []ProbRange
<1>1. Init => CurveInv
  <2> SUFFICES ASSUME Init PROVE CurveInv
      OBVIOUS
  <2>1. edp \in Configs /\ th.max_pkts = edp.th_max_pkts /\ ~ready
    BY DEF Init
  <2>2. edp.gentle /\ ~edp.linked => th.max_pkts > 0
    BY <2>1, ThresholdAssumption
  <2>3. gentle_p <= One /\ ProbRange
    BY ScaleAssumption DEF Init, ProbRange, IsProbability
  <2> QED  BY <2>1, <2>2, <2>3 DEF CurveInv
<1>2. TypeOK /\ CurveInv /\ [Next]_vars => CurveInv'
  <2> SUFFICES ASSUME TypeOK, CurveInv, [Next]_vars PROVE CurveInv'
      OBVIOUS
  <2>1. CASE \E p \in Packets : Recv(p)
    BY <2>1, RecvCurve
  <2>2. CASE Resume
    BY <2>2 DEF Resume, CurveInv, ProbRange, IsProbability, edv
  <2>3. CASE Reset
    BY <2>3, ResetCurve
  <2>4. CASE UNCHANGED vars
    BY <2>4 DEF CurveInv, ProbRange, IsProbability, vars, edv
  <2> QED  BY <2>1, <2>2, <2>3, <2>4 DEF Next, Arrive
<1>3. CurveInv => ProbRange
  BY DEF CurveInv
<1> QED  BY <1>1, <1>2, <1>3, TypeCorrect, PTL DEF Spec

-----------------------------------------------------------------------------
(* A drop probability of 1 *)

\* Then modify_p() has nothing to spread: the next packet goes, with wait_ or
\* without it, whatever the tally.
LEMMA SureSpread ==
    ASSUME ~edp.bytes, NEW n \in Nat \ {0}, NEW nb, NEW sz
    PROVE  modify_p(One, n, nb, sz) = One
<1> DEFINE np == n * One
           spread == CASE edp.wait /\ np < One -> 0
                       [] edp.wait /\ np >= One /\ np < 2 * One ->
                            FDiv(One, 2 * One - np)
                       [] ~edp.wait /\ np < One -> FDiv(One, One - np)
                       [] OTHER -> One
<1>1. One \in Nat \ {0}
  BY ScaleAssumption
<1>2. modify_p(One, n, nb, sz) = AtMost(spread, One)
  BY DEF modify_p
<1>3. np = One \/ np >= 2 * One
  <2>1. CASE n = 1
    BY <1>1, <2>1
  <2>2. CASE n # 1
    <3>1. 2 \in Nat /\ n \in Nat /\ One \in Nat /\ 2 <= n
      BY <1>1, <2>2
    <3> QED  BY <3>1, MulMono
  <2> QED  BY <2>1, <2>2
<1>4. np \in Nat
  BY <1>1, MulNat
<1> HIDE DEF np
<1>5. FDiv(One, 2 * One - One) = One
  <2>1. 2 * One - One = One /\ One > 0
    BY <1>1
  <2>2. (One * One) \div One = One
    BY <1>1
  <2> QED  BY <2>1, <2>2 DEF FDiv
<1>6. spread = One
  <2>1. CASE np = One
    BY <1>1, <1>5, <2>1
  <2>2. CASE np >= 2 * One
    <3>1. ~(np < One) /\ ~(np < 2 * One)
      BY <1>1, <1>4, <2>2
    <3> QED  BY <3>1
  <2> QED  BY <1>3, <2>1, <2>2
<1> HIDE DEF spread
<1> QED  BY <1>1, <1>2, <1>6 DEF AtMost

\* drop_early() then decides to drop, whatever its random number is.
LEMMA SureDrop ==
    ASSUME ~edp.bytes, ~edp.setbit, edp.cautious = 0,
           NEW p, NEW a, NEW max_p, NEW n \in Nat \ {0}, NEW nb,
           \A mp : calculate_p(a, n, mp) = One,
           DropEarly(p, a, max_p, n, nb)
    PROVE  UnforcedDrop(p)
<1> DEFINE mp == IF edp.is_modifiedRed /\ OnCurve(a) THEN NaredMaxP(a, max_p) ELSE max_p
           p1 == calculate_p(a, n, mp)
           pr == modify_p(p1, n, nb, p.size)
<1>1. \/ MaySpare(a, pr)
      \/ UnforcedDrop(p)
  BY DEF DropEarly
<1>2. p1 = One
  OBVIOUS
<1>3. pr = One
  BY <1>2, SureSpread
<1> HIDE DEF pr
<1>4. ~MaySpare(a, pr)
  BY <1>3, ScaleAssumption DEF MaySpare
<1> QED  BY <1>1, <1>4

\* recv() does not add to what enque() left.
LEMMA HandOffShortens ==
    ASSUME NEW t \in Seq(Queued), NEW b, HandOff(t, b)
    PROVE  q' \in Seq(Queued) /\ Len(q') <= Len(t)
<1>1. q' = t \/ (t # << >> /\ q' = Tail(t))
  BY DEF HandOff
<1> QED  BY <1>1

\* A random drop costs one packet, and the queue does not grow.
LEMMA UnforcedCost ==
    ASSUME TypeOK, NEW p \in Packets, UnforcedDrop(p)
    PROVE  dropped' = dropped + 1 /\ Len(q') <= Len(q)
<1>0. q \in Seq(Queued) /\ Len(q) \in Nat /\ p \in Queued
  BY QueuedType DEF TypeOK
<1>1. dropped' = dropped + 1
  BY DEF UnforcedDrop, ForcedDrop
<1>2. PICK t \in Seq(Queued) : (\E b : HandOff(t, b)) /\ Len(t) = Len(q)
  <2>1. CASE ~Full
    BY <1>0, <2>1 DEF UnforcedDrop
  <2>2. CASE Full
    <3> DEFINE s == Append(q, p)
    <3>1. PICK i \in pickPacketToDrop(Len(s)) :
              HandOff(RemoveAt(s, i), bytes + p.size - s[i].size)
      BY <2>2 DEF UnforcedDrop, ForcedDrop
    <3>2. s \in Seq(Queued) /\ Len(s) = Len(q) + 1
      BY <1>0
    <3> HIDE DEF s
    <3>3. i \in 1 .. Len(s)
      BY <1>0, <3>2, VictimRange
    <3>4. RemoveAt(s, i) \in Seq(Queued) /\ Len(RemoveAt(s, i)) = Len(s) - 1
      BY <3>2, <3>3, RemoveAtShape
    <3> QED  BY <1>0, <3>1, <3>2, <3>4
  <2> QED  BY <2>1, <2>2
<1>3. PICK b : HandOff(t, b)
  BY <1>2
<1>4. Len(q') <= Len(t)
  BY <1>3, HandOffShortens
<1> QED  BY <1>0, <1>1, <1>2, <1>4

-----------------------------------------------------------------------------
(* NARED above the buffer size *)

\* The report on NARED: "if Qavg > bufsize, then p=1": every packet that
\* drop_early() looks at then costs one, for all thresholds, every max_p and
\* every tally.
THEOREM NaredDropsAll == Spec => NaredDropsAboveBuffer
<1> DEFINE Drops == ComputesP /\ edp.is_modifiedRed /\ ave' >= Buffer /\ edp.cautious = 0
                    /\ ~edp.bytes /\ ~edp.setbit => dropped' = dropped + 1
<1>1. TypeOK /\ [Next]_vars => [Drops]_vars
  <2> SUFFICES ASSUME TypeOK, Next, ComputesP, edp.is_modifiedRed, ave' >= Buffer,
                      edp.cautious = 0, ~edp.bytes, ~edp.setbit
               PROVE  dropped' = dropped + 1
      BY DEF vars
  <2>1. PICK p \in Packets : Recv(p)
    BY DEF ComputesP, Next, Arrive, Resume, Reset
  <2>2. PICK m \in IdleSlots, due \in BOOLEAN :
          LET a == estimator(m)
              max_p == AdaptedMaxP(a, due)
              n == count + 1
              nb == count_bytes + p.size
          IN  /\ ave' = a
              /\ \/ NoEarlyDrop(p, a, max_p, n, nb)
                 \/ AverageTooHigh(p, a, max_p, n, nb)
                 \/ JustCrossed(p, a, max_p)
                 \/ DropEarly(p, a, max_p, n, nb)
    BY <2>1 DEF Recv
  <2> DEFINE a == estimator(m)
             max_p == AdaptedMaxP(a, due)
             n == count + 1
             nb == count_bytes + p.size
  <2>3. /\ ave' = a
        /\ \/ NoEarlyDrop(p, a, max_p, n, nb)
           \/ AverageTooHigh(p, a, max_p, n, nb)
           \/ JustCrossed(p, a, max_p)
           \/ DropEarly(p, a, max_p, n, nb)
    BY <2>2
  <2>4. a \in Int /\ n \in Nat \ {0}
    BY EstimatorType DEF TypeOK
  <2> HIDE DEF a, max_p, n, nb
  <2>5. DropEarly(p, a, max_p, n, nb)
    BY <2>3 DEF ComputesP, NoEarlyDrop, AverageTooHigh, JustCrossed
  <2>6. a >= th.min /\ a >= Buffer
    BY <2>3 DEF ComputesP, EarlyDropZone
  <2>7. ASSUME NEW mp PROVE calculate_p(a, n, mp) = One
    <3>1. th.min \in Int /\ Buffer \in Int /\ One \in Int
      <4>1. edp.buffer_size \in Nat /\ One \in Nat /\ th.min \in Nat
        BY EdpType, ScaleAssumption DEF Config, Thresholds
      <4> QED  BY <4>1, MulNat DEF Buffer
    <3>2. ~(a < th.min)
      BY <2>4, <2>6, <3>1
    <3>3. calculate_p_modifiedRed(a, n, mp) = AtMost(One, One)
      BY <2>6, <3>2 DEF calculate_p_modifiedRed
    <3> QED  BY <3>1, <3>3 DEF calculate_p, AtMost
  <2>8. UnforcedDrop(p)
    BY <2>4, <2>5, <2>7, SureDrop
  <2> QED  BY <2>1, <2>8, UnforcedCost
<1> QED  BY <1>1, TypeCorrect, PTL DEF Spec, NaredDropsAboveBuffer

-----------------------------------------------------------------------------
(* A queue that was never told its link *)

\* Once reset() has run both thresholds are 0.  The third packet is the one that
\* crosses the lower one: two wait, and the flag old is not set yet.
DepthInv ==
    Unlinked =>
        /\ ready => th.min = 0 /\ th.max = 0
        /\ Len(q) <= 2 \/ (old /\ Len(q) <= 3)

\* A packet that is stored makes the queue at most one longer.
LEMMA StoreCost ==
    ASSUME TypeOK, NEW p \in Packets, NEW forced \in BOOLEAN, NEW n, NEW nb,
           forced => QSize > 1, Store(p, forced, n, nb)
    PROVE  Len(q') <= Len(q) + 1 /\ (forced => Len(q') <= Len(q))
<1>0. q \in Seq(Queued) /\ Len(q) \in Nat /\ p \in Queued
  BY QueuedType DEF TypeOK
<1>1. CASE ~forced /\ ~Full
  <2>1. HandOff(Append(q, p), bytes + p.size)
    BY <1>1 DEF Store
  <2> DEFINE t == Append(q, p)
             b == bytes + p.size
  <2>2. t \in Seq(Queued) /\ Len(t) = Len(q) + 1
    BY <1>0
  <2> HIDE DEF t, b
  <2>3. Len(q') <= Len(t)
    BY <2>1, <2>2, HandOffShortens DEF t, b
  <2> QED  BY <1>0, <1>1, <2>2, <2>3
<1>2. CASE forced \/ Full
  <2> DEFINE s == Append(q, p)
  <2>1. PICK i \in pickPacketToDrop(Len(s)) :
            HandOff(RemoveAt(s, i), bytes + p.size - s[i].size)
    BY <1>2 DEF Store, ForcedDrop
  <2>2. s \in Seq(Queued) /\ Len(s) = Len(q) + 1
    BY <1>0
  <2> HIDE DEF s
  <2>3. i \in 1 .. Len(s)
    BY <1>0, <2>2, VictimRange
  <2>4. RemoveAt(s, i) \in Seq(Queued) /\ Len(RemoveAt(s, i)) = Len(s) - 1
    BY <2>2, <2>3, RemoveAtShape
  <2> DEFINE t == RemoveAt(s, i)
             b == bytes + p.size - s[i].size
  <2> HIDE DEF t, b
  <2>5. q' \in Seq(Queued) /\ Len(q') <= Len(t)
    BY <2>1, <2>4, HandOffShortens DEF t, b
  <2>6. Len(t) = Len(q)
    BY <1>0, <2>2, <2>4 DEF t
  <2>7. Len(q') \in Int
    BY <2>5
  <2> QED  BY <1>0, <2>5, <2>6, <2>7
<1> QED  BY <1>1, <1>2

\* An arrival at a queue of two packets sets old, one at a queue of three is dropped.
LEMMA RecvDepth ==
    ASSUME Inv, AveInv, DepthInv, Unlinked, NEW p \in Packets, Recv(p)
    PROVE  Len(q') <= 2 \/ (old' /\ Len(q') <= 3)
<1>0. /\ TypeOK /\ WithinLimit /\ q \in Seq(Queued) /\ Len(q) \in Nat /\ old \in BOOLEAN
      /\ count \in Nat /\ TypeOK'
  BY RecvTypes DEF Inv, TypeOK
<1>1. th.min = 0 /\ th.max = 0 /\ (Len(q) <= 2 \/ (old /\ Len(q) <= 3))
  BY DEF DepthInv, Recv
<1>2. PICK m \in IdleSlots, due \in BOOLEAN :
        LET a == estimator(m)
            max_p == AdaptedMaxP(a, due)
            n == count + 1
            nb == count_bytes + p.size
        IN  \/ NoEarlyDrop(p, a, max_p, n, nb)
            \/ AverageTooHigh(p, a, max_p, n, nb)
            \/ JustCrossed(p, a, max_p)
            \/ DropEarly(p, a, max_p, n, nb)
  BY DEF Recv
<1> DEFINE a == estimator(m)
           max_p == AdaptedMaxP(a, due)
           n == count + 1
           nb == count_bytes + p.size
<1>3. \/ NoEarlyDrop(p, a, max_p, n, nb)
      \/ AverageTooHigh(p, a, max_p, n, nb)
      \/ JustCrossed(p, a, max_p)
      \/ DropEarly(p, a, max_p, n, nb)
  BY <1>2
<1>4. a \in Nat /\ n \in Nat \ {0}
  <2>1. ~edp.qib
    BY DEF Unlinked
  <2> QED  BY <1>0, <2>1, EstimatorBounded
<1>5. Len(q') \in Nat /\ QSize = Len(q)
  <2>1. q' \in Seq(Queued)
    BY <1>0 DEF TypeOK
  <2> QED  BY <2>1 DEF QSize, Unlinked
<1>6. EarlyDropZone(a) <=> Len(q) > 1
  <2> HIDE DEF a
  <2> QED  BY <1>1, <1>4, <1>5 DEF EarlyDropZone
<1> HIDE DEF a, max_p, n, nb
<1> DEFINE no == FALSE
           yes == TRUE
<1>7. CASE NoEarlyDrop(p, a, max_p, n, nb)
  <2>1. Len(q) <= 1 /\ Store(p, no, n, nb)
    <3>1. ~EarlyDropZone(a) /\ Store(p, no, n, nb)
      BY <1>7, Zenon DEF NoEarlyDrop
    <3>2. ~(Len(q) > 1)
      BY <1>6, <3>1, Zenon
    <3>3. Len(q) <= 1
      BY <1>0, <3>2
    <3> QED  BY <3>1, <3>3
  <2>2. no \in BOOLEAN /\ (no => QSize > 1)
    OBVIOUS
  <2> HIDE DEF no
  <2>3. Len(q') <= Len(q) + 1
    BY <1>0, <2>1, <2>2, StoreCost
  <2> QED  BY <1>0, <1>5, <2>1, <2>3
<1>8. CASE AverageTooHigh(p, a, max_p, n, nb)
  <2>1. QSize > 1 /\ Store(p, yes, n, nb) /\ old' = old
    BY <1>5, <1>6, <1>8 DEF AverageTooHigh
  <2>2. yes \in BOOLEAN /\ yes
    OBVIOUS
  <2> HIDE DEF yes
  <2>3. Len(q') <= Len(q)
    BY <1>0, <2>1, <2>2, StoreCost
  <2> QED  BY <1>0, <1>1, <1>5, <2>1, <2>3
<1>9. CASE JustCrossed(p, a, max_p)
  <2> DEFINE one == 1
             size == p.size
  <2>1. ~old /\ old' /\ Store(p, no, one, size)
    BY <1>9 DEF JustCrossed
  <2>2. no \in BOOLEAN /\ (no => QSize > 1)
    OBVIOUS
  <2> HIDE DEF no, one, size
  <2>3. Len(q') <= Len(q) + 1
    BY <1>0, <2>1, <2>2, StoreCost
  <2> QED  BY <1>0, <1>1, <1>5, <2>1, <2>3
<1>10. CASE DropEarly(p, a, max_p, n, nb)
  <2>1. old /\ old' = old
    BY <1>10 DEF DropEarly
  <2>2. ASSUME NEW mp PROVE calculate_p(a, n, mp) = One
    <3>1. One \in Int /\ ~edp.is_modifiedRed /\ ~edp.gentle /\ a >= th.max /\ ~(a < th.max)
      BY <1>1, <1>4, ScaleAssumption DEF Unlinked
    <3>2. calculate_p_new(a, mp) = AtMost(One, One)
      BY <3>1 DEF calculate_p_new
    <3> QED  BY <3>1, <3>2 DEF calculate_p, AtMost
  <2>3. UnforcedDrop(p)
    BY <1>4, <1>10, <2>2, SureDrop DEF Unlinked
  <2>4. Len(q') <= Len(q)
    BY <1>0, <2>3, UnforcedCost
  <2> QED  BY <1>0, <1>1, <1>5, <2>1, <2>4
<1> QED  BY <1>3, <1>7, <1>8, <1>9, <1>10

\* A queue without a link whose thresholds reset() left at 0 never holds more than
\* three packets, for every limit, max_p, weight and order of arrivals.
THEOREM UnlinkedStaysShort == Spec => []UnlinkedDepth
<1>1. Init => DepthInv
  BY DEF Init, DepthInv
<1>2. Inv /\ AveInv /\ DepthInv /\ [Next]_vars => DepthInv'
  <2> SUFFICES ASSUME Inv, AveInv, DepthInv, [Next]_vars, Unlinked'
               PROVE  /\ ready' => th'.min = 0 /\ th'.max = 0
                      /\ Len(q') <= 2 \/ (old' /\ Len(q') <= 3)
      BY DEF DepthInv
  <2>1. TypeOK /\ q \in Seq(Queued) /\ Len(q) \in Nat
    BY DEF Inv, TypeOK
  <2>2. CASE \E p \in Packets : Recv(p)
    <3>1. PICK p \in Packets : Recv(p)
      BY <2>2
    <3>2. edp' = edp /\ th' = th /\ ready
      BY <3>1 DEF Recv
    <3>3. Unlinked
      BY <3>2 DEF Unlinked
    <3> QED  BY <3>1, <3>2, <3>3, RecvDepth DEF DepthInv
  <2>3. CASE Resume
    <3>1. /\ edp' = edp /\ th' = th /\ ready' = ready /\ old' = old
          /\ q' = q \/ (q # << >> /\ q' = Tail(q))
      BY <2>3 DEF Resume, edv
    <3>2. Unlinked
      BY <3>1 DEF Unlinked
    <3>3. Len(q') \in Nat /\ Len(q') <= Len(q)
      BY <2>1, <3>1
    <3> QED  BY <2>1, <3>1, <3>2, <3>3 DEF DepthInv
  <2>4. CASE Reset
    <3>1. q' = << >> /\ edp' = edp /\ th' = ResetThresholds(th)
      BY <2>4 DEF Reset
    <3>2. ~edp.linked /\ ~edp.qib /\ th'.max_pkts = 0
      BY <3>1 DEF Unlinked
    <3>3. th.min_pkts \in Nat /\ th.max_pkts \in Nat
      BY <2>1, EdpType DEF Thresholds
    <3>4. /\ th'.max_pkts = IF th.max_pkts = 0 THEN 3 * th.min_pkts ELSE th.max_pkts
          /\ th'.min = th.min_pkts * 1
          /\ th'.max = (IF th.max_pkts = 0 THEN 3 * th.min_pkts ELSE th.max_pkts) * 1
      BY <3>1, <3>2 DEF ResetThresholds
    <3>5. th'.min = 0 /\ th'.max = 0
      BY <3>2, <3>3, <3>4
    <3> QED  BY <3>1, <3>5
  <2>5. CASE UNCHANGED vars
    BY <2>5 DEF vars, edv, DepthInv, Unlinked
  <2> QED  BY <2>2, <2>3, <2>4, <2>5 DEF Next, Arrive
<1>3. TypeOK /\ DepthInv => UnlinkedDepth
  <2> SUFFICES ASSUME TypeOK, DepthInv, Unlinked PROVE Len(q) <= 3
    BY DEF UnlinkedDepth
  <2>1. Len(q) \in Nat
    BY DEF TypeOK
  <2> QED  BY <2>1 DEF DepthInv
<1> QED  BY <1>1, <1>2, <1>3, Invariance, AveInvariance, TypeCorrect, PTL DEF Spec
=============================================================================
