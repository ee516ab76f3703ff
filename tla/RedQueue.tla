------------------------------ MODULE RedQueue ------------------------------
(***************************************************************************)
(* Class REDQueue (src/ns-2.35/queue/red.cc, red.h) on top of class Queue  *)
(* (queue.cc): Random Early Detection, its gentle, adaptive, Feng and      *)
(* cautious variants, ECN marking, and the project's own NARED variant     *)
(* (modified_red_, the lines marked "Changed").                            *)
(*                                                                         *)
(* A double of the code is an integer number of 1/One here: One stands for *)
(* 1.0, and products and quotients are rounded down.  Packet counts, byte  *)
(* counts and sizes are plain integers.  The random draw of drop_early()   *)
(* is a choice between the outcomes the draw can have; the clock only      *)
(* decides how long an idle period was and whether the adaptation interval *)
(* is over, and both are chosen freely.                                    *)
(***************************************************************************)
EXTENDS PacketBytes, SequencesExt

CONSTANTS
    One,          \* the fixed-point representation of 1.0
    Weight,       \* edp_.q_w as initialize_params() leaves it, times One
    MaxIdle,      \* bound: the longest idle period, in packet times
    Keep,         \* Keep[m]: the m-th power of 1 - Weight
    Configs,      \* the early-drop parameters a script may bind
    Packets,      \* the packets that may arrive
    Traffic,      \* Traffic[g]: those that arrive at a queue with parameters g
    Reopens,      \* unblock_on_resume_
    MaxArrivals   \* bound: how many packets arrive in a behaviour

VARIABLES
    edp,          \* early-drop parameters and flags, as the script binds them
    th,           \* the thresholds among them, which reset() rewrites
    q,            \* q_: the packets waiting, oldest first
    bytes,        \* q_->byteLength()
    out,          \* packets at target_ whose QueueHandler has not run
    blocked,      \* blocked_
    idle,         \* idle_
    ave,          \* edv_.v_ave
    count,        \* edv_.count
    count_bytes,  \* edv_.count_bytes
    old,          \* edv_.old
    cur_max_p,    \* edv_.cur_max_p
    gentle_p,     \* the max_p that reset() folded into edv_.v_c and v_d
    prob1,        \* edv_.v_prob1
    prob,         \* edv_.v_prob
    status,       \* edv_.status, which nothing initialises
    ready,        \* reset() has run: the simulator resets queues first
    arrived, sent, dropped   \* packets received, handed on, thrown away

edv == <<ave, count, count_bytes, old, cur_max_p, prob1, prob, status>>
vars == <<edp, th, q, bytes, out, blocked, idle, edv, gentle_p, ready,
          arrived, sent, dropped>>

-----------------------------------------------------------------------------
(* Parameters *)

Statuses == {"Above", "Below", "Between"}
Victim == {"tail", "front", "rand"}

Config ==
    [bytes : BOOLEAN, qib : BOOLEAN, wait : BOOLEAN, setbit : BOOLEAN,
     gentle : BOOLEAN, use_mark_p : BOOLEAN, adaptive : BOOLEAN,
     feng_adaptive : BOOLEAN, is_modifiedRed : BOOLEAN, linked : BOOLEAN,
     ns1_compat : BOOLEAN, drop : Victim, cautious : 0 .. 3,
     mark_p : Nat, alpha : Nat, beta : Nat, top : Nat, bottom : Nat,
     auto_bottom : Nat, targetqueue : Nat, fraction : 0 .. One,
     mean_pktsize : Nat \ {0}, buffer_size : Nat, qlim : Nat,
     th_min_pkts : Nat, th_max_pkts : Nat, th_min : Nat, th_max : Nat,
     max_p_inv : Nat]

Thresholds ==
    [min_pkts : Nat, max_pkts : Nat, min : Nat, max : Nat, bottom : Nat]

Packet == [size : Nat \ {0}, ect : BOOLEAN, ce : BOOLEAN]
Mark(p) == [p EXCEPT !.ce = TRUE]
\* The packets a queue can hold: drop_early() may have marked them.
Queued == Packets \cup {Mark(p) : p \in Packets}

ASSUME ScaleAssumption ==
    /\ One \in Nat \ {0}
    /\ Weight \in 0 .. One

\* Keep tabulates the loop of estimator(): one factor per pretended packet.
ASSUME KeepAssumption ==
    /\ MaxIdle \in Nat
    /\ Keep \in [0 .. MaxIdle -> 0 .. One]
    /\ Keep[0] = One
    /\ \A m \in 1 .. MaxIdle : Keep[m] = (Keep[m - 1] * (One - Weight)) \div One

ASSUME ConfigAssumption ==
    /\ Configs \subseteq Config
    /\ Packets \subseteq Packet
    /\ Traffic \in [Configs -> SUBSET Packets]
    /\ Reopens \in BOOLEAN
    /\ MaxArrivals \in Nat

\* linterm_ is at least 1 (max_p is at most 1.0) and no threshold is inverted.
ASSUME ThresholdAssumption ==
    \A c \in Configs :
        /\ c.max_p_inv >= One
        /\ c.th_max_pkts = 0 \/ c.th_min_pkts <= c.th_max_pkts
        /\ c.th_min_pkts = 0 => c.th_max_pkts = 0
        /\ c.gentle => c.linked \/ c.th_max_pkts > 0

-----------------------------------------------------------------------------
(* Fixed-point arithmetic *)

FMul(a, b) == (a * b) \div One

\* A quotient by zero is the infinity of the doubles: beyond every probability.
FDiv(a, b) ==
    IF b > 0 THEN (a * One) \div b
    ELSE IF b < 0 THEN ((-a) * One) \div (-b)
    ELSE IF a > 0 THEN One * One ELSE 0

AtMost(x, bound) == IF x > bound THEN bound ELSE x
AtLeast(x, bound) == IF x < bound THEN bound ELSE x

-----------------------------------------------------------------------------
(* The underlying queue *)

QSize == IF edp.qib THEN bytes ELSE Len(q)
QLimit == IF edp.qib THEN edp.qlim * edp.mean_pktsize ELSE edp.qlim
\* Mutant: one packet too many.
FullLate == QSize > QLimit
Full == QSize >= QLimit

\* pickPacketToDrop(): where in a queue of n packets the victims may stand.
\* The code counts from 0, a sequence from 1.
pickPacketToDrop(n) ==
    CASE edp.drop = "front" -> {AtMost(2, n)}
      [] edp.drop = "rand"  -> 1 .. n
      [] edp.drop = "tail"  -> {n}

-----------------------------------------------------------------------------
(* The average and the adaptation of max_p *)

\* How many packets could have been sent while the queue was idle.
IdleSlots == IF idle /\ edp.linked THEN 0 .. MaxIdle ELSE {0}

\* Mutant: the old average keeps its full weight.
estimatorHeavy(m) ==
    (IF edp.is_modifiedRed THEN ave ELSE FMul(ave, Keep[m])) + Weight * QSize

\* estimator(): NARED does not let the average decay over an idle period.
estimator(m) ==
    LET decayed == IF edp.is_modifiedRed THEN ave ELSE FMul(ave, Keep[m])
    IN  FMul(decayed, One - Weight) + Weight * QSize

FengStatus(a) ==
    IF th.min < a /\ a < th.max THEN "Between"
    ELSE IF a < th.min THEN "Below"
    ELSE IF a > th.max THEN "Above" ELSE status

updateMaxPFeng(a) ==
    CASE a < th.min /\ status # "Below" -> FDiv(cur_max_p, edp.alpha)
      [] a > th.max /\ status # "Above" -> FMul(cur_max_p, edp.beta)
      [] OTHER -> cur_max_p

updateMaxP(a) ==
    LET part == (4 * (th.max - th.min)) \div 10
    IN  CASE a < th.min + part /\ cur_max_p > th.bottom ->
               FMul(cur_max_p, edp.beta)
          [] ~(a < th.min + part /\ cur_max_p > th.bottom)
             /\ a > th.max - part /\ edp.top > cur_max_p ->
               cur_max_p + AtMost(edp.alpha, cur_max_p \div 4)
          [] OTHER -> cur_max_p

\* The max_p the estimator leaves; due: the adaptation interval is over.
AdaptedMaxP(a, due) ==
    IF ~edp.adaptive THEN cur_max_p
    ELSE IF edp.feng_adaptive THEN updateMaxPFeng(a)
    ELSE IF due THEN updateMaxP(a) ELSE cur_max_p

-----------------------------------------------------------------------------
(* The drop probability *)

\* calculate_p_new(): linear up to th_max, then 1.0, or gently up to 1.0.
calculate_p_new(a, max_p) ==
    LET diff == th.max - th.min
        span == IF diff = 0 THEN One ELSE diff
        p == CASE edp.gentle /\ a >= th.max ->
                    FMul(One - gentle_p, FDiv(a, th.max)) + 2 * gentle_p - One
               [] ~edp.gentle /\ a >= th.max -> One
               [] a < th.max -> FMul(FDiv(a - th.min, span), max_p)
    IN  AtMost(p, One)

Cube(x) == FMul(FMul(x, x), x)
Buffer == edp.buffer_size * One
\* NARED computes a curve only between th_min and the buffer size.
OnCurve(a) == th.min <= a /\ a < Buffer

\* The adjustment of max_p in calculate_p_modifiedRed().
NaredMaxP(a, max_p) ==
    LET span == Buffer - th.min
    IN  CASE a < th.min + (4 * span) \div 10 -> (9 * max_p) \div 10
          [] a > th.min + (6 * span) \div 10 ->
               max_p + AtMost(One \div 100, max_p \div 4)
          [] OTHER -> max_p

\* calculate_p_modifiedRed(), max_p being adjusted already; n is edv_.count.
calculate_p_modifiedRed(a, n, max_p) ==
    LET num == FMul(max_p, Cube(a - th.min))
        den == FMul(One - max_p, Cube(Buffer - th.min))
               + FMul(max_p, Cube(a - max_p))
        temp_p == FDiv(num, den)
        p == CASE a < th.min -> 0
               [] a >= Buffer /\ a >= th.min -> One
               [] OTHER -> FDiv(temp_p, One - n * temp_p)
    IN  AtMost(p, One)

calculate_p(a, n, max_p) ==
    IF edp.is_modifiedRed
    THEN calculate_p_modifiedRed(a, n, max_p)
    ELSE calculate_p_new(a, max_p)

\* Mutant: "at most" for "below".
modify_pLate(p, n, nb, s) == IF n * p <= One THEN 0 ELSE One

\* modify_p(): spread the drops evenly.  n packets (or the packets' worth of
\* nb bytes) have arrived since the last drop, this one of size s included.
modify_p(p, n, nb, s) ==
    LET n1 == IF edp.bytes THEN nb \div edp.mean_pktsize ELSE n
        spread == CASE edp.wait /\ n1 * p < One -> 0
                    [] edp.wait /\ n1 * p >= One /\ n1 * p < 2 * One ->
                         FDiv(p, 2 * One - n1 * p)
                    [] ~edp.wait /\ n1 * p < One -> FDiv(p, One - n1 * p)
                    [] OTHER -> One
    IN  IF edp.bytes /\ spread < One
        THEN AtMost((spread * s) \div edp.mean_pktsize, One)
        ELSE AtMost(spread, One)

-----------------------------------------------------------------------------
(* Queue::recv() after enque() has made the queue s, b bytes long *)

\* Mutant: the queue is not blocked by the packet it hands on.
HandOffOpen(s, b) ==
    /\ UNCHANGED blocked
    /\ IF blocked \/ s = <<>>
       THEN q' = s /\ bytes' = b /\ idle' = ~blocked /\ UNCHANGED <<out, sent>>
       ELSE /\ q' = Tail(s)
            /\ bytes' = b - Head(s).size
            /\ idle' = FALSE
            /\ out' = Append(out, Head(s))
            /\ sent' = sent + 1

HandOff(s, b) ==
    \/ /\ blocked
       /\ q' = s
       /\ bytes' = b
       /\ idle' = FALSE
       /\ UNCHANGED <<out, blocked, sent>>
    \/ /\ ~blocked
       /\ s # <<>>
       /\ q' = Tail(s)
       /\ bytes' = b - Head(s).size
       /\ idle' = FALSE
       /\ blocked' = TRUE
       /\ out' = Append(out, Head(s))
       /\ sent' = sent + 1
    \/ /\ ~blocked
       /\ s = <<>>
       /\ q' = s
       /\ bytes' = b
       /\ idle' = TRUE
       /\ UNCHANGED <<out, blocked, sent>>

-----------------------------------------------------------------------------
(* The end of enque(): store the packet, or drop one *)

\* Mutant: the size of the arriving packet subtracted instead of the victim's.
ForcedDropSize(p, n, nb) ==
    /\ dropped' = dropped + 1
    /\ count' = 0
    /\ count_bytes' = 0
    /\ LET s == Append(q, p)
       IN  \E i \in pickPacketToDrop(Len(s)) : HandOff(RemoveAt(s, i), bytes)

\* Append p, then throw a victim away.  n and nb: the tally so far.
ForcedDrop(p, n, nb) ==
    /\ dropped' = dropped + 1
    /\ count' = IF edp.ns1_compat THEN n ELSE 0
    /\ count_bytes' = IF edp.ns1_compat THEN nb ELSE 0
    /\ LET s == Append(q, p)
       IN  \E i \in pickPacketToDrop(Len(s)) :
               HandOff(RemoveAt(s, i), bytes + p.size - s[i].size)

\* The packet stays, unless the average or the hard limit forces a drop.
Store(p, forced, n, nb) ==
    \/ /\ forced \/ Full
       /\ ForcedDrop(p, n, nb)
    \/ /\ ~forced /\ ~Full
       /\ count' = n
       /\ count_bytes' = nb
       /\ HandOff(Append(q, p), bytes + p.size)
       /\ UNCHANGED dropped

\* Mutant: the random drop is not reported.
UnforcedDropSilent(p) ==
    \/ Full /\ ForcedDrop(p, 0, 0)
    \/ /\ ~Full
       /\ count' = 0
       /\ count_bytes' = 0
       /\ UNCHANGED dropped
       /\ HandOff(q, bytes)

\* A random drop takes the arriving packet, unless the queue is full.
UnforcedDrop(p) ==
    \/ /\ Full
       /\ ForcedDrop(p, 0, 0)
    \/ /\ ~Full
       /\ count' = 0
       /\ count_bytes' = 0
       /\ dropped' = dropped + 1
       /\ HandOff(q, bytes)

-----------------------------------------------------------------------------
(* enque(): the drop logic.  a: the new average; max_p: as the estimator   *)
(* left it; n and nb: the tally with this packet counted.                  *)

\* Mutants: either half of the condition alone.
EarlyDropZoneAnyQueue(a) == a >= th.min
EarlyDropZoneAnyAverage(a) == QSize > 1
EarlyDropZone(a) == a >= th.min /\ QSize > 1

\* Mutant: use_mark_p is not looked at.
ForcedByAverageAlways(a) == a >= IF edp.gentle THEN 2 * th.max ELSE th.max

ForcedByAverage(a) ==
    /\ ~edp.use_mark_p
    /\ a >= IF edp.gentle THEN 2 * th.max ELSE th.max

NoEarlyDrop(p, a, max_p, n, nb) ==
    /\ ~EarlyDropZone(a)
    /\ prob' = 0
    /\ old' = FALSE
    /\ cur_max_p' = max_p
    /\ UNCHANGED prob1
    /\ Store(p, FALSE, n, nb)

AverageTooHigh(p, a, max_p, n, nb) ==
    /\ EarlyDropZone(a)
    /\ ForcedByAverage(a)
    /\ cur_max_p' = max_p
    /\ UNCHANGED <<prob1, prob, old>>
    /\ Store(p, TRUE, n, nb)

\* Mutant: the crossing is forgotten.
JustCrossedForgotten(p, a, max_p) ==
    /\ EarlyDropZone(a)
    /\ ~ForcedByAverage(a)
    /\ cur_max_p' = max_p
    /\ UNCHANGED <<prob1, prob, old>>
    /\ Store(p, FALSE, 1, p.size)

JustCrossed(p, a, max_p) ==
    /\ EarlyDropZone(a)
    /\ ~ForcedByAverage(a)
    /\ ~old
    /\ old' = TRUE
    /\ cur_max_p' = max_p
    /\ UNCHANGED <<prob1, prob>>
    /\ Store(p, FALSE, 1, p.size)

\* cautious_ 1 and 2 compare the queue with what the average would have
\* become in 50 ms of silence.
FarBelowAverage(a) == QSize * One < FMul(edp.fraction, a)

\* The draw is strictly between 0 and 1: which outcomes it can have.
MayChoose(a, pr) == pr > 0 /\ ~(edp.cautious = 1 /\ FarBelowAverage(a))
MaySpare(a, pr) == pr < One \/ (edp.cautious \in {1, 2} /\ FarBelowAverage(a))

\* drop_early(): mark the packet if it may be, else drop it.
DropEarly(p, a, max_p, n, nb) ==
    LET mp == IF edp.is_modifiedRed /\ OnCurve(a)
              THEN NaredMaxP(a, max_p) ELSE max_p
        p1 == calculate_p(a, n, mp)
        pr == modify_p(p1, n, nb, p.size)
        markable == /\ edp.setbit /\ p.ect
                    /\ edp.use_mark_p => p1 < edp.mark_p
    IN  /\ EarlyDropZone(a)
        /\ ~ForcedByAverage(a)
        /\ old
        /\ cur_max_p' = mp
        /\ prob1' = p1
        /\ prob' = pr
        /\ UNCHANGED old
        /\ \/ /\ MaySpare(a, pr)
              /\ Store(p, FALSE, n, nb)
           \/ /\ MayChoose(a, pr)
              /\ markable
              /\ Store(Mark(p), FALSE, 0, 0)
           \/ /\ MayChoose(a, pr)
              /\ ~markable
              /\ UnforcedDrop(p)

-----------------------------------------------------------------------------
(* The operations *)

\* Queue::recv() with REDQueue::enque().
Recv(p) ==
    /\ ready
    /\ arrived < MaxArrivals
    /\ arrived' = arrived + 1
    /\ \E m \in IdleSlots, due \in BOOLEAN :
           LET a == estimator(m)
               max_p == AdaptedMaxP(a, due)
               n == count + 1
               nb == count_bytes + p.size
           IN  /\ ave' = a
               /\ status' = IF edp.adaptive /\ edp.feng_adaptive
                            THEN FengStatus(a) ELSE status
               /\ \/ NoEarlyDrop(p, a, max_p, n, nb)
                  \/ AverageTooHigh(p, a, max_p, n, nb)
                  \/ JustCrossed(p, a, max_p)
                  \/ DropEarly(p, a, max_p, n, nb)
    /\ UNCHANGED <<edp, th, gentle_p, ready>>

\* Mutants: the newest packet goes first; the drained queue stays blocked.
ResumeNewest ==
    /\ out # <<>>
    /\ \/ /\ q # <<>>
          /\ q' = Front(q)
          /\ bytes' = bytes - Last(q).size
          /\ out' = Append(Tail(out), Last(q))
          /\ sent' = sent + 1
          /\ idle' = FALSE
          /\ UNCHANGED blocked
       \/ /\ q = <<>>
          /\ out' = Tail(out)
          /\ idle' = TRUE
          /\ blocked' = ~Reopens
          /\ UNCHANGED <<q, bytes, sent>>
    /\ UNCHANGED <<edp, th, edv, gentle_p, ready, arrived, dropped>>

ResumeBlocked ==
    /\ out # <<>>
    /\ \/ /\ q # <<>>
          /\ q' = Tail(q)
          /\ bytes' = bytes - Head(q).size
          /\ out' = Append(Tail(out), Head(q))
          /\ sent' = sent + 1
          /\ idle' = FALSE
       \/ /\ q = <<>>
          /\ out' = Tail(out)
          /\ idle' = TRUE
          /\ UNCHANGED <<q, bytes, sent>>
    /\ UNCHANGED <<edp, th, edv, gentle_p, ready, arrived, dropped, blocked>>

\* QueueHandler::handle() and Queue::resume(): the target is done with its
\* packet; REDQueue::deque() notices when the queue becomes idle.
Resume ==
    /\ out # <<>>
    /\ \/ /\ q # <<>>
          /\ q' = Tail(q)
          /\ bytes' = bytes - Head(q).size
          /\ out' = Append(Tail(out), Head(q))
          /\ sent' = sent + 1
          /\ idle' = FALSE
          /\ UNCHANGED blocked
       \/ /\ q = <<>>
          /\ out' = Tail(out)
          /\ idle' = TRUE
          /\ blocked' = ~Reopens
          /\ UNCHANGED <<q, bytes, sent>>
    /\ UNCHANGED <<edp, th, edv, gentle_p, ready, arrived, dropped>>

\* initialize_params(), for a queue that was told its link.
initialize_params(t) ==
    LET min == IF t.min_pkts = 0
               THEN AtLeast(5 * One, edp.targetqueue \div 2) ELSE t.min_pkts
    IN  [min_pkts |-> min,
         max_pkts |-> IF t.max_pkts = 0 THEN 3 * min ELSE t.max_pkts,
         bottom |-> IF t.bottom = 0
                    THEN AtMost(One \div 100, edp.auto_bottom) ELSE t.bottom,
         min |-> t.min, max |-> t.max]

\* The thresholds after reset(): they follow those in packets.
ResetThresholds(t) ==
    LET i == IF edp.linked THEN initialize_params(t) ELSE t
        max == IF i.max_pkts = 0 THEN 3 * i.min_pkts ELSE i.max_pkts
        unit == IF edp.qib THEN edp.mean_pktsize ELSE 1
    IN  [min_pkts |-> i.min_pkts, max_pkts |-> max, bottom |-> i.bottom,
         min |-> i.min_pkts * unit, max |-> max * unit]

\* REDQueue::reset() and Queue::reset(), at the start of a simulation and
\* whenever the link goes down.  The packet at the target stays there.
Reset ==
    /\ th' = ResetThresholds(th)
    /\ ave' = 0
    /\ count' = 0
    /\ count_bytes' = 0
    /\ old' = FALSE
    /\ cur_max_p' = FDiv(One, edp.max_p_inv)
    /\ gentle_p' = IF edp.gentle THEN FDiv(One, edp.max_p_inv) ELSE gentle_p
    /\ idle' = TRUE
    /\ q' = <<>>
    /\ bytes' = 0
    /\ dropped' = dropped + Len(q)
    /\ ready' = TRUE
    /\ UNCHANGED <<edp, prob1, prob, status, out, blocked, arrived, sent>>

\* The constructor, initParams() and the values a script binds.
Init ==
    /\ edp \in Configs
    /\ th = [min_pkts |-> edp.th_min_pkts, max_pkts |-> edp.th_max_pkts,
             min |-> edp.th_min, max |-> edp.th_max, bottom |-> edp.bottom]
    /\ status \in Statuses
    /\ q = <<>> /\ bytes = 0 /\ out = <<>>
    /\ blocked = FALSE /\ idle = TRUE /\ old = FALSE /\ ready = FALSE
    /\ ave = 0 /\ count = 0 /\ count_bytes = 0
    /\ cur_max_p = 0 /\ gentle_p = 0 /\ prob1 = 0 /\ prob = 0
    /\ arrived = 0 /\ sent = 0 /\ dropped = 0

\* A packet arrives.
Arrive == \E p \in Packets : p \in Traffic[edp] /\ Recv(p)

Next == Arrive \/ Resume \/ Reset

Spec == Init /\ [][Next]_vars

\* The target calls every handler back: LinkDelay and the MAC schedule the
\* callback of each packet they take.
FairSpec == Spec /\ WF_vars(Resume)

-----------------------------------------------------------------------------
(* Properties *)

TypeOK ==
    /\ edp \in Configs
    /\ th \in Thresholds
    /\ q \in Seq(Queued) /\ out \in Seq(Queued)
    /\ bytes \in Int /\ ave \in Int
    /\ blocked \in BOOLEAN /\ idle \in BOOLEAN /\ old \in BOOLEAN
    /\ ready \in BOOLEAN
    /\ count \in Nat /\ count_bytes \in Nat
    /\ cur_max_p \in Nat /\ gentle_p \in Nat
    /\ prob1 \in Int /\ prob \in Int
    /\ status \in Statuses
    /\ arrived \in 0 .. MaxArrivals /\ sent \in Nat /\ dropped \in Nat

\* No packet is lost without being counted or handed on twice: what arrived
\* was sent on, dropped, or waits (enque, deque, forced drops, reset).
Conservation == arrived = sent + dropped + Len(q)

\* bytes_ is the size of the queued packets, through every enque, deque,
\* removal from the middle and reset: the limit and the average rely on it.
ByteCount == bytes = byteLength(q)

\* The hard limit of enque(): measured in packets it is never exceeded;
\* measured in bytes, a queue that drops at its tail never exceeds it by a
\* whole packet.
WithinLimit ==
    /\ ~edp.qib => Len(q) <= edp.qlim
    /\ edp.qib /\ edp.drop = "tail" =>
           \A p \in Packets :
               (\A r \in Packets : r.size <= p.size) =>
                   bytes < edp.qlim * edp.mean_pktsize + p.size

\* recv() and resume() together: a target never holds two packets, it holds
\* one exactly while the queue is blocked, a queue that is not blocked has no
\* packet waiting that nobody would ever ask for, and idle_ is only set when
\* nothing waits.
OneOutstanding ==
    /\ Len(out) <= 1
    /\ Reopens => (blocked <=> out # <<>>)
    /\ ~blocked => q = <<>> /\ out = <<>>
    /\ idle => q = <<>>

\* red.cc, enque(): "A packet that arrives to an idle queue will never be
\* dropped", however large the average has remained.
IdleArrivalKept ==
    [][idle /\ arrived' # arrived /\ edp.qlim > 0 => dropped' = dropped]_vars

\* The estimator is an average: it never leaves the range of the queue sizes
\* it was given, so it cannot exceed the hard limit of a queue in packets.
AverageBounded == ~edp.qib => ave <= edp.qlim * One

IsProbability(x) == 0 <= x /\ x <= One
\* calculate_p() and modify_p() return probabilities, in every variant of RED
\* that ns-2 has, at every average, tally and packet size.
ProbRange ==
    ~edp.is_modifiedRed => IsProbability(prob1) /\ IsProbability(prob)

\* red.h: "Set use_mark_p true and set mark_p to 2.0 to always mark instead
\* of drop when queue is not full".  A packet that arrives at such a queue,
\* when every packet is ECN-capable, costs a packet only if the queue is full.
AlwaysMarks == edp.use_mark_p /\ edp.setbit /\ edp.mark_p >= 2 * One
MarkInsteadOfDrop ==
    [][AlwaysMarks /\ (\A p \in Packets : p.ect)
       /\ arrived' # arrived /\ dropped' # dropped => Full]_vars

\* A queue that was never told its link (the interface queue of a mobile
\* node) and whose thresholds in packets are 0 is left with both thresholds
\* at 0 by reset(): its drop probability is 1 as soon as two packets wait,
\* and it never holds more than three, whatever limit_ says.  (With bytes_ set,
\* modify_p() may spare packets that are small against mean_pktsize_.)
Unlinked ==
    /\ ~edp.linked /\ th.max_pkts = 0
    /\ ~edp.gentle /\ ~edp.qib /\ ~edp.bytes /\ ~edp.setbit
    /\ ~edp.is_modifiedRed /\ edp.cautious = 0
UnlinkedDepth == Unlinked => Len(q) <= 3

\* A step in which drop_early() computes a probability.
ComputesP == arrived' # arrived /\ old /\ old' /\ EarlyDropZone(ave')
             /\ ~ForcedByAverage(ave')

\* The report on NARED: "if Qavg > bufsize, then p=1".  Once the average has
\* reached the buffer size, each packet drop_early() looks at costs one, also
\* after modify_p() and wait_ have had their say.
NaredDropsAboveBuffer ==
    [][ComputesP /\ edp.is_modifiedRed /\ ave' >= Buffer /\ edp.cautious = 0
       /\ ~edp.bytes /\ ~edp.setbit => dropped' = dropped + 1]_vars

\* Once packets stop arriving the queue drains and opens again.
Drains == []<>(q = <<>> /\ out = <<>> /\ ~blocked)

\* The promise of every queue, kept by RED: see LossyFifo.
Fifo == INSTANCE LossyFifo WITH Packets <- Queued, queue <- q, busy <- blocked
ImplementsFifo == Fifo!Spec

-----------------------------------------------------------------------------
(* What comments and documents say and the code does not do *)

\* red.h: v_prob1 is the "prob. of packet drop before "count"", a probability
\* under NARED, too.
NaredProbRange == edp.is_modifiedRed => IsProbability(prob1)
=============================================================================
