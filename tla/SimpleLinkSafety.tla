-------------------------- MODULE SimpleLinkSafety --------------------------
(***************************************************************************)
(* The type invariant and the safety properties of SimpleLink, proved for  *)
(* any number of packets and commands and for all sizes, bandwidths,       *)
(* delays and limits.                                                      *)
(*                                                                         *)
(* The invariant has three parts.  The protocol between queue and          *)
(* LinkDelay: intr_ is scheduled exactly while the queue is blocked.  The  *)
(* times: unless the delay was lowered, no packet in propagation is due    *)
(* later than the end of the transmission plus the delay, so the next one  *)
(* is due last; with avoidReordering_ latest_time_ takes this part.  The   *)
(* numbers: packets that wait are later than those in propagation, which   *)
(* are later than those delivered.  On it rests a second one, Placed: the  *)
(* packets that arrived are parted into those that wait, propagate, were   *)
(* delivered and were lost, and none was delivered twice.  The limit in    *)
(* bytes has an invariant of its own, Fits.                                *)
(***************************************************************************)
EXTENDS SimpleLink, PacketBytesProofs

Setups == [mode : Modes, qib : BOOLEAN, drop_front : BOOLEAN, limit : Limits]
Event == [pkt : Packets, due : Nat]

-----------------------------------------------------------------------------
(* Arithmetic *)

\* A product of natural numbers is one.
LEMMA ProductNat == \A a, b \in Nat : a * b \in Nat
  OBVIOUS

-----------------------------------------------------------------------------
(* The queue discipline *)

\* enque() appends the packet, or drops it or the one at the head.
LEMMA EnqueShape ==
    ASSUME NEW s \in Seq(Packets), NEW p \in Packets, NEW k, NEW n \in Nat
    PROVE  /\ \/ enque(s, p, k, n) = Append(s, p)
              \/ enque(s, p, k, n) = Tail(Append(s, p))
              \/ enque(s, p, k, n) = s
           /\ enque(s, p, k, n) \in Seq(Packets)
  BY DEF enque

\* In packets a queue below its limit stays below it.
LEMMA EnqueLimit ==
    ASSUME NEW s \in Seq(Packets), NEW p \in Packets, NEW k, ~k.qib, NEW n \in Nat,
           NEW m \in Nat, m <= n, n - 1 <= m, Len(s) <= m
    PROVE  Len(enque(s, p, k, n)) <= m
  BY DEF enque, Fill

\* shrink_queue() keeps a piece of the queue, in packets one that fits.
LEMMA ShrinkShape ==
    ASSUME NEW s \in Seq(Packets), NEW k \in Setups, NEW n \in Nat
    PROVE  /\ \E a, b \in 0 .. Len(s) : shrink_queue(s, k, n) = SubSeq(s, a + 1, b)
           /\ ~k.qib => Len(shrink_queue(s, k, n)) <= n
<1> DEFINE Rest(i) == IF k.drop_front THEN SubSeq(s, i + 1, Len(s))
                      ELSE SubSeq(s, 1, Len(s) - i)
           long == {i \in 0 .. Len(s) - 1 : Fill(Rest(i), k) > n}
           c == Cardinality(long)
<1>1. shrink_queue(s, k, n) = Rest(c)
  BY Zenon DEF shrink_queue
<1>2. IsFiniteSet(0 .. Len(s) - 1) /\ Cardinality(0 .. Len(s) - 1) = Len(s)
  <2>1. 0 \in Int /\ Len(s) - 1 \in Int
    OBVIOUS
  <2>2. /\ IsFiniteSet(0 .. Len(s) - 1)
        /\ Cardinality(0 .. Len(s) - 1) = IF 0 > Len(s) - 1 THEN 0 ELSE Len(s) - 1 - 0 + 1
    BY ONLY <2>1, FS_Interval
  <2> QED  BY <2>2
<1>3. c \in 0 .. Len(s)
  <2>1. long \subseteq 0 .. Len(s) - 1
    OBVIOUS
  <2> HIDE DEF long
  <2>2. IsFiniteSet(long) /\ Cardinality(long) <= Len(s)
    BY <1>2, <2>1, FS_Subset, ZenonT(30)
  <2>3. Cardinality(long) \in Nat
    BY <2>2, FS_CardinalityType
  <2> QED  BY <2>2, <2>3
<1>4. ASSUME ~k.qib PROVE c = IF Len(s) > n THEN Len(s) - n ELSE 0
  <2>1. \A i \in 0 .. Len(s) - 1 : Len(Rest(i)) = Len(s) - i
    BY DEF Setups
  <2>2. \A i \in 0 .. Len(s) - 1 : Fill(Rest(i), k) = Len(Rest(i))
    BY <1>4 DEF Fill
  <2>3. long = 0 .. Len(s) - n - 1
    <3>1. long = {i \in 0 .. Len(s) - 1 : Len(s) - i > n}
      BY <2>1, <2>2, Zenon
    <3> QED  BY <3>1
  <2>4. 0 \in Int /\ Len(s) - n - 1 \in Int
    OBVIOUS
  <2>5. Cardinality(0 .. Len(s) - n - 1)
            = IF 0 > Len(s) - n - 1 THEN 0 ELSE Len(s) - n - 1 - 0 + 1
    BY ONLY <2>4, FS_Interval
  <2> HIDE DEF long
  <2> QED  BY <2>3, <2>5
<1> HIDE DEF c
<1>5. \E a, b \in 0 .. Len(s) : Rest(c) = SubSeq(s, a + 1, b)
  <2>1. CASE k.drop_front
    <3>1. Rest(c) = SubSeq(s, c + 1, Len(s)) /\ Len(s) \in 0 .. Len(s)
      BY <2>1, <1>3
    <3> HIDE DEF Rest
    <3> QED  BY <1>3, <3>1
  <2>2. CASE ~k.drop_front
    <3>1. Rest(c) = SubSeq(s, 0 + 1, Len(s) - c) /\ Len(s) - c \in 0 .. Len(s)
      BY <1>3, <2>2
    <3>2. 0 \in 0 .. Len(s)  OBVIOUS
    <3> HIDE DEF Rest
    <3> QED  BY <3>1, <3>2
  <2> QED  BY <2>1, <2>2
<1>6. ~k.qib => Len(Rest(c)) <= n
  <2>1. Len(Rest(c)) = Len(s) - c
    BY <1>3 DEF Setups
  <2> HIDE DEF Rest
  <2> QED  BY <1>3, <1>4, <2>1
<1> QED  BY <1>1, <1>5, <1>6

-----------------------------------------------------------------------------
(* Types *)

Pars == [slot : Slots, delay : PropDelays, limit : Limits, up : BOOLEAN]

\* The numbers of typed packets.
LEMMA IdsType == \A s \in Seq(Packets) : Ids(s) \subseteq 1 .. MaxPackets
<1> SUFFICES ASSUME NEW s \in Seq(Packets), NEW i \in DOMAIN s
             PROVE  s[i].id \in 1 .. MaxPackets
  BY DEF Ids
<1>1. s[i] \in Packets
  OBVIOUS
<1> QED  BY <1>1 DEF Packets

\* The numbers of the packets in propagation.
LEMMA FlightIdsType == flight \in Scheduled => FlightIds \subseteq 1 .. MaxPackets
<1> SUFFICES ASSUME flight \in Seq(Event), NEW i \in DOMAIN flight
             PROVE  flight[i].pkt.id \in 1 .. MaxPackets
  BY DEF FlightIds, Scheduled, Event
<1>1. flight[i] \in Event
  OBVIOUS
<1> QED  BY <1>1 DEF Event, Packets

\* LinkDelay::recv() schedules one event for the packet and one for intr_.
LEMMA RecvTypes ==
    ASSUME TypeOK, NEW p \in Packets, NEW rest \in Seq(Event), Recv(p, rest)
    PROVE  /\ Due(p) \in Nat /\ p.size * par.slot \in Nat
           /\ flight' = Append(flight, [pkt |-> p, due |-> Due(p)])
           /\ intr' = Append(rest, [pkt |-> p, due |-> p.size * par.slot])
           /\ flight' \in Seq(Event) /\ intr' \in Seq(Event) /\ latest' \in Nat
<1>1. /\ p.size \in Nat /\ par.slot \in Nat /\ par.delay \in Nat /\ latest \in Nat
      /\ flight \in Seq(Event)
  BY LinkAssumption DEF TypeOK, Packets, Scheduled, Event
<1>2. p.size * par.slot \in Nat
  BY <1>1, ProductNat
<1> DEFINE txt == p.size * par.slot
<1>3. Due(p) = IF setup.mode = "avoid" /\ txt + par.delay < latest
               THEN latest + txt ELSE txt + par.delay
  BY DEF Due
<1> HIDE DEF txt
<1>4. Due(p) \in Nat
  BY <1>1, <1>2, <1>3 DEF txt
<1>5. [pkt |-> p, due |-> Due(p)] \in Event /\ [pkt |-> p, due |-> txt] \in Event
  BY <1>2, <1>4 DEF Event, txt
<1>6. /\ flight' = Append(flight, [pkt |-> p, due |-> Due(p)])
      /\ intr' = Append(rest, [pkt |-> p, due |-> txt])
      /\ latest' = IF setup.mode = "avoid" THEN Due(p) ELSE latest
  BY DEF Recv, txt
<1> QED  BY <1>1, <1>2, <1>4, <1>5, <1>6, AppendProperties DEF txt

\* The queue of an arrival, before the head of it is handed on.
Arriving(p) == IF par.up THEN enque(q, p, setup, par.limit) ELSE q

\* It holds packets.
LEMMA ArrivingType ==
    ASSUME TypeOK, NEW p \in Packets
    PROVE  Arriving(p) \in Seq(Packets)
<1>1. q \in Seq(Packets) /\ par.limit \in Nat
  BY LinkAssumption DEF TypeOK
<1> QED  BY <1>1, EnqueShape DEF Arriving

\* An arrival keeps the types.
LEMMA ArriveTypes ==
    ASSUME TypeOK, NEW p \in Packets, Arrive(p)
    PROVE  TypeOK'
<1> DEFINE s == Arriving(p)
<1>1. s \in Seq(Packets)
  BY ArrivingType
<1>2. /\ p.id = next /\ next' = next + 1
      /\ lost' = lost \cup (Ids(Append(q, p)) \ Ids(s))
      /\ IF blocked \/ ~par.up \/ s = << >>
         THEN q' = s /\ UNCHANGED <<blocked, delayVars>>
         ELSE q' = Tail(s) /\ blocked' = TRUE /\ Recv(s[1], intr)
      /\ UNCHANGED <<setup, par, delivered, aborted, lowered, commands>>
  BY Zenon DEF Arrive, Arriving
<1> HIDE DEF s
<1>3. next' \in 1 .. MaxPackets + 1
  BY <1>2, LinkAssumption DEF TypeOK, Packets
<1>4. lost' \subseteq 1 .. MaxPackets
  <2>1. Append(q, p) \in Seq(Packets)  BY DEF TypeOK
  <2> QED  BY <1>2, <2>1, IdsType DEF TypeOK
<1>5. q' \in Seq(Packets) /\ blocked' \in BOOLEAN
  <2>1. CASE blocked \/ ~par.up \/ s = << >>
    <3>1. q' = s /\ blocked' = blocked  BY <1>2, <2>1
    <3> QED  BY <1>1, <3>1 DEF TypeOK
  <2>2. CASE ~(blocked \/ ~par.up \/ s = << >>)
    <3>1. q' = Tail(s) /\ blocked' = TRUE  BY <1>2, <2>2
    <3>2. s # << >>  BY <2>2
    <3> QED  BY <1>1, <3>1, <3>2
  <2> QED  BY <2>1, <2>2
<1>6. intr' \in Scheduled /\ flight' \in Scheduled /\ latest' \in Nat
  <2>1. CASE blocked \/ ~par.up \/ s = << >>
    BY <1>2, <2>1 DEF TypeOK, delayVars
  <2>2. CASE ~(blocked \/ ~par.up \/ s = << >>)
    <3>1. s[1] \in Packets /\ intr \in Seq(Event)
      BY <1>1, <2>2 DEF TypeOK, Scheduled, Event
    <3>2. Recv(s[1], intr)  BY <1>2, <2>2
    <3> QED  BY <3>1, <3>2, RecvTypes DEF Scheduled, Event
  <2> QED  BY <2>1, <2>2
<1>7. UNCHANGED <<setup, par, delivered, aborted, lowered, commands>>
  BY <1>2
<1> QED  BY <1>3, <1>4, <1>5, <1>6, <1>7 DEF TypeOK

\* The end of a transmission keeps the types.
LEMMA ResumeTypes ==
    ASSUME TypeOK, Resume
    PROVE  TypeOK'
<1>1. intr \in Seq(Event) /\ Tail(intr) \in Seq(Event)
  BY DEF TypeOK, Resume, Scheduled, Event
<1>2. UNCHANGED <<setup, par, next, delivered, lost, aborted, lowered, commands>>
  BY DEF Resume
<1>3. CASE q = << >>
  <2>1. blocked' = FALSE /\ intr' = Tail(intr) /\ UNCHANGED <<q, flight, latest>>
    BY <1>3 DEF Resume
  <2> QED  BY <1>1, <1>2, <2>1 DEF TypeOK, Scheduled, Event
<1>4. CASE q # << >>
  <2>1. q' = Tail(q) /\ Recv(q[1], Tail(intr)) /\ blocked' = blocked
    BY <1>4 DEF Resume
  <2>2. q[1] \in Packets /\ q' \in Seq(Packets)
    BY <1>4, <2>1 DEF TypeOK
  <2>3. flight' \in Seq(Event) /\ intr' \in Seq(Event) /\ latest' \in Nat
    BY <1>1, <2>1, <2>2, RecvTypes
  <2> QED  BY <1>2, <2>1, <2>2, <2>3 DEF TypeOK, Scheduled, Event
<1> QED  BY <1>3, <1>4

\* A delivery keeps the types.
LEMMA DeliverTypes ==
    ASSUME TypeOK, Deliver
    PROVE  TypeOK'
<1>1. PICK i \in Arrived :
         IF setup.mode = "dynamic" /\ flight[1].due # 0
         THEN aborted' = TRUE /\ UNCHANGED <<flight, delivered>>
         ELSE /\ flight' = RemoveAt(flight, i)
              /\ delivered' = Append(delivered, flight[i].pkt.id)
              /\ UNCHANGED aborted
  BY DEF Deliver
<1>0. flight \in Seq(Event)
  BY DEF TypeOK, Scheduled, Event
<1>2. i \in 1 .. Len(flight) /\ flight \in Seq(Event) /\ flight[i] \in Event
  BY <1>0 DEF Arrived
<1>3. flight[i].pkt.id \in 1 .. MaxPackets
  BY <1>2 DEF Event, Packets
<1>4. RemoveAt(flight, i) \in Seq(Event)
  BY <1>2, RemoveAtShape
<1>5. delivered \in Seq(1 .. MaxPackets) /\ aborted \in BOOLEAN
  BY DEF TypeOK
<1>6. flight' \in Seq(Event) /\ delivered' \in Seq(1 .. MaxPackets) /\ aborted' \in BOOLEAN
  <2>1. CASE setup.mode = "dynamic" /\ flight[1].due # 0
    BY <1>0, <1>1, <1>5, <2>1
  <2>2. CASE ~(setup.mode = "dynamic" /\ flight[1].due # 0)
    <3>1. /\ flight' = RemoveAt(flight, i) /\ aborted' = aborted
          /\ delivered' = Append(delivered, flight[i].pkt.id)
      BY <1>1, <2>2
    <3> QED  BY <1>3, <1>4, <1>5, <3>1
  <2> QED  BY <2>1, <2>2
<1>7. UNCHANGED <<setup, par, q, blocked, intr, latest, next, lost, lowered, commands>>
  BY DEF Deliver
<1> QED  BY <1>6, <1>7 DEF TypeOK, Scheduled, Event

\* Time keeps the types: no event is overdue.
LEMMA TickTypes ==
    ASSUME TypeOK, Tick
    PROVE  TypeOK'
<1>1. flight \in Seq(Event) /\ intr \in Seq(Event) /\ latest \in Nat
  BY DEF TypeOK, Scheduled, Event
<1>2. ASSUME NEW s \in Seq(Event), \A i \in DOMAIN s : s[i].due > 0
      PROVE  [i \in DOMAIN s |-> [s[i] EXCEPT !.due = @ - 1]] \in Seq(Event)
  <2>0. ASSUME NEW e \in Event, e.due > 0
        PROVE  [e EXCEPT !.due = @ - 1] \in Event
    BY <2>0 DEF Event
  <2>1. \A i \in DOMAIN s : [s[i] EXCEPT !.due = @ - 1] \in Event
    <3> SUFFICES ASSUME NEW i \in DOMAIN s
                 PROVE  [s[i] EXCEPT !.due = @ - 1] \in Event
      OBVIOUS
    <3>1. s[i] \in Event /\ s[i].due > 0
      BY <1>2
    <3> QED  BY <2>0, <3>1
  <2>2. DOMAIN s = 1 .. Len(s) /\ Len(s) \in Nat
    OBVIOUS
  <2> QED  BY <2>1, <2>2
<1>3. /\ flight' = [i \in DOMAIN flight |-> [flight[i] EXCEPT !.due = @ - 1]]
      /\ intr' = [i \in DOMAIN intr |-> [intr[i] EXCEPT !.due = @ - 1]]
      /\ \A i \in DOMAIN flight : flight[i].due > 0
      /\ \A i \in DOMAIN intr : intr[i].due > 0
      /\ latest' = IF latest = 0 THEN 0 ELSE latest - 1
  BY DEF Tick
<1>4. flight' \in Seq(Event) /\ intr' \in Seq(Event)
  BY <1>1, <1>2, <1>3
<1>5. latest' \in Nat
  BY <1>1, <1>3
<1>6. UNCHANGED <<setup, par, q, blocked, next, delivered, lost, aborted, lowered, commands>>
  BY DEF Tick
<1> QED  BY <1>4, <1>5, <1>6 DEF TypeOK, Scheduled, Event

\* The commands of the script.
LEMMA CommandTypes ==
    ASSUME TypeOK,
           \/ \E b \in Slots : SetBandwidth(b)
           \/ \E d \in PropDelays : SetDelay(d)
           \/ \E n \in Limits : ShrinkQueue(n)
           \/ Down \/ Up
    PROVE  TypeOK'
<1>1. ASSUME Command
      PROVE  /\ commands' \in 0 .. MaxCommands
             /\ UNCHANGED <<setup, next, delivered, aborted>>
  BY <1>1, LinkAssumption DEF Command, TypeOK
<1>2. CASE \E b \in Slots : SetBandwidth(b)
  BY <1>1, <1>2 DEF SetBandwidth, TypeOK, delayVars
<1>3. CASE \E d \in PropDelays : SetDelay(d)
  <2>1. PICK d \in PropDelays : SetDelay(d)  BY <1>3
  <2>2. lowered' \in BOOLEAN
    BY <2>1, Zenon DEF SetDelay
  <2> QED  BY <1>1, <2>1, <2>2 DEF SetDelay, TypeOK, delayVars
<1>4. CASE \E n \in Limits : ShrinkQueue(n)
  <2>1. PICK n \in Limits : ShrinkQueue(n)  BY <1>4
  <2>2. q \in Seq(Packets) /\ setup \in Setups /\ n \in Nat
    BY LinkAssumption DEF TypeOK, Setups
  <2>3. q' = shrink_queue(q, setup, n)
    BY <2>1 DEF ShrinkQueue
  <2>4. PICK a, b \in 0 .. Len(q) : q' = SubSeq(q, a + 1, b)
    BY <2>2, <2>3, ShrinkShape
  <2>5. q' \in Seq(Packets)
    BY <2>2, <2>4
  <2>6. lost' \subseteq 1 .. MaxPackets
    BY <2>1, <2>2, IdsType DEF ShrinkQueue, TypeOK
  <2>7. par' \in Pars
    BY <2>1 DEF ShrinkQueue, TypeOK, Pars
  <2>8. UNCHANGED <<blocked, intr, flight, latest, lowered>> /\ Command
    BY <2>1 DEF ShrinkQueue, delayVars
  <2> QED  BY <1>1, <2>5, <2>6, <2>7, <2>8 DEF TypeOK, Pars
<1>5. CASE Down
  <2>1. q' \in Seq(Packets) /\ flight' \in Scheduled
    BY <1>5 DEF Down, Scheduled
  <2>2. lost' \subseteq 1 .. MaxPackets
    BY <1>5, IdsType, FlightIdsType DEF Down, TypeOK
  <2>3. par' \in Pars
    BY <1>5 DEF Down, TypeOK, Pars
  <2>4. UNCHANGED <<blocked, intr, latest, lowered>> /\ Command
    BY <1>5 DEF Down
  <2> QED  BY <1>1, <2>1, <2>2, <2>3, <2>4 DEF TypeOK, Pars
<1>6. CASE Up
  BY <1>1, <1>6 DEF Up, TypeOK, delayVars
<1> QED  BY <1>2, <1>3, <1>4, <1>5, <1>6

\* The link starts typed.
LEMMA TypeInit == Init => TypeOK
<1> SUFFICES ASSUME Init PROVE TypeOK
  OBVIOUS
<1>1. setup \in Setups
  BY DEF Init, Setups
<1>2. par \in Pars
  BY <1>1 DEF Init, Pars, Setups
<1>3. /\ q \in Seq(Packets) /\ intr \in Scheduled /\ flight \in Scheduled
      /\ delivered \in Seq(1 .. MaxPackets)
  BY DEF Init, Scheduled
<1>4. next \in 1 .. MaxPackets + 1 /\ commands \in 0 .. MaxCommands
  BY LinkAssumption DEF Init
<1> QED  BY <1>1, <1>2, <1>3, <1>4 DEF Init, TypeOK, Setups, Pars

\* Type correctness of the link, for every topology and every script.
THEOREM TypeCorrect == Spec => []TypeOK
<1>1. Init => TypeOK
  BY TypeInit
<1>2. TypeOK /\ [Next]_vars => TypeOK'
  <2> SUFFICES ASSUME TypeOK, [Next]_vars PROVE TypeOK'
      OBVIOUS
  <2>1. CASE UNCHANGED vars
    BY <2>1 DEF vars, TypeOK
  <2> QED  BY <2>1, ArriveTypes, ResumeTypes, DeliverTypes, TickTypes, CommandTypes DEF Next
<1> QED  BY <1>1, <1>2, PTL DEF Spec

-----------------------------------------------------------------------------
(* The invariant *)

InOrder == setup.mode = "avoid" \/ ~lowered

\* The time until intr_ fires.
Left == IF intr = << >> THEN 0 ELSE intr[1].due

Times ==
    /\ setup.mode # "avoid" /\ ~lowered =>
           \A i \in DOMAIN flight : flight[i].due <= Left + par.delay
    /\ setup.mode = "avoid" => \A i \in DOMAIN flight : flight[i].due <= latest
    /\ InOrder => \A i, j \in DOMAIN flight : i < j => flight[i].due <= flight[j].due

\* The numbers of the packets waiting in w, propagating in fl and delivered in
\* dl, when n is the next number to arrive; o: nothing overtakes.
Ordered(w, fl, dl, n, o) ==
    /\ \A i, j \in DOMAIN w : i < j => w[i].id < w[j].id
    /\ \A i \in DOMAIN w : w[i].id < n
    /\ \A i, j \in DOMAIN fl : i < j => fl[i].pkt.id < fl[j].pkt.id
    /\ \A i \in DOMAIN fl : fl[i].pkt.id < n
    /\ \A i \in DOMAIN fl, j \in DOMAIN w : fl[i].pkt.id < w[j].id
    /\ \A i \in DOMAIN dl : dl[i] < n
    /\ \A i \in DOMAIN dl, j \in DOMAIN w : dl[i] < w[j].id
    /\ o => /\ \A i \in DOMAIN dl, j \in DOMAIN fl : dl[i] < fl[j].pkt.id
            /\ \A i, j \in DOMAIN dl : i < j => dl[i] < dl[j]
Numbers == Ordered(q, flight, delivered, next, InOrder)

Inv ==
    /\ TypeOK /\ HandlerOnce /\ LimitHolds /\ par.limit <= setup.limit
    /\ Times /\ Numbers /\ TransitAsserted

-----------------------------------------------------------------------------
(* Scheduling a packet *)

\* A packet that LinkDelay receives when it has nothing to transmit is due last.
LEMMA RecvTimes ==
    ASSUME TypeOK, Times, NEW p \in Packets, Recv(p, << >>), Left = 0,
           UNCHANGED <<setup, par, lowered>>
    PROVE  Times'
<1> DEFINE txt == p.size * par.slot
           new == [pkt |-> p, due |-> Due(p)]
<1>1. /\ Due(p) \in Nat /\ txt \in Nat /\ flight' = Append(flight, new)
      /\ intr' = Append(<< >>, [pkt |-> p, due |-> txt])
  <2>1. << >> \in Seq(Event)  OBVIOUS
  <2> QED  BY <2>1, RecvTypes
<1>2. /\ latest' = IF setup.mode = "avoid" THEN Due(p) ELSE latest
      /\ Due(p) = IF setup.mode = "avoid" /\ txt + par.delay < latest
                  THEN latest + txt ELSE txt + par.delay
  BY DEF Recv, Due
<1> HIDE DEF txt
<1>3. intr' # << >> /\ intr'[1].due = txt
  BY <1>1
<1>4. Left' = txt
  BY <1>3 DEF Left
<1>5. /\ flight \in Seq(Event) /\ new \in Event /\ latest \in Nat /\ par.delay \in Nat
      /\ Len(flight) \in Nat
  <2>1. flight \in Seq(Event)  BY DEF TypeOK, Scheduled, Event
  <2>2. new \in Event  BY <1>1 DEF Event
  <2>3. latest \in Nat /\ par.delay \in Nat  BY LinkAssumption DEF TypeOK
  <2> QED  BY <2>1, <2>2, <2>3
<1>6. /\ DOMAIN flight' = 1 .. Len(flight) + 1
      /\ \A i \in 1 .. Len(flight) : flight'[i] = flight[i]
      /\ flight'[Len(flight) + 1].due = Due(p)
  BY <1>1, <1>5
<1>7. \A i \in 1 .. Len(flight) : i \in DOMAIN flight /\ flight[i].due \in Nat
  <2>1. \A i \in 1 .. Len(flight) : i \in DOMAIN flight /\ flight[i] \in Event
    BY <1>5
  <2> QED  BY <2>1 DEF Event
<1>8. \A i \in 1 .. Len(flight) : InOrder => flight[i].due <= Due(p)
  <2>1. CASE setup.mode = "avoid"
    <3>1. latest <= Due(p)
      BY <1>1, <1>2, <1>5, <2>1
    <3>2. \A i \in 1 .. Len(flight) : flight[i].due <= latest
      BY <1>7, <2>1 DEF Times
    <3> QED  BY <1>1, <1>5, <1>7, <3>1, <3>2
  <2>2. CASE setup.mode # "avoid"
    <3>1. ~lowered => \A i \in 1 .. Len(flight) : flight[i].due <= 0 + par.delay
      BY <1>7, <2>2 DEF Times
    <3>2. Due(p) = txt + par.delay
      BY <1>2, <2>2
    <3> QED  BY <1>1, <1>5, <1>7, <2>2, <3>1, <3>2 DEF InOrder
  <2> QED  BY <2>1, <2>2
<1> HIDE DEF new
<1>9. setup' = setup /\ par' = par /\ lowered' = lowered /\ InOrder' = InOrder
  BY DEF InOrder
<1>10. setup'.mode # "avoid" /\ ~lowered' =>
           \A i \in DOMAIN flight' : flight'[i].due <= Left' + par'.delay
  <2> SUFFICES ASSUME setup.mode # "avoid", ~lowered, NEW i \in 1 .. Len(flight) + 1
               PROVE  flight'[i].due <= txt + par.delay
    BY <1>4, <1>6, <1>9
  <2>1. CASE i = Len(flight) + 1
    BY <1>1, <1>2, <1>5, <1>6, <2>1
  <2>2. CASE i \in 1 .. Len(flight)
    <3>1. flight[i].due <= 0 + par.delay
      BY <1>7, <2>2 DEF Times
    <3> QED  BY <1>1, <1>5, <1>6, <1>7, <2>2, <3>1
  <2> QED  BY <1>5, <2>1, <2>2
<1>11. setup'.mode = "avoid" => \A i \in DOMAIN flight' : flight'[i].due <= latest'
  <2> SUFFICES ASSUME setup.mode = "avoid", NEW i \in 1 .. Len(flight) + 1
               PROVE  flight'[i].due <= Due(p)
    BY <1>2, <1>6, <1>9
  <2> QED  BY <1>1, <1>5, <1>6, <1>8 DEF InOrder
<1>12. InOrder' => \A i, j \in DOMAIN flight' : i < j => flight'[i].due <= flight'[j].due
  <2> SUFFICES ASSUME InOrder, NEW i \in 1 .. Len(flight) + 1,
                      NEW j \in 1 .. Len(flight) + 1, i < j
               PROVE  flight'[i].due <= flight'[j].due
    BY <1>6, <1>9
  <2>1. i \in 1 .. Len(flight)
    BY <1>5
  <2>2. CASE j = Len(flight) + 1
    BY <1>6, <1>8, <2>1, <2>2
  <2>3. CASE j \in 1 .. Len(flight)
    <3>1. flight[i].due <= flight[j].due
      BY <1>7, <2>1, <2>3 DEF Times
    <3> QED  BY <1>6, <2>1, <2>3, <3>1
  <2> QED  BY <1>5, <2>2, <2>3
<1> QED  BY <1>10, <1>11, <1>12 DEF Times

\* Packets are numbered.
LEMMA PacketNumber == \A x \in Packets : x.id \in Nat
<1>1. \A x \in Packets : x.id \in 1 .. MaxPackets
  BY DEF Packets
<1> QED  BY <1>1, LinkAssumption

\* The packet at the head of the queue goes on to LinkDelay.
LEMMA HandOnOrdered ==
    ASSUME NEW w \in Seq(Packets), w # << >>, NEW fl \in Seq(Event),
           NEW dl \in Seq(Nat), NEW n \in Nat, NEW d, NEW o,
           Ordered(w, fl, dl, n, o)
    PROVE  Ordered(Tail(w), Append(fl, [pkt |-> w[1], due |-> d]), dl, n, o)
<1> DEFINE e == [pkt |-> w[1], due |-> d]
           t == Tail(w)
           f == Append(fl, e)
<1>1. /\ DOMAIN w = 1 .. Len(w) /\ Len(w) \in Nat \ {0}
      /\ DOMAIN t = 1 .. Len(w) - 1 /\ \A i \in 1 .. Len(w) - 1 : t[i] = w[i + 1]
  OBVIOUS
<1>2. /\ DOMAIN fl = 1 .. Len(fl) /\ Len(fl) \in Nat
      /\ DOMAIN f = 1 .. Len(fl) + 1
      /\ \A i \in 1 .. Len(fl) : f[i] = fl[i]
      /\ f[Len(fl) + 1] = e
  OBVIOUS
<1>3. e.pkt = w[1]
  OBVIOUS
<1>4. \A i \in 1 .. Len(w) : w[i].id \in Nat
  <2>1. \A i \in 1 .. Len(w) : w[i] \in Packets
    OBVIOUS
  <2> QED  BY <2>1, PacketNumber
<1>5. \A i \in 1 .. Len(fl) : fl[i].pkt.id \in Nat
  <2>1. \A i \in 1 .. Len(fl) : fl[i] \in Event
    OBVIOUS
  <2>2. \A i \in 1 .. Len(fl) : fl[i].pkt \in Packets
    BY <2>1 DEF Event
  <2> QED  BY <2>2, PacketNumber
<1> HIDE DEF e, t, f
<1>6. \A i \in DOMAIN t : i + 1 \in DOMAIN w /\ t[i] = w[i + 1] /\ 1 < i + 1
  BY <1>1
<1>7. 1 \in DOMAIN w
  BY <1>1
<1>8. /\ \A i, j \in DOMAIN t : i < j => t[i].id < t[j].id
      /\ \A i \in DOMAIN t : t[i].id < n
      /\ \A i \in DOMAIN dl : dl[i] < n
      /\ \A i \in DOMAIN dl, j \in DOMAIN t : dl[i] < t[j].id
  <2>1. ASSUME NEW i \in DOMAIN t, NEW j \in DOMAIN t, i < j PROVE t[i].id < t[j].id
    <3>1. i + 1 < j + 1  BY <1>1, <2>1
    <3> QED  BY <1>6, <3>1 DEF Ordered
  <2>2. \A i \in DOMAIN t : t[i].id < n
    BY <1>6 DEF Ordered
  <2>3. \A i \in DOMAIN dl : dl[i] < n
    BY DEF Ordered
  <2>4. \A i \in DOMAIN dl, j \in DOMAIN t : dl[i] < t[j].id
    BY <1>6 DEF Ordered
  <2> QED  BY <2>1, <2>2, <2>3, <2>4
<1>9. \A i \in 1 .. Len(fl) : f[i] = fl[i] /\ i \in DOMAIN fl
  BY <1>2
<1>10. /\ \A i, j \in DOMAIN f : i < j => f[i].pkt.id < f[j].pkt.id
       /\ \A i \in DOMAIN f : f[i].pkt.id < n
  <2>1. \A i \in 1 .. Len(fl) : f[i].pkt.id < w[1].id /\ f[i].pkt.id < n
    BY <1>7, <1>9 DEF Ordered
  <2>2. f[Len(fl) + 1].pkt.id = w[1].id
    BY <1>2, <1>3
  <2>3. w[1].id < n
    BY <1>7 DEF Ordered
  <2>4. ASSUME NEW i \in 1 .. Len(fl), NEW j \in 1 .. Len(fl), i < j
        PROVE  f[i].pkt.id < f[j].pkt.id
    BY <1>9, <2>4 DEF Ordered
  <2>5. \A i \in DOMAIN f : f[i].pkt.id < n
    <3>1. \A i \in DOMAIN f : i \in 1 .. Len(fl) \/ i = Len(fl) + 1
      BY <1>2
    <3> QED  BY <2>1, <2>2, <2>3, <3>1
  <2>6. ASSUME NEW i \in DOMAIN f, NEW j \in DOMAIN f, i < j
        PROVE  f[i].pkt.id < f[j].pkt.id
    <3>1. i \in 1 .. Len(fl) /\ (j \in 1 .. Len(fl) \/ j = Len(fl) + 1)
      BY <1>2, <2>6
    <3> QED  BY <2>1, <2>2, <2>4, <2>6, <3>1
  <2> QED  BY <2>5, <2>6
<1>11. \A i \in DOMAIN f, j \in DOMAIN t : f[i].pkt.id < t[j].id
  <2>1. \A j \in DOMAIN t : w[1].id < t[j].id
    BY <1>6, <1>7 DEF Ordered
  <2>2. \A i \in 1 .. Len(fl), j \in DOMAIN t : fl[i].pkt.id < t[j].id
    BY <1>6, <1>9 DEF Ordered
  <2> QED  BY <1>2, <1>3, <2>1, <2>2, SMTT(30)
<1>12. o => /\ \A i \in DOMAIN dl, j \in DOMAIN f : dl[i] < f[j].pkt.id
            /\ \A i, j \in DOMAIN dl : i < j => dl[i] < dl[j]
  <2>1. \A i \in DOMAIN dl : dl[i] < w[1].id
    BY <1>7 DEF Ordered
  <2>2. o => \A i \in DOMAIN dl, j \in 1 .. Len(fl) : dl[i] < f[j].pkt.id
    BY <1>9 DEF Ordered
  <2>3. o => \A i, j \in DOMAIN dl : i < j => dl[i] < dl[j]
    BY DEF Ordered
  <2> QED  BY <1>2, <1>3, <2>1, <2>2, <2>3
<1> QED  BY <1>8, <1>10, <1>11, <1>12 DEF Ordered, e, t, f

\* A piece of the queue is ordered as the queue is.
LEMMA PieceOrdered ==
    ASSUME NEW w \in Seq(Packets), NEW t \in Seq(Packets), NEW fl, NEW dl, NEW n, NEW o,
           NEW a \in Nat, \A i \in DOMAIN t : i + a \in DOMAIN w /\ t[i] = w[i + a],
           Ordered(w, fl, dl, n, o)
    PROVE  Ordered(t, fl, dl, n, o)
<1>1. ASSUME NEW i \in DOMAIN t, NEW j \in DOMAIN t, i < j PROVE t[i].id < t[j].id
  <2>1. i + a < j + a  BY <1>1
  <2> QED  BY <2>1 DEF Ordered
<1>2. /\ \A i \in DOMAIN t : t[i].id < n
      /\ \A i \in DOMAIN fl, j \in DOMAIN t : fl[i].pkt.id < t[j].id
      /\ \A i \in DOMAIN dl, j \in DOMAIN t : dl[i] < t[j].id
  BY DEF Ordered
<1>3. /\ \A i, j \in DOMAIN fl : i < j => fl[i].pkt.id < fl[j].pkt.id
      /\ \A i \in DOMAIN fl : fl[i].pkt.id < n
      /\ \A i \in DOMAIN dl : dl[i] < n
      /\ o => /\ \A i \in DOMAIN dl, j \in DOMAIN fl : dl[i] < fl[j].pkt.id
              /\ \A i, j \in DOMAIN dl : i < j => dl[i] < dl[j]
  BY DEF Ordered
<1> QED  BY <1>1, <1>2, <1>3 DEF Ordered

\* The packet that arrives is the latest, whichever packet enque() drops.
LEMMA ArrivalOrdered ==
    ASSUME NEW w \in Seq(Packets), NEW p \in Packets, NEW fl \in Seq(Event),
           NEW dl \in Seq(Nat), NEW o, Ordered(w, fl, dl, p.id, o), NEW s,
           s = Append(w, p) \/ s = Tail(Append(w, p)) \/ s = w
    PROVE  Ordered(s, fl, dl, p.id + 1, o)
<1> DEFINE n == p.id
           v == Append(w, p)
<1>1. n \in Nat
  BY DEF Packets
<1>2. /\ DOMAIN w = 1 .. Len(w) /\ Len(w) \in Nat
      /\ DOMAIN v = 1 .. Len(w) + 1 /\ v \in Seq(Packets)
      /\ \A i \in 1 .. Len(w) : v[i] = w[i]
      /\ v[Len(w) + 1] = p
  OBVIOUS
<1>3. \A i \in DOMAIN w : w[i].id \in Nat
  <2>1. \A i \in DOMAIN w : w[i] \in Packets  OBVIOUS
  <2> QED  BY <2>1 DEF Packets
<1>4. \A i \in DOMAIN fl : fl[i].pkt.id \in Nat
  <2>1. \A i \in DOMAIN fl : fl[i] \in Event  OBVIOUS
  <2> QED  BY <2>1 DEF Event, Packets
<1>5. \A i \in DOMAIN dl : dl[i] \in Nat
  OBVIOUS
<1> HIDE DEF v
<1>6. \A i \in DOMAIN v : (i \in DOMAIN w /\ v[i] = w[i]) \/ (i = Len(w) + 1 /\ v[i].id = n)
  BY <1>2
<1> HIDE DEF n
<1>7. ASSUME NEW i \in DOMAIN v, NEW j \in DOMAIN v, i < j PROVE v[i].id < v[j].id
  <2>1. i \in DOMAIN w  BY <1>2, <1>7
  <2> QED  BY <1>2, <1>6, <1>7, <2>1 DEF Ordered, n
<1>8. /\ \A i \in DOMAIN v : v[i].id < n + 1
      /\ \A i \in DOMAIN fl, j \in DOMAIN v : fl[i].pkt.id < v[j].id
      /\ \A i \in DOMAIN dl, j \in DOMAIN v : dl[i] < v[j].id
  <2>1. \A i \in DOMAIN w : w[i].id < n
    BY DEF Ordered, n
  <2>2. \A i \in DOMAIN v : v[i].id < n + 1
    BY <1>1, <1>3, <1>6, <2>1, SMTT(30)
  <2>3. \A i \in DOMAIN fl, j \in DOMAIN v : fl[i].pkt.id < v[j].id
    BY <1>6 DEF Ordered, n
  <2>4. \A i \in DOMAIN dl, j \in DOMAIN v : dl[i] < v[j].id
    BY <1>6 DEF Ordered, n
  <2> QED  BY <2>2, <2>3, <2>4
<1>9. /\ \A i, j \in DOMAIN fl : i < j => fl[i].pkt.id < fl[j].pkt.id
      /\ o => /\ \A i \in DOMAIN dl, j \in DOMAIN fl : dl[i] < fl[j].pkt.id
              /\ \A i, j \in DOMAIN dl : i < j => dl[i] < dl[j]
  BY DEF Ordered
<1>10. (\A i \in DOMAIN fl : fl[i].pkt.id < n + 1) /\ (\A i \in DOMAIN dl : dl[i] < n + 1)
  <2>1. (\A i \in DOMAIN fl : fl[i].pkt.id < n) /\ (\A i \in DOMAIN dl : dl[i] < n)
    BY DEF Ordered, n
  <2> QED  BY <1>1, <1>4, <1>5, <2>1
<1>11. Ordered(v, fl, dl, n + 1, o)
  BY <1>7, <1>8, <1>9, <1>10 DEF Ordered
<1>12. CASE s = v
  BY <1>11, <1>12 DEF n
<1>13. CASE s = Tail(v)
  <2>1. s \in Seq(Packets) /\ \A i \in DOMAIN s : i + 1 \in DOMAIN v /\ s[i] = v[i + 1]
    BY <1>2, <1>13
  <2> QED  BY <1>2, <1>11, <2>1, PieceOrdered DEF n
<1>14. CASE s = w
  <2>1. \A i \in DOMAIN s : i + 0 \in DOMAIN v /\ s[i] = v[i + 0]
    BY <1>2, <1>14
  <2> QED  BY <1>2, <1>11, <1>14, <2>1, PieceOrdered DEF n
<1> QED  BY <1>12, <1>13, <1>14 DEF v

\* A packet leaves propagation, the first one if nothing overtakes.
LEMMA DeliveryOrdered ==
    ASSUME NEW w \in Seq(Packets), NEW fl \in Seq(Event), NEW dl \in Seq(Nat), NEW n \in Nat,
           NEW o, Ordered(w, fl, dl, n, o), NEW i \in 1 .. Len(fl), o => i = 1
    PROVE  Ordered(w, RemoveAt(fl, i), Append(dl, fl[i].pkt.id), n, o)
<1> DEFINE f == RemoveAt(fl, i)
           x == fl[i].pkt.id
           d == Append(dl, x)
           At(k) == IF k < i THEN k ELSE k + 1
<1>1. /\ f \in Seq(Event) /\ Len(f) = Len(fl) - 1
      /\ \A k \in 1 .. Len(fl) - 1 : f[k] = IF k < i THEN fl[k] ELSE fl[k + 1]
  BY RemoveAtShape
<1>2. DOMAIN fl = 1 .. Len(fl) /\ Len(fl) \in Nat /\ i \in DOMAIN fl
  OBVIOUS
<1>3. x \in Nat
  <2>1. fl[i] \in Event  OBVIOUS
  <2> QED  BY <2>1 DEF Event, Packets
<1> HIDE DEF f, x
<1>4. DOMAIN f = 1 .. Len(fl) - 1
  BY <1>1, <1>2
<1>5. /\ DOMAIN dl = 1 .. Len(dl) /\ Len(dl) \in Nat
      /\ DOMAIN d = 1 .. Len(dl) + 1
      /\ \A k \in 1 .. Len(dl) : d[k] = dl[k]
      /\ d[Len(dl) + 1] = x
  BY <1>3
<1> HIDE DEF d
<1>6. \A k \in DOMAIN f : At(k) \in DOMAIN fl /\ f[k] = fl[At(k)] /\ (i = 1 => 1 < At(k))
  BY <1>1, <1>2, <1>4
<1>7. \A k, m \in DOMAIN f : k < m => At(k) < At(m)
  BY <1>2, <1>4
<1>8. \A k \in DOMAIN d : (k \in DOMAIN dl /\ d[k] = dl[k]) \/ (k = Len(dl) + 1 /\ d[k] = x)
  BY <1>5
<1> HIDE DEF At
<1>9. /\ \A k, m \in DOMAIN w : k < m => w[k].id < w[m].id
      /\ \A k \in DOMAIN w : w[k].id < n
  BY DEF Ordered
<1>10. \A k, m \in DOMAIN f : k < m => f[k].pkt.id < f[m].pkt.id
  BY <1>6, <1>7 DEF Ordered
<1>11. /\ \A k \in DOMAIN f : f[k].pkt.id < n
       /\ \A k \in DOMAIN f, m \in DOMAIN w : f[k].pkt.id < w[m].id
  BY <1>6 DEF Ordered
<1>12. x < n /\ \A m \in DOMAIN w : x < w[m].id
  BY <1>2 DEF Ordered, x
<1>13. /\ \A k \in DOMAIN d : d[k] < n
       /\ \A k \in DOMAIN d, m \in DOMAIN w : d[k] < w[m].id
  BY <1>8, <1>12 DEF Ordered
<1>14. ASSUME o, NEW k \in DOMAIN d, NEW m \in DOMAIN f PROVE d[k] < f[m].pkt.id
  <2>1. x < f[m].pkt.id
    <3>1. i = 1 /\ 1 < At(m) /\ At(m) \in DOMAIN fl /\ f[m] = fl[At(m)]
      BY <1>6, <1>14
    <3> QED  BY <1>2, <3>1 DEF Ordered, x
  <2>2. \A l \in DOMAIN dl : dl[l] < f[m].pkt.id
    BY <1>6, <1>14 DEF Ordered
  <2> QED  BY <1>8, <2>1, <2>2
<1>15. ASSUME o, NEW k \in DOMAIN d, NEW m \in DOMAIN d, k < m PROVE d[k] < d[m]
  <2>1. k \in DOMAIN dl /\ d[k] = dl[k]
    BY <1>5, <1>15
  <2>2. \A l \in DOMAIN dl : dl[l] < x
    BY <1>2, <1>15 DEF Ordered, x
  <2>3. CASE m \in DOMAIN dl /\ d[m] = dl[m]
    BY <1>15, <2>1, <2>3 DEF Ordered
  <2> QED  BY <1>8, <2>1, <2>2, <2>3
<1> QED  BY <1>9, <1>10, <1>11, <1>13, <1>14, <1>15 DEF Ordered, d, f, x

-----------------------------------------------------------------------------
(* The steps *)

\* delivered as a sequence of numbers.
LEMMA SafetyTypes ==
    ASSUME TypeOK
    PROVE  /\ q \in Seq(Packets) /\ flight \in Seq(Event) /\ intr \in Seq(Event)
           /\ delivered \in Seq(Nat) /\ next \in Nat /\ latest \in Nat
           /\ par.delay \in Nat /\ par.limit \in Nat /\ setup.limit \in Nat
<1>1. 1 .. MaxPackets \subseteq Nat /\ 1 .. MaxPackets + 1 \subseteq Nat
  BY LinkAssumption
<1>2. delivered \in Seq(Nat)
  <2>1. delivered \in Seq(1 .. MaxPackets)  BY DEF TypeOK
  <2> QED  BY <1>1, <2>1, SeqMonotonic
<1> QED  BY <1>1, <1>2, LinkAssumption DEF TypeOK, Scheduled, Event

\* The queue hands its head to a LinkDelay that has nothing to transmit.
LEMMA HandOn ==
    ASSUME TypeOK, Times, NEW w \in Seq(Packets), w # << >>, NEW n \in Nat,
           Ordered(w, flight, delivered, n, InOrder),
           Recv(w[1], << >>), Left = 0, q' = Tail(w), blocked' = TRUE, next' = n,
           UNCHANGED <<setup, par, delivered, lowered>>
    PROVE  HandlerOnce' /\ Times' /\ Numbers'
<1>1. w[1] \in Packets /\ << >> \in Seq(Event)
  OBVIOUS
<1>2. Times'
  BY <1>1, RecvTimes
<1>3. /\ flight' = Append(flight, [pkt |-> w[1], due |-> Due(w[1])])
      /\ intr' = Append(<< >>, [pkt |-> w[1], due |-> w[1].size * par.slot])
  BY <1>1, RecvTypes
<1>4. Len(intr') = 1
  BY <1>3
<1>5. Ordered(Tail(w), flight', delivered, n, InOrder)
  BY <1>3, SafetyTypes, HandOnOrdered, Zenon
<1>6. InOrder' = InOrder
  BY DEF InOrder
<1>7. Numbers'
  BY <1>5, <1>6, Zenon DEF Numbers
<1> QED  BY <1>2, <1>4, <1>7 DEF HandlerOnce

\* Steps that leave LinkDelay, the delay and the delivered packets alone.
LEMMA SameTimes ==
    ASSUME Times, UNCHANGED <<setup, lowered, flight, intr, latest, par>>
    PROVE  Times'
  BY DEF Times, InOrder, Left

\* An arrival keeps the invariant.
LEMMA ArriveSafe ==
    ASSUME Inv, NEW p \in Packets, Arrive(p)
    PROVE  Inv'
<1> DEFINE s == Arriving(p)
           m == par.limit - (IF par.limit = setup.limit THEN 1 ELSE 0)
<1>1. /\ p.id = next /\ next' = next + 1 /\ p.id \in Nat
      /\ IF blocked \/ ~par.up \/ s = << >>
         THEN q' = s /\ UNCHANGED <<blocked, delayVars>>
         ELSE q' = Tail(s) /\ blocked' = TRUE /\ Recv(s[1], intr)
      /\ UNCHANGED <<setup, par, delivered, aborted, lowered, commands>>
  BY Zenon, SafetyTypes DEF Arrive, Arriving, Inv
<1>2. s \in Seq(Packets) /\ TypeOK /\ Times /\ HandlerOnce
  BY ArrivingType DEF Inv
<1>3. Ordered(s, flight, delivered, next + 1, InOrder)
  <2>1. s = Append(q, p) \/ s = Tail(Append(q, p)) \/ s = q
    BY <1>2, SafetyTypes, EnqueShape DEF Arriving
  <2>2. Ordered(q, flight, delivered, p.id, InOrder)
    BY <1>1, Zenon DEF Inv, Numbers
  <2> HIDE DEF s
  <2>3. Ordered(s, flight, delivered, p.id + 1, InOrder)
    BY <1>2, <2>1, <2>2, SafetyTypes, ArrivalOrdered
  <2> QED  BY <1>1, <2>3
<1>4. ~setup.qib => Len(s) <= m
  <2> SUFFICES ASSUME ~setup.qib PROVE Len(s) <= m
    OBVIOUS
  <2>0. par.limit \in Limits /\ par.limit \in Nat \ {0}
    BY <1>2, LinkAssumption DEF TypeOK
  <2>1. m \in Nat /\ m <= par.limit /\ par.limit - 1 <= m
    BY <2>0
  <2>2. Len(q) <= m
    BY DEF Inv, LimitHolds
  <2> HIDE DEF m
  <2>3. q \in Seq(Packets) /\ par.limit \in Nat
    BY <1>2, SafetyTypes
  <2>4. Len(enque(q, p, setup, par.limit)) <= m
    BY <2>1, <2>2, <2>3, EnqueLimit
  <2> QED  BY <2>2, <2>4 DEF Arriving
<1> HIDE DEF s, m
<1>5. CASE blocked \/ ~par.up \/ s = << >>
  <2>1. q' = s /\ UNCHANGED <<blocked, intr, flight, latest>>
    BY <1>1, <1>5 DEF delayVars
  <2>2. HandlerOnce'
    BY <1>2, <2>1 DEF HandlerOnce
  <2>3. Times'
    BY <1>1, <1>2, <2>1, SameTimes
  <2>4. InOrder' = InOrder
    BY <1>1 DEF InOrder
  <2>5. Numbers'
    BY <1>1, <1>3, <2>1, <2>4 DEF Numbers
  <2>6. LimitHolds'
    BY <1>1, <1>4, <2>1 DEF LimitHolds, m
  <2> QED  BY <1>1, <2>2, <2>3, <2>5, <2>6, ArriveTypes DEF Inv, TransitAsserted
<1>6. CASE ~(blocked \/ ~par.up \/ s = << >>)
  <2>1. q' = Tail(s) /\ blocked' = TRUE /\ Recv(s[1], intr) /\ s # << >> /\ ~blocked
    BY <1>1, <1>6
  <2>2. intr = << >> /\ Left = 0
    <3>1. Len(intr) = 0  BY <1>2, <2>1 DEF HandlerOnce
    <3> QED  BY <1>2, <3>1, SafetyTypes DEF Left
  <2>3. next + 1 \in Nat
    BY <1>2, SafetyTypes
  <2>4. HandlerOnce' /\ Times' /\ Numbers'
    BY <1>1, <1>2, <1>3, <2>1, <2>2, <2>3, HandOn
  <2>5. Len(Tail(s)) = Len(s) - 1
    BY <1>2, <2>1
  <2>6. LimitHolds'
    <3>1. m \in Int
      BY <1>2, SafetyTypes DEF m
    <3>2. ~setup.qib => Len(q') <= m
      BY <1>2, <1>4, <2>1, <2>5, <3>1
    <3> QED  BY <1>1, <3>2 DEF LimitHolds, m
  <2> QED  BY <1>1, <2>4, <2>6, ArriveTypes DEF Inv, TransitAsserted
<1> QED  BY <1>5, <1>6

\* The end of a transmission keeps the invariant.
LEMMA ResumeSafe ==
    ASSUME Inv, Resume
    PROVE  Inv'
<1>1. /\ intr # << >> /\ intr[1].due = 0
      /\ UNCHANGED <<setup, par, next, delivered, lost, aborted, lowered, commands>>
  BY DEF Resume
<1>2. TypeOK /\ Times /\ HandlerOnce /\ Numbers
  BY DEF Inv
<1>3. intr \in Seq(Event) /\ Tail(intr) = << >> /\ blocked /\ Left = 0
  <2>1. intr \in Seq(Event)
    BY <1>2, SafetyTypes
  <2>2. Len(intr) # 0
    BY <1>1, <2>1
  <2>3. blocked /\ Len(intr) = 1
    BY <1>2, <2>2 DEF HandlerOnce
  <2>4. Tail(intr) \in Seq(Event) /\ Len(Tail(intr)) = 0
    BY <1>1, <2>1, <2>3
  <2>5. Tail(intr) = << >>
    BY <2>4, EmptySeq
  <2>6. Left = 0
    BY <1>1 DEF Left
  <2> QED  BY <2>1, <2>3, <2>5, <2>6
<1>4. CASE q = << >>
  <2>1. blocked' = FALSE /\ intr' = << >> /\ UNCHANGED <<q, flight, latest>>
    BY <1>3, <1>4 DEF Resume
  <2>2. HandlerOnce'
    BY <2>1 DEF HandlerOnce
  <2>3. Left' = Left
    BY <1>3, <2>1 DEF Left
  <2>4. Times'
    BY <1>1, <1>2, <2>1, <2>3 DEF Times, InOrder
  <2>5. Numbers' /\ LimitHolds'
    <3>1. InOrder' = InOrder  BY <1>1 DEF InOrder
    <3>2. Numbers'  BY <1>1, <1>2, <2>1, <3>1 DEF Numbers
    <3> QED  BY <1>1, <2>1, <3>2 DEF Inv, LimitHolds
  <2> QED  BY <1>1, <2>2, <2>4, <2>5, ResumeTypes DEF Inv, TransitAsserted
<1>5. CASE q # << >>
  <2>1. q' = Tail(q) /\ Recv(q[1], << >>) /\ blocked' = blocked
    BY <1>3, <1>5 DEF Resume
  <2>2. q \in Seq(Packets) /\ next \in Nat /\ blocked' = TRUE
    BY <1>2, <1>3, <2>1, SafetyTypes DEF TypeOK
  <2>3. HandlerOnce' /\ Times' /\ Numbers'
    BY <1>1, <1>2, <1>3, <1>5, <2>1, <2>2, HandOn DEF Numbers
  <2>4. LimitHolds'
    <3>1. Len(q') = Len(q) - 1 /\ Len(q) \in Nat  BY <1>5, <2>1, <2>2
    <3>2. par.limit \in Nat  BY <1>2, SafetyTypes
    <3> QED  BY <1>1, <3>1, <3>2 DEF Inv, LimitHolds
  <2> QED  BY <1>1, <2>3, <2>4, ResumeTypes DEF Inv, TransitAsserted
<1> QED  BY <1>4, <1>5

\* A delivery keeps the invariant: the first packet in propagation leaves.
LEMMA DeliverSafe ==
    ASSUME Inv, Deliver
    PROVE  Inv'
<1>1. PICK i \in Arrived :
         /\ \A j \in Arrived : i <= j
         /\ IF setup.mode = "dynamic" /\ flight[1].due # 0
            THEN aborted' = TRUE /\ UNCHANGED <<flight, delivered>>
            ELSE /\ flight' = RemoveAt(flight, i)
                 /\ delivered' = Append(delivered, flight[i].pkt.id)
                 /\ UNCHANGED aborted
  BY DEF Deliver
<1>2. UNCHANGED <<setup, par, q, blocked, intr, latest, next, lost, lowered, commands>>
  BY DEF Deliver
<1>3. /\ TypeOK /\ Times /\ Numbers /\ HandlerOnce /\ LimitHolds /\ TransitAsserted
      /\ flight \in Seq(Event) /\ DOMAIN flight = 1 .. Len(flight) /\ Len(flight) \in Nat
  BY SafetyTypes DEF Inv
<1>4. i \in 1 .. Len(flight) /\ flight[i].due = 0 /\ 1 \in 1 .. Len(flight) /\ 1 <= i
  BY <1>3 DEF Arrived
<1>5. \A k \in 1 .. Len(flight) : flight[k].due \in Nat
  <2>1. \A k \in 1 .. Len(flight) : flight[k] \in Event
    BY <1>3
  <2> QED  BY <2>1 DEF Event
<1>6. flight[1].due = 0 => i = 1
  BY <1>1, <1>3, <1>4 DEF Arrived
<1>7. InOrder => flight[1].due = 0
  <2> SUFFICES ASSUME InOrder, i # 1 PROVE flight[1].due = 0
    BY <1>4
  <2>1. 1 < i
    BY <1>4
  <2>2. flight[1].due <= flight[i].due
    BY <1>3, <1>4, <2>1 DEF Times
  <2> QED  BY <1>4, <1>5, <2>2
<1>8. InOrder' = InOrder /\ Left' = Left
  BY <1>2 DEF InOrder, Left
<1>9. HandlerOnce' /\ LimitHolds' /\ par'.limit <= setup'.limit
  BY <1>2 DEF Inv, HandlerOnce, LimitHolds
<1>10. CASE setup.mode = "dynamic" /\ flight[1].due # 0
  <2>1. aborted' = TRUE /\ flight' = flight /\ delivered' = delivered
    BY <1>1, <1>10
  <2>2. TransitAsserted'
    BY <1>2, <1>7, <1>10 DEF TransitAsserted, InOrder
  <2>3. Times'
    BY <1>2, <1>3, <2>1, SameTimes
  <2>4. Numbers'
    BY <1>2, <1>3, <1>8, <2>1 DEF Numbers
  <2> QED  BY <1>9, <2>2, <2>3, <2>4, DeliverTypes DEF Inv
<1>11. CASE ~(setup.mode = "dynamic" /\ flight[1].due # 0)
  <2>1. /\ flight' = RemoveAt(flight, i) /\ aborted' = aborted
        /\ delivered' = Append(delivered, flight[i].pkt.id)
    BY <1>1, <1>11
  <2>2. Ordered(q, flight', delivered', next, InOrder)
    <3>1. q \in Seq(Packets) /\ delivered \in Seq(Nat) /\ next \in Nat
      BY <1>3, SafetyTypes
    <3> QED  BY <1>3, <1>4, <1>6, <1>7, <2>1, <3>1, DeliveryOrdered DEF Numbers
  <2>3. Numbers'
    BY <1>2, <1>8, <2>2 DEF Numbers
  <2>4. /\ Len(flight') = Len(flight) - 1 /\ flight' \in Seq(Event)
        /\ \A k \in 1 .. Len(flight) - 1 :
               flight'[k] = IF k < i THEN flight[k] ELSE flight[k + 1]
    BY <1>3, <1>4, <2>1, RemoveAtShape
  <2> DEFINE At(k) == IF k < i THEN k ELSE k + 1
  <2>5. /\ DOMAIN flight' = 1 .. Len(flight) - 1
        /\ \A k \in DOMAIN flight' : At(k) \in DOMAIN flight /\ flight'[k] = flight[At(k)]
        /\ \A k, l \in DOMAIN flight' : k < l => At(k) < At(l)
    BY <1>3, <1>4, <2>4
  <2> HIDE DEF At
  <2>6. Times'
    <3>1. setup.mode # "avoid" /\ ~lowered =>
              \A k \in DOMAIN flight' : flight'[k].due <= Left + par.delay
      BY <1>3, <2>5 DEF Times
    <3>2. setup.mode = "avoid" => \A k \in DOMAIN flight' : flight'[k].due <= latest
      BY <1>3, <2>5 DEF Times
    <3>3. InOrder => \A k, l \in DOMAIN flight' : k < l => flight'[k].due <= flight'[l].due
      BY <1>3, <2>5 DEF Times
    <3> QED  BY <1>2, <1>8, <3>1, <3>2, <3>3 DEF Times
  <2>7. TransitAsserted'
    BY <1>2, <1>3, <2>1 DEF TransitAsserted
  <2> QED  BY <1>9, <2>3, <2>6, <2>7, DeliverTypes DEF Inv
<1> QED  BY <1>10, <1>11

\* An event, one unit of time later.
LEMMA EventLater ==
    ASSUME NEW e \in Event
    PROVE  [e EXCEPT !.due = @ - 1].pkt = e.pkt /\ [e EXCEPT !.due = @ - 1].due = e.due - 1
  BY DEF Event

\* Time keeps the invariant.
LEMMA TickSafe ==
    ASSUME Inv, Tick
    PROVE  Inv'
<1>1. /\ flight' = [i \in DOMAIN flight |-> [flight[i] EXCEPT !.due = @ - 1]]
      /\ intr' = [i \in DOMAIN intr |-> [intr[i] EXCEPT !.due = @ - 1]]
      /\ \A i \in DOMAIN flight : flight[i].due > 0
      /\ \A i \in DOMAIN intr : intr[i].due > 0
      /\ latest' = IF latest = 0 THEN 0 ELSE latest - 1
      /\ UNCHANGED <<setup, par, q, blocked, next, delivered, lost, aborted, lowered, commands>>
  BY DEF Tick
<1>2. /\ TypeOK /\ TypeOK' /\ Times /\ Numbers /\ flight \in Seq(Event) /\ intr \in Seq(Event)
      /\ latest \in Nat /\ par.delay \in Nat
  BY SafetyTypes, TickTypes DEF Inv
<1>3. \A i \in DOMAIN flight : flight[i] \in Event /\ flight[i].due \in Nat
  <2>1. \A i \in DOMAIN flight : flight[i] \in Event  BY <1>2
  <2> QED  BY <2>1 DEF Event
<1>4. /\ DOMAIN flight' = DOMAIN flight
      /\ \A i \in DOMAIN flight : /\ flight'[i].pkt = flight[i].pkt
                                  /\ flight'[i].due = flight[i].due - 1
  <2>1. ASSUME NEW i \in DOMAIN flight
        PROVE  /\ flight'[i].pkt = flight[i].pkt
               /\ flight'[i].due = flight[i].due - 1
    <3>1. flight'[i] = [flight[i] EXCEPT !.due = @ - 1]
      BY <1>1, Zenon
    <3> QED  BY <1>3, <3>1, EventLater
  <2> QED  BY <1>1, <2>1
<1>5. /\ Len(intr') = Len(intr)
      /\ intr # << >> => /\ intr' # << >> /\ intr[1].due \in Nat /\ intr[1].due > 0
                         /\ intr'[1].due = intr[1].due - 1
  <2>1. DOMAIN intr' = DOMAIN intr /\ DOMAIN intr = 1 .. Len(intr) /\ Len(intr) \in Nat
    BY <1>1, <1>2
  <2>2. intr' \in Seq(Event)
    BY <1>2 DEF TypeOK, Scheduled, Event
  <2>3. Len(intr') = Len(intr)
    BY <2>1, <2>2
  <2>4. ASSUME intr # << >>
        PROVE  /\ intr' # << >> /\ intr[1].due \in Nat /\ intr[1].due > 0
               /\ intr'[1].due = intr[1].due - 1
    <3>1. 1 \in DOMAIN intr /\ Len(intr) # 0  BY <1>2, <2>4
    <3>2. intr[1] \in Event /\ intr'[1] = [intr[1] EXCEPT !.due = @ - 1]
      <4>1. intr'[1] = [intr[1] EXCEPT !.due = @ - 1]  BY <1>1, <3>1, Zenon
      <4> QED  BY <1>2, <3>1, <4>1
    <3>3. intr[1].due \in Nat  BY <3>2 DEF Event
    <3>4. intr' # << >>  BY <2>3, <3>1, EmptySeq
    <3> QED  BY <1>1, <3>1, <3>2, <3>3, <3>4, EventLater
  <2> QED  BY <2>3, <2>4
<1>6. HandlerOnce'
  BY <1>1, <1>5 DEF Inv, HandlerOnce
<1>7. InOrder' = InOrder
  BY <1>1 DEF InOrder
<1>8. Times'
  <2>1. ASSUME setup.mode # "avoid", ~lowered, NEW i \in DOMAIN flight
        PROVE  flight'[i].due <= Left' + par.delay
    <3>0. flight[i].due \in Nat /\ flight[i].due > 0 /\ flight'[i].due = flight[i].due - 1
      BY <1>1, <1>3, <1>4
    <3>1. flight[i].due <= Left + par.delay
      BY <1>2, <2>1 DEF Times
    <3>2. CASE intr = << >>
      <4>1. Left = 0 /\ Left' = 0
        <5>1. intr' = << >>  BY <1>1, <3>2
        <5> QED  BY <3>2, <5>1 DEF Left
      <4> QED  BY <1>2, <3>0, <3>1, <4>1
    <3>3. CASE intr # << >>
      <4>1. Left = intr[1].due /\ Left' = intr[1].due - 1 /\ intr[1].due \in Nat
        BY <1>5, <3>3 DEF Left
      <4>2. flight[i].due <= intr[1].due + par.delay /\ par.delay \in Nat
        BY <1>2, <3>1, <4>1
      <4>3. flight[i].due - 1 <= (intr[1].due - 1) + par.delay
        BY <3>0, <4>1, <4>2
      <4> QED  BY <3>0, <4>1, <4>3
    <3> QED  BY <3>2, <3>3
  <2>2. ASSUME setup.mode = "avoid", NEW i \in DOMAIN flight
        PROVE  flight'[i].due <= latest'
    <3>1. flight[i].due <= latest
      BY <1>2, <2>2 DEF Times
    <3>2. flight[i].due \in Nat /\ flight[i].due > 0 /\ flight'[i].due = flight[i].due - 1
      BY <1>1, <1>3, <1>4
    <3>3. latest' = IF latest = 0 THEN 0 ELSE latest - 1
      BY <1>1
    <3> QED  BY <1>2, <3>1, <3>2, <3>3
  <2>3. ASSUME InOrder, NEW i \in DOMAIN flight, NEW j \in DOMAIN flight, i < j
        PROVE  flight'[i].due <= flight'[j].due
    <3>1. flight[i].due <= flight[j].due
      BY <1>2, <2>3 DEF Times
    <3> QED  BY <1>3, <1>4, <3>1
  <2>4. setup' = setup /\ lowered' = lowered /\ par' = par
    BY <1>1
  <2> QED  BY <1>4, <1>7, <2>1, <2>2, <2>3, <2>4 DEF Times
<1>9. Numbers'
  <2>1. Ordered(q, flight', delivered, next, InOrder)
    BY <1>2, <1>4 DEF Numbers, Ordered
  <2> QED  BY <1>1, <1>7, <2>1 DEF Numbers
<1>10. LimitHolds' /\ par'.limit <= setup'.limit /\ TransitAsserted'
  BY <1>1 DEF Inv, LimitHolds, TransitAsserted
<1> QED  BY <1>2, <1>6, <1>8, <1>9, <1>10 DEF Inv

\* A command that leaves the queue, LinkDelay and the packets alone, and the
\* delay if packets are propagating and it was never lowered.
LEMMA QuietSafe ==
    ASSUME Inv, TypeOK', par'.limit = par.limit,
           UNCHANGED <<setup, q, blocked, delayVars, next, delivered, aborted>>,
           lowered => lowered',
           lowered' \/ flight = << >> \/ par'.delay >= par.delay
    PROVE  Inv'
<1>1. UNCHANGED <<setup, q, blocked, intr, flight, latest, next, delivered, aborted>>
  BY DEF delayVars
<1>2. (InOrder' => InOrder) /\ Left' = Left
  BY <1>1 DEF InOrder, Left
<1>3. /\ flight \in Seq(Event) /\ par.delay \in Nat /\ par'.delay \in Nat /\ Left \in Nat
      /\ \A i \in DOMAIN flight : flight[i].due \in Nat
  <2>1. flight \in Seq(Event) /\ intr \in Seq(Event) /\ par.delay \in Nat
    BY SafetyTypes DEF Inv
  <2>2. par'.delay \in Nat
    BY LinkAssumption DEF TypeOK
  <2>3. Left \in Nat
    <3>1. intr # << >> => intr[1] \in Event  BY <2>1
    <3> QED  BY <3>1 DEF Left, Event
  <2>4. \A i \in DOMAIN flight : flight[i].due \in Nat
    <3>1. \A i \in DOMAIN flight : flight[i] \in Event  BY <2>1
    <3> QED  BY <3>1 DEF Event
  <2> QED  BY <2>1, <2>2, <2>3, <2>4
<1>4. Times'
  <2>1. ASSUME setup.mode # "avoid", ~lowered', NEW i \in DOMAIN flight
        PROVE  flight[i].due <= Left + par'.delay
    <3>1. ~lowered /\ flight # << >>  BY <2>1
    <3>2. flight[i].due <= Left + par.delay
      BY <2>1, <3>1 DEF Inv, Times
    <3>3. par'.delay >= par.delay
      BY <2>1, <3>1
    <3>4. flight[i].due \in Nat
      BY <1>3
    <3> QED  BY <1>3, <3>2, <3>3, <3>4
  <2>2. /\ setup.mode = "avoid" => \A i \in DOMAIN flight : flight[i].due <= latest
        /\ InOrder => \A i, j \in DOMAIN flight : i < j => flight[i].due <= flight[j].due
    BY DEF Inv, Times
  <2> QED  BY <1>1, <1>2, <2>1, <2>2 DEF Times
<1>5. Numbers'
  <2>1. Ordered(q, flight, delivered, next, InOrder')
    BY <1>2 DEF Inv, Numbers, Ordered
  <2> QED  BY <1>1, <2>1 DEF Numbers
<1>6. HandlerOnce' /\ LimitHolds' /\ par'.limit <= setup'.limit /\ TransitAsserted'
  BY <1>1 DEF Inv, HandlerOnce, LimitHolds, TransitAsserted
<1> QED  BY <1>4, <1>5, <1>6 DEF Inv

\* shrink-queue drops what a lowered limit no longer allows.
LEMMA ShrinkSafe ==
    ASSUME Inv, NEW n \in Limits, ShrinkQueue(n)
    PROVE  Inv'
<1>1. /\ n < par.limit /\ q' = shrink_queue(q, setup, n)
      /\ UNCHANGED <<setup, next, delivered, aborted, blocked, intr, flight, latest, lowered>>
      /\ par' = [par EXCEPT !.limit = n]
  BY DEF ShrinkQueue, Command, delayVars
<1>2. par'.limit = n /\ par'.delay = par.delay
  BY <1>1 DEF Inv, TypeOK
<1>3. TypeOK /\ TypeOK'
  BY CommandTypes DEF Inv
<1>4. q \in Seq(Packets) /\ setup \in Setups /\ n \in Nat /\ q' \in Seq(Packets)
  BY <1>3, LinkAssumption DEF TypeOK, Setups
<1>5. PICK a, b \in 0 .. Len(q) : q' = SubSeq(q, a + 1, b)
  BY <1>1, <1>4, ShrinkShape
<1>6. ~setup.qib => Len(q') <= n
  BY <1>1, <1>4, ShrinkShape
<1>7. InOrder' = InOrder /\ Left' = Left
  BY <1>1 DEF InOrder, Left
<1>8. Numbers'
  <2>1. \A i \in DOMAIN q' : i + a \in DOMAIN q /\ q'[i] = q[i + a]
    <3>1. DOMAIN q = 1 .. Len(q) /\ Len(q) \in Nat
      BY <1>4
    <3>2. /\ DOMAIN q' = 1 .. (IF a + 1 <= b THEN b - a ELSE 0)
          /\ \A i \in 1 .. b - a : q'[i] = q[i + a]
      BY <1>4, <1>5
    <3> QED  BY <3>1, <3>2
  <2>2. a \in Nat
    BY <1>4
  <2>3. Ordered(q', flight, delivered, next, InOrder)
    BY <1>4, <2>1, <2>2, PieceOrdered DEF Inv, Numbers
  <2> QED  BY <1>1, <1>7, <2>3 DEF Numbers
<1>9. Times'
  BY <1>1, <1>2, <1>7 DEF Inv, Times
<1>10. LimitHolds' /\ par'.limit <= setup'.limit
  <2>1. par.limit \in Nat /\ setup.limit \in Nat /\ par.limit <= setup.limit
    BY <1>3, SafetyTypes DEF Inv
  <2>2. n < setup.limit
    BY <1>1, <1>4, <2>1
  <2> QED  BY <1>1, <1>2, <1>4, <1>6, <2>1, <2>2 DEF LimitHolds
<1>11. HandlerOnce' /\ TransitAsserted'
  BY <1>1 DEF Inv, HandlerOnce, TransitAsserted
<1> QED  BY <1>3, <1>8, <1>9, <1>10, <1>11 DEF Inv

\* A failure empties the queue and LinkDelay, but not intr_.
LEMMA DownSafe ==
    ASSUME Inv, Down
    PROVE  Inv'
<1>1. /\ q' = << >> /\ flight' = << >>
      /\ UNCHANGED <<setup, next, delivered, aborted, blocked, intr, latest, lowered>>
      /\ par' = [par EXCEPT !.up = FALSE]
  BY DEF Down, Command
<1>2. TypeOK /\ TypeOK'
  BY CommandTypes DEF Inv
<1>3. par'.limit = par.limit
  BY <1>1, <1>2 DEF TypeOK
<1>4. Times'
  BY <1>1 DEF Times
<1>5. Numbers'
  <2>1. InOrder' = InOrder
    BY <1>1 DEF InOrder
  <2>2. Ordered(<< >>, << >>, delivered, next, InOrder)
    BY DEF Inv, Numbers, Ordered
  <2> QED  BY <1>1, <2>1, <2>2 DEF Numbers
<1>6. LimitHolds' /\ par'.limit <= setup'.limit
  <2>1. par.limit \in Nat \ {0}
    BY <1>2, LinkAssumption DEF TypeOK
  <2> QED  BY <1>1, <1>3, <2>1 DEF Inv, LimitHolds
<1>7. HandlerOnce' /\ TransitAsserted'
  BY <1>1 DEF Inv, HandlerOnce, TransitAsserted
<1> QED  BY <1>2, <1>4, <1>5, <1>6, <1>7 DEF Inv

\* The other commands keep the invariant.
LEMMA CommandSafe ==
    ASSUME Inv,
           \/ \E b \in Slots : SetBandwidth(b)
           \/ \E d \in PropDelays : SetDelay(d)
           \/ Up
    PROVE  Inv'
<1>1. TypeOK /\ TypeOK'
  BY CommandTypes DEF Inv
<1>2. CASE \E b \in Slots : SetBandwidth(b)
  <2>1. PICK b \in Slots : SetBandwidth(b)  BY <1>2
  <2>2. /\ UNCHANGED <<setup, q, blocked, delayVars, next, delivered, aborted, lowered>>
        /\ par' = [par EXCEPT !.slot = b]
    BY <2>1 DEF SetBandwidth, Command
  <2>3. par'.limit = par.limit /\ par'.delay = par.delay /\ par.delay \in Nat
    BY <1>1, <2>2, LinkAssumption DEF TypeOK
  <2> QED  BY <1>1, <2>2, <2>3, QuietSafe
<1>3. CASE \E d \in PropDelays : SetDelay(d)
  <2>1. PICK d \in PropDelays : SetDelay(d)  BY <1>3
  <2>2. /\ UNCHANGED <<setup, q, blocked, delayVars, next, delivered, aborted>>
        /\ par' = [par EXCEPT !.delay = d]
        /\ lowered' = (lowered \/ (d < par.delay /\ flight # <<>>))
    BY <2>1 DEF SetDelay, Command
  <2>3. par'.limit = par.limit /\ par'.delay = d /\ par.delay \in Nat /\ d \in Nat
    BY <1>1, <2>2, LinkAssumption DEF TypeOK
  <2>4. d < par.delay \/ d >= par.delay
    BY <2>3
  <2>5. (lowered => lowered') /\ (lowered' \/ flight = << >> \/ d >= par.delay)
    BY <2>2, <2>4, Zenon
  <2> QED  BY <1>1, <2>2, <2>3, <2>5, QuietSafe
<1>4. CASE Up
  <2>1. /\ UNCHANGED <<setup, q, blocked, delayVars, next, delivered, aborted, lowered>>
        /\ par' = [par EXCEPT !.up = TRUE]
    BY <1>4 DEF Up, Command
  <2>2. par'.limit = par.limit /\ par'.delay = par.delay /\ par.delay \in Nat
    BY <1>1, <2>1, LinkAssumption DEF TypeOK
  <2> QED  BY <1>1, <2>1, <2>2, QuietSafe
<1> QED  BY <1>2, <1>3, <1>4

-----------------------------------------------------------------------------
(* The theorems *)

\* The invariant of the link holds in every state of every script.
THEOREM Invariance == Spec => []Inv
<1>1. Init => Inv
  <2> SUFFICES ASSUME Init, TypeOK PROVE Inv
    BY TypeInit
  <2>1. HandlerOnce
    BY DEF Init, HandlerOnce
  <2>2. par.limit = setup.limit /\ setup.limit \in Nat \ {0}
    <3>1. par.limit = setup.limit
      BY DEF Init
    <3> QED  BY <3>1, LinkAssumption DEF TypeOK
  <2>3. LimitHolds /\ par.limit <= setup.limit
    BY <2>2 DEF Init, LimitHolds
  <2>4. Times /\ Numbers /\ TransitAsserted
    BY DEF Init, Times, Numbers, Ordered, TransitAsserted
  <2> QED  BY <2>1, <2>3, <2>4 DEF Inv
<1>2. Inv /\ [Next]_vars => Inv'
  <2> SUFFICES ASSUME Inv, [Next]_vars PROVE Inv'
      OBVIOUS
  <2>1. CASE UNCHANGED vars
    <3>1. TypeOK'
      BY <2>1 DEF vars, Inv, TypeOK
    <3>2. InOrder' = InOrder /\ Left' = Left
      BY <2>1 DEF vars, InOrder, Left
    <3>3. Times' /\ Numbers'
      BY <2>1, <3>2 DEF vars, Inv, Times, Numbers
    <3> QED  BY <2>1, <3>1, <3>3
             DEF vars, Inv, HandlerOnce, LimitHolds, TransitAsserted
  <2> QED  BY <2>1, ArriveSafe, ResumeSafe, DeliverSafe, TickSafe, ShrinkSafe, DownSafe,
              CommandSafe DEF Next
<1> QED  BY <1>1, <1>2, PTL DEF Spec

\* LinkDelay never schedules intr_ while it is scheduled: Scheduler::schedule()
\* would abort the simulation.
THEOREM IntrScheduledOnce == Spec => []HandlerOnce
<1>1. Inv => HandlerOnce
  BY DEF Inv
<1> QED  BY <1>1, Invariance, PTL

\* The DropTail queue keeps limit_ in packets, also a limit lowered under way.
THEOREM PacketLimit == Spec => []LimitHolds
<1>1. Inv => LimitHolds
  BY DEF Inv
<1> QED  BY <1>1, Invariance, PTL

\* Packets leave the link in the order of their arrival, for every sequence of
\* sizes, bandwidths, delays and failures that does not lower the delay under
\* way, and with avoidReordering_ for every one.
THEOREM OrderKept == Spec => []DeliveredInOrder
<1>1. Inv => DeliveredInOrder
  BY DEF Inv, Numbers, Ordered, InOrder, DeliveredInOrder
<1> QED  BY <1>1, Invariance, PTL

\* The assertion of LinkDelay::handle() cannot fail unless the delay is lowered.
THEOREM AssertionHolds == Spec => []TransitAsserted
<1>1. Inv => TransitAsserted
  BY DEF Inv
<1> QED  BY <1>1, Invariance, PTL

-----------------------------------------------------------------------------
(* The queue's promise *)

\* LinkDelay transmits the packet that it was given, or none.
LEMMA OnePacket ==
    ASSUME NEW p \in Packets, NEW d
    PROVE  /\ [i \in DOMAIN << >> |-> << >>[i].pkt] = << >>
           /\ [i \in DOMAIN <<[pkt |-> p, due |-> d]>> |-> <<[pkt |-> p, due |-> d]>>[i].pkt] = <<p>>
  OBVIOUS

\* An arrival is one at the abstract queue, or is refused by the link.
LEMMA ArriveRefines ==
    ASSUME Inv, NEW p \in Packets, Arrive(p)
    PROVE  QueuePart!Arrive(p) \/ UNCHANGED QueuePart!vars
<1> DEFINE s == Arriving(p)
<1>1. /\ IF blocked \/ ~par.up \/ s = << >>
         THEN q' = s /\ UNCHANGED <<blocked, delayVars>>
         ELSE q' = Tail(s) /\ blocked' = TRUE /\ Recv(s[1], intr)
  BY Zenon DEF Arrive, Arriving
<1>2. TypeOK /\ HandlerOnce /\ q \in Seq(Packets) /\ s \in Seq(Packets)
  BY SafetyTypes, ArrivingType DEF Inv
<1>3. CASE ~par.up
  <2>1. q' = q /\ blocked' = blocked /\ intr' = intr
    BY <1>1, <1>3 DEF delayVars, Arriving
  <2> QED  BY <2>1 DEF QueuePart!vars, Transmitting
<1>4. CASE par.up
  <2>1. s \in QueuePart!AfterArrival(p)
    <3>1. s = Append(q, p) \/ s = Tail(Append(q, p)) \/ s = q
      BY <1>2, <1>4, SafetyTypes, EnqueShape DEF Arriving
    <3>2. \A i : QueuePart!RemoveAt(Append(q, p), i) = RemoveAt(Append(q, p), i)
      BY DEF RemoveAt, QueuePart!RemoveAt
    <3>3. 1 \in 1 .. Len(q) + 1 /\ Len(q) + 1 \in 1 .. Len(q) + 1
      BY <1>2
    <3>4. RemoveAt(Append(q, p), 1) = Tail(Append(q, p))
      BY <1>2 DEF RemoveAt
    <3>5. RemoveAt(Append(q, p), Len(q) + 1) = q
      BY <1>2 DEF RemoveAt
    <3> HIDE DEF s
    <3> QED  BY <3>1, <3>2, <3>3, <3>4, <3>5, Zenon DEF QueuePart!AfterArrival
  <2> HIDE DEF s
  <2>2. CASE blocked \/ s = << >>
    <3>1. q' = s /\ blocked' = blocked /\ intr' = intr
      BY <1>1, <2>2 DEF delayVars
    <3> QED  BY <2>1, <2>2, <3>1 DEF QueuePart!Arrive, Transmitting
  <2>3. CASE ~(blocked \/ s = << >>)
    <3>1. q' = Tail(s) /\ blocked' = TRUE /\ Recv(s[1], intr) /\ s[1] \in Packets
      BY <1>1, <1>2, <1>4, <2>3
    <3>2. intr = << >>
      <4>1. intr \in Seq(Event) /\ Len(intr) = 0
        BY <1>2, <2>3, SafetyTypes DEF HandlerOnce
      <4> QED  BY <4>1, EmptySeq
    <3>3. intr' = <<[pkt |-> s[1], due |-> s[1].size * par.slot]>>
      BY <3>1, <3>2 DEF Recv
    <3>4. Transmitting = << >> /\ Transmitting' = <<s[1]>>
      BY <3>1, <3>2, <3>3, OnePacket DEF Transmitting
    <3>5. Transmitting' = Append(Transmitting, Head(s))
      BY <1>2, <3>4
    <3> QED  BY <2>1, <2>3, <3>1, <3>5 DEF QueuePart!Arrive
  <2> QED  BY <2>2, <2>3
<1> QED  BY <1>3, <1>4

\* The end of a transmission is one at the abstract queue.
LEMMA ResumeRefines ==
    ASSUME Inv, Resume
    PROVE  QueuePart!Finish
<1>1. intr # << >> /\ intr \in Seq(Event) /\ q \in Seq(Packets)
  BY SafetyTypes DEF Resume, Inv
<1>2. Len(intr) = 1
  <2>1. Len(intr) # 0  BY <1>1
  <2> QED  BY <2>1 DEF Inv, HandlerOnce
<1>3. Tail(intr) = << >>
  <2>1. Tail(intr) \in Seq(Event) /\ Len(Tail(intr)) = 0
    BY <1>1, <1>2
  <2> QED  BY <2>1, EmptySeq
<1>4. Transmitting = <<intr[1].pkt>>
  <2>1. DOMAIN intr = 1 .. 1
    BY <1>1, <1>2
  <2> QED  BY <2>1 DEF Transmitting
<1>5. Transmitting # << >> /\ Tail(Transmitting) = << >>
  BY <1>4
<1>6. CASE q = << >>
  <2>1. blocked' = FALSE /\ intr' = << >> /\ q' = q
    BY <1>3, <1>6 DEF Resume
  <2>2. Transmitting' = << >>
    BY <2>1 DEF Transmitting
  <2> QED  BY <1>5, <1>6, <2>1, <2>2 DEF QueuePart!Finish
<1>7. CASE q # << >>
  <2>0. q' = Tail(q) /\ Recv(q[1], << >>) /\ blocked' = blocked
    BY <1>3, <1>7 DEF Resume
  <2>1. q' = Tail(q) /\ Recv(q[1], << >>) /\ blocked' = blocked /\ q[1] \in Packets
    BY <1>1, <1>7, <2>0
  <2>2. intr' = <<[pkt |-> q[1], due |-> q[1].size * par.slot]>>
    BY <2>1 DEF Recv
  <2>3. Transmitting' = <<q[1]>>
    BY <2>1, <2>2, OnePacket DEF Transmitting
  <2>4. Transmitting' = Append(Tail(Transmitting), Head(q))
    <3>1. Head(q) = q[1]  BY <1>1, <1>7
    <3>2. Append(<< >>, q[1]) = <<q[1]>>  OBVIOUS
    <3> QED  BY <1>5, <2>3, <3>1, <3>2
  <2> QED  BY <1>5, <1>7, <2>1, <2>4 DEF QueuePart!Finish
<1> QED  BY <1>6, <1>7

\* Time passes for the packet in transmission, which stays the same.
LEMMA TickRefines ==
    ASSUME Inv, Tick
    PROVE  UNCHANGED QueuePart!vars
<1>1. /\ q' = q /\ blocked' = blocked
      /\ intr' = [i \in DOMAIN intr |-> [intr[i] EXCEPT !.due = @ - 1]]
  BY DEF Tick
<1>2. ASSUME NEW i \in DOMAIN intr PROVE intr'[i].pkt = intr[i].pkt
  <2>1. intr[i] \in Event
    BY SafetyTypes DEF Inv
  <2>2. intr'[i] = [intr[i] EXCEPT !.due = @ - 1]
    BY <1>1, Zenon
  <2> QED  BY <2>1, <2>2, EventLater
<1>3. DOMAIN intr' = DOMAIN intr
  BY <1>1
<1>4. Transmitting' = Transmitting
  BY <1>2, <1>3 DEF Transmitting
<1> QED  BY <1>1, <1>4 DEF QueuePart!vars

\* Every step of the link is one of the abstract queue, or none.
LEMMA StepRefines == Inv /\ [Next]_vars => [QueuePart!Next]_(QueuePart!vars)
<1> SUFFICES ASSUME Inv, [Next]_vars PROVE [QueuePart!Next]_(QueuePart!vars)
  OBVIOUS
<1>1. CASE \E p \in Packets : Arrive(p)
  BY <1>1, ArriveRefines DEF QueuePart!Next
<1>2. CASE Resume
  BY <1>2, ResumeRefines DEF QueuePart!Next
<1>3. CASE Tick
  BY <1>3, TickRefines
<1>4. CASE \E n \in Limits : ShrinkQueue(n)
  <2>1. PICK n \in Limits : ShrinkQueue(n)  BY <1>4
  <2>2. q' = shrink_queue(q, setup, n) /\ blocked' = blocked /\ intr' = intr
    BY <2>1 DEF ShrinkQueue, delayVars
  <2>3. q \in Seq(Packets) /\ setup \in Setups /\ n \in Nat
    BY LinkAssumption DEF Inv, TypeOK, Setups
  <2>4. PICK a, b \in 0 .. Len(q) : q' = SubSeq(q, a + 1, b)
    BY <2>2, <2>3, ShrinkShape
  <2>5. QueuePart!Shrink
    BY <2>2, <2>4 DEF QueuePart!Shrink, Transmitting
  <2> QED  BY <2>5 DEF QueuePart!Next
<1>5. CASE Down
  <2>1. QueuePart!Flush
    BY <1>5 DEF Down, QueuePart!Flush, Transmitting
  <2> QED  BY <2>1 DEF QueuePart!Next
<1>6. CASE \/ Deliver \/ Up \/ UNCHANGED vars
           \/ \E b \in Slots : SetBandwidth(b)
           \/ \E d \in PropDelays : SetDelay(d)
  <2>1. q' = q /\ blocked' = blocked /\ intr' = intr
    BY <1>6 DEF Deliver, Up, vars, SetBandwidth, SetDelay, delayVars
  <2> QED  BY <2>1 DEF QueuePart!vars, Transmitting
<1> QED  BY <1>1, <1>2, <1>3, <1>4, <1>5, <1>6 DEF Next

\* The DropTail queue keeps the promise of LossyFifo to the link, across
\* failures, recoveries and lowered limits.
THEOREM QueueRefinement == Spec => QueueImplements
<1>1. Init => QueuePart!Init
  BY DEF Init, QueuePart!Init, Transmitting
<1> QED  BY <1>1, StepRefines, Invariance, PTL DEF Spec, QueueImplements, QueuePart!Spec

-----------------------------------------------------------------------------
(* Each packet is in one place *)

\* Of the numbers below n, those in w wait, those in f propagate, those in d
\* were delivered and those in l lost.
Parted(w, f, d, l, n) ==
    /\ w \cup f \cup d \cup l = 1 .. n - 1
    /\ w \cap f = {} /\ w \cap d = {} /\ w \cap l = {}
    /\ f \cap d = {} /\ f \cap l = {} /\ d \cap l = {}

FlightOf(fl) == {fl[i].pkt.id : i \in DOMAIN fl}

Placed ==
    /\ Parted(Ids(q), FlightOf(flight), Range(delivered), lost, next)
    /\ \A i, j \in DOMAIN delivered : delivered[i] = delivered[j] => i = j

\* The numbers in a queue that one more packet joins.
LEMMA IdsAppend ==
    ASSUME NEW s \in Seq(Packets), NEW p \in Packets
    PROVE  Ids(Append(s, p)) = Ids(s) \cup {p.id}
<1>1. /\ DOMAIN Append(s, p) = DOMAIN s \cup {Len(s) + 1}
      /\ \A i \in DOMAIN s : Append(s, p)[i] = s[i]
      /\ Append(s, p)[Len(s) + 1] = p
  OBVIOUS
<1> QED  BY <1>1 DEF Ids

\* The numbers in a queue that its first packet leaves.
LEMMA IdsTail ==
    ASSUME NEW s \in Seq(Packets), s # << >>, \A i, j \in DOMAIN s : i < j => s[i].id < s[j].id
    PROVE  s[1].id \in Ids(s) /\ Ids(Tail(s)) = Ids(s) \ {s[1].id}
<1>1. /\ DOMAIN s = 1 .. Len(s) /\ Len(s) \in Nat /\ 1 \in DOMAIN s
      /\ DOMAIN Tail(s) = 1 .. Len(s) - 1
      /\ \A i \in DOMAIN Tail(s) : Tail(s)[i] = s[i + 1]
  OBVIOUS
<1>2. \A i \in DOMAIN s : s[i].id \in Nat
  <2>1. \A i \in DOMAIN s : s[i] \in Packets
    BY <1>1
  <2> QED  BY <2>1, LinkAssumption DEF Packets
<1>3. Ids(Tail(s)) \subseteq Ids(s) \ {s[1].id}
  <2> SUFFICES ASSUME NEW i \in DOMAIN Tail(s) PROVE Tail(s)[i].id \in Ids(s) \ {s[1].id}
    BY DEF Ids
  <2>1. i + 1 \in DOMAIN s /\ 1 < i + 1 /\ Tail(s)[i] = s[i + 1]
    BY <1>1
  <2>2. s[1].id < s[i + 1].id
    BY <1>1, <2>1
  <2> QED  BY <1>1, <1>2, <2>1, <2>2 DEF Ids
<1>4. Ids(s) \ {s[1].id} \subseteq Ids(Tail(s))
  <2> SUFFICES ASSUME NEW i \in DOMAIN s, s[i].id # s[1].id PROVE s[i].id \in Ids(Tail(s))
    BY DEF Ids
  <2>1. i - 1 \in DOMAIN Tail(s) /\ (i - 1) + 1 = i
    BY <1>1
  <2>2. Tail(s)[i - 1] = s[i]
    BY <1>1, <2>1
  <2> QED  BY <2>1, <2>2 DEF Ids
<1> QED  BY <1>1, <1>3, <1>4 DEF Ids

\* A packet begins to propagate.
LEMMA FlightAppend ==
    ASSUME NEW fl \in Seq(Event), NEW p \in Packets, NEW x \in Nat
    PROVE  FlightOf(Append(fl, [pkt |-> p, due |-> x])) = FlightOf(fl) \cup {p.id}
<1> DEFINE e == [pkt |-> p, due |-> x]
<1>1. e.pkt = p /\ e \in Event
  BY DEF Event
<1> HIDE DEF e
<1>2. /\ DOMAIN Append(fl, e) = DOMAIN fl \cup {Len(fl) + 1}
      /\ \A i \in DOMAIN fl : Append(fl, e)[i] = fl[i]
      /\ Append(fl, e)[Len(fl) + 1] = e
  BY <1>1
<1>3. FlightOf(Append(fl, e)) = FlightOf(fl) \cup {p.id}
  BY <1>1, <1>2 DEF FlightOf
<1> QED  BY <1>3 DEF e

\* A packet arrives.
LEMMA FlightRemove ==
    ASSUME NEW fl \in Seq(Event), NEW i \in 1 .. Len(fl),
           \A j, k \in DOMAIN fl : j < k => fl[j].pkt.id < fl[k].pkt.id
    PROVE  /\ fl[i].pkt.id \in FlightOf(fl)
           /\ FlightOf(RemoveAt(fl, i)) = FlightOf(fl) \ {fl[i].pkt.id}
<1> DEFINE g == RemoveAt(fl, i)
           L == Len(fl)
<1>1. /\ g \in Seq(Event) /\ Len(g) = L - 1 /\ L \in Nat /\ DOMAIN fl = 1 .. L
      /\ \A k \in 1 .. L - 1 : g[k] = IF k < i THEN fl[k] ELSE fl[k + 1]
  BY RemoveAtShape
<1> HIDE DEF g
<1>2. DOMAIN g = 1 .. L - 1
  BY <1>1
<1>3. \A k \in 1 .. L : fl[k].pkt.id \in Nat
  <2>1. \A k \in 1 .. L : fl[k] \in Event
    BY <1>1
  <2>2. \A k \in 1 .. L : fl[k].pkt \in Packets
    BY <2>1 DEF Event
  <2> QED  BY <2>2, LinkAssumption DEF Packets
<1> HIDE DEF L
<1>4. ASSUME NEW j \in 1 .. L, NEW k \in 1 .. L, j # k PROVE fl[j].pkt.id # fl[k].pkt.id
  <2>1. j < k \/ k < j
    BY <1>1, <1>4
  <2>2. fl[j].pkt.id \in Nat /\ fl[k].pkt.id \in Nat
    BY <1>3
  <2>3. CASE j < k
    <3>1. fl[j].pkt.id < fl[k].pkt.id
      BY <1>1, <2>3
    <3> QED  BY <2>2, <3>1
  <2>4. CASE k < j
    <3>1. fl[k].pkt.id < fl[j].pkt.id
      BY <1>1, <2>4
    <3> QED  BY <2>2, <3>1
  <2> QED  BY <2>1, <2>3, <2>4
<1>5. FlightOf(g) \subseteq FlightOf(fl) \ {fl[i].pkt.id}
  <2> SUFFICES ASSUME NEW k \in 1 .. L - 1 PROVE g[k].pkt.id \in FlightOf(fl) \ {fl[i].pkt.id}
    BY <1>2 DEF FlightOf
  <2> DEFINE m == IF k < i THEN k ELSE k + 1
  <2>1. m \in 1 .. L /\ m # i /\ g[k] = fl[m]
    BY <1>1 DEF L
  <2> HIDE DEF m
  <2> QED  BY <1>1, <1>4, <2>1 DEF FlightOf, L
<1>6. FlightOf(fl) \ {fl[i].pkt.id} \subseteq FlightOf(g)
  <2> SUFFICES ASSUME NEW m \in 1 .. L, m # i PROVE fl[m].pkt.id \in FlightOf(g)
    BY <1>1 DEF FlightOf
  <2> DEFINE k == IF m < i THEN m ELSE m - 1
  <2>1. k \in 1 .. L - 1 /\ (k < i => k = m) /\ (~(k < i) => k + 1 = m)
    BY <1>1 DEF L
  <2> HIDE DEF k
  <2>2. g[k] = fl[m]
    BY <1>1, <2>1
  <2> QED  BY <1>2, <2>1, <2>2 DEF FlightOf
<1>7. fl[i].pkt.id \in FlightOf(fl)
  BY <1>1 DEF FlightOf
<1> QED  BY <1>5, <1>6, <1>7 DEF g

\* A sequence without repetitions is as long as the set of its elements.
LEMMA LengthOfRange ==
    ASSUME NEW S, NEW s \in Seq(S), \A i, j \in DOMAIN s : s[i] = s[j] => i = j
    PROVE  Cardinality(Range(s)) = Len(s)
<1>1. s \in [1 .. Len(s) -> Range(s)] /\ Len(s) \in Nat /\ DOMAIN s = 1 .. Len(s)
  BY DEF Range
<1>2. s \in Bijection(1 .. Len(s), Range(s))
  <2>1. s \in Injection(1 .. Len(s), Range(s))
    BY <1>1 DEF Injection, IsInjective
  <2>2. s \in Surjection(1 .. Len(s), Range(s))
    BY <1>1 DEF Surjection, Range
  <2> QED  BY <2>1, <2>2 DEF Bijection
<1>3. ExistsBijection(1 .. Len(s), Range(s))
  BY <1>2 DEF ExistsBijection
<1> QED  BY <1>1, <1>3, FS_CountingElements

\* The next packet arrives; the queue s keeps some of those it had and the new one.
LEMMA PartedArrival ==
    ASSUME NEW w, NEW f, NEW d, NEW l, NEW n \in Nat \ {0}, Parted(w, f, d, l, n),
           NEW s, s \subseteq w \cup {n}
    PROVE  Parted(s, f, d, l \cup ((w \cup {n}) \ s), n + 1)
<1>1. 1 .. (n + 1) - 1 = (1 .. n - 1) \cup {n} /\ n \notin 1 .. n - 1
  OBVIOUS
<1>2. n \notin w \cup f \cup d \cup l
  BY <1>1 DEF Parted
<1>3. s \cup f \cup d \cup (l \cup ((w \cup {n}) \ s)) = (1 .. n - 1) \cup {n}
  BY DEF Parted
<1> QED  BY <1>1, <1>2, <1>3 DEF Parted

\* A packet goes on from the queue to LinkDelay, or from there to the target.
LEMMA PartedMove ==
    ASSUME NEW w, NEW f, NEW d, NEW l, NEW n, Parted(w, f, d, l, n), NEW x
    PROVE  /\ x \in w => Parted(w \ {x}, f \cup {x}, d, l, n)
           /\ x \in f => Parted(w, f \ {x}, d \cup {x}, l, n)
<1>1. ASSUME x \in w PROVE Parted(w \ {x}, f \cup {x}, d, l, n)
  BY <1>1 DEF Parted
<1>2. ASSUME x \in f PROVE Parted(w, f \ {x}, d \cup {x}, l, n)
  BY <1>2 DEF Parted
<1> QED  BY <1>1, <1>2

\* Packets are dropped: v of the waiting packets and g of those in propagation stay.
LEMMA PartedLoss ==
    ASSUME NEW w, NEW f, NEW d, NEW l, NEW n, Parted(w, f, d, l, n),
           NEW v, v \subseteq w, NEW g, g \subseteq f
    PROVE  Parted(v, g, d, l \cup (w \ v) \cup (f \ g), n)
  BY DEF Parted

-----------------------------------------------------------------------------
(* Every step keeps the packets apart *)

\* The head of the queue s goes on to LinkDelay.
LEMMA HandOnPlaced ==
    ASSUME TypeOK, NEW s \in Seq(Packets), s # << >>, NEW n, NEW l,
           Ordered(s, flight, delivered, n, InOrder),
           Parted(Ids(s), FlightOf(flight), Range(delivered), l, n),
           NEW rest \in Seq(Event), Recv(s[1], rest)
    PROVE  Parted(Ids(Tail(s)), FlightOf(flight'), Range(delivered), l, n)
<1>1. s[1] \in Packets
  OBVIOUS
<1>2. \A i, j \in DOMAIN s : i < j => s[i].id < s[j].id
  BY DEF Ordered
<1> DEFINE p == s[1]
<1>3. Due(p) \in Nat /\ flight' = Append(flight, [pkt |-> p, due |-> Due(p)])
  BY <1>1, RecvTypes
<1>4. flight \in Seq(Event)
  BY DEF TypeOK, Scheduled, Event
<1>5. FlightOf(flight') = FlightOf(flight) \cup {p.id}
  <2> DEFINE x == Due(p)
  <2> HIDE DEF x, p
  <2>1. p \in Packets /\ x \in Nat
    BY <1>1, <1>3 DEF x, p
  <2>2. FlightOf(Append(flight, [pkt |-> p, due |-> x])) = FlightOf(flight) \cup {p.id}
    BY <1>4, <2>1, FlightAppend
  <2> QED  BY <1>3, <2>2 DEF x
<1>6. p.id \in Ids(s) /\ Ids(Tail(s)) = Ids(s) \ {p.id}
  BY <1>2, IdsTail
<1> DEFINE y == p.id
<1> HIDE DEF y, p
<1>7. Parted(Ids(s) \ {y}, FlightOf(flight) \cup {y}, Range(delivered), l, n)
  BY <1>6, PartedMove DEF y
<1> QED  BY <1>5, <1>6, <1>7 DEF y

\* A packet arrives: it waits, goes on at once, or is lost in its own or another's place.
LEMMA ArrivePlaced ==
    ASSUME Inv, Placed, NEW p \in Packets, Arrive(p)
    PROVE  Placed'
<1> DEFINE s == Arriving(p)
           l == lost \cup (Ids(Append(q, p)) \ Ids(s))
<1>1. /\ p.id = next /\ next' = next + 1 /\ lost' = l /\ delivered' = delivered
      /\ IF blocked \/ ~par.up \/ s = << >>
         THEN q' = s /\ UNCHANGED <<blocked, delayVars>>
         ELSE q' = Tail(s) /\ blocked' = TRUE /\ Recv(s[1], intr)
  BY Zenon DEF Arrive, Arriving
<1>2. /\ TypeOK /\ q \in Seq(Packets) /\ s \in Seq(Packets) /\ flight \in Seq(Event)
      /\ intr \in Seq(Event) /\ delivered \in Seq(Nat) /\ par.limit \in Nat
  BY SafetyTypes, ArrivingType DEF Inv
<1>3. s = Append(q, p) \/ s = Tail(Append(q, p)) \/ s = q
  BY <1>2, EnqueShape DEF Arriving
<1> HIDE DEF s
<1>4. Ordered(q, flight, delivered, p.id, InOrder)
  BY <1>1 DEF Inv, Numbers
<1>5. Ordered(s, flight, delivered, p.id + 1, InOrder)
  BY <1>2, <1>3, <1>4, ArrivalOrdered
<1>6. Ids(Append(q, p)) = Ids(q) \cup {p.id}
  BY <1>2, IdsAppend
<1>7. Ids(s) \subseteq Ids(q) \cup {p.id}
  <2>1. CASE s = Append(q, p) \/ s = q
    BY <1>6, <2>1
  <2>2. CASE s = Tail(Append(q, p))
    <3> DEFINE v == Append(q, p)
    <3>1. v \in Seq(Packets) /\ v # << >>
      BY <1>2
    <3> HIDE DEF v
    <3>2. Ordered(v, flight, delivered, p.id + 1, InOrder)
      BY <1>2, <1>4, ArrivalOrdered DEF v
    <3>3. \A i, j \in DOMAIN v : i < j => v[i].id < v[j].id
      BY <3>2 DEF Ordered
    <3>4. Ids(Tail(v)) \subseteq Ids(v)
      BY <3>1, <3>3, IdsTail
    <3> QED  BY <1>6, <2>2, <3>4 DEF v
  <2> QED  BY <1>3, <2>1, <2>2
<1>8. Parted(Ids(s), FlightOf(flight), Range(delivered), l, p.id + 1)
  <2> DEFINE n == p.id
             w == Ids(q)
             v == Ids(s)
  <2>1. n \in Nat \ {0}
    BY LinkAssumption DEF Packets
  <2>2. Parted(w, FlightOf(flight), Range(delivered), lost, n)
    BY <1>1 DEF Placed
  <2>3. v \subseteq w \cup {n} /\ l = lost \cup ((w \cup {n}) \ v)
    BY <1>6, <1>7
  <2> HIDE DEF n, w, v, l
  <2>4. Parted(v, FlightOf(flight), Range(delivered), lost \cup ((w \cup {n}) \ v), n + 1)
    BY <2>1, <2>2, <2>3, PartedArrival
  <2> QED  BY <2>3, <2>4 DEF n, v
<1> HIDE DEF l
<1>9. Parted(Ids(q'), FlightOf(flight'), Range(delivered), l, p.id + 1)
  <2>1. CASE blocked \/ ~par.up \/ s = << >>
    <3>1. q' = s /\ flight' = flight
      BY <1>1, <2>1 DEF delayVars
    <3> QED  BY <1>8, <3>1
  <2>2. CASE ~(blocked \/ ~par.up \/ s = << >>)
    <3>1. q' = Tail(s) /\ Recv(s[1], intr) /\ s # << >>
      BY <1>1, <2>2
    <3> DEFINE m == p.id + 1
    <3> HIDE DEF m
    <3>2. Parted(Ids(Tail(s)), FlightOf(flight'), Range(delivered), l, m)
      BY <1>2, <1>5, <1>8, <3>1, HandOnPlaced DEF m
    <3> QED  BY <3>1, <3>2 DEF m
  <2> QED  BY <2>1, <2>2
<1> QED  BY <1>1, <1>9 DEF Placed

\* The next packet of the queue goes on, if there is one.
LEMMA ResumePlaced ==
    ASSUME Inv, Placed, Resume
    PROVE  Placed'
<1>1. /\ intr # << >> /\ UNCHANGED <<next, delivered, lost>>
      /\ IF q = <<>> THEN UNCHANGED <<q, flight>>
         ELSE q' = Tail(q) /\ Recv(q[1], Tail(intr))
  BY DEF Resume
<1>2. TypeOK /\ q \in Seq(Packets) /\ intr \in Seq(Event)
  BY SafetyTypes DEF Inv
<1>3. CASE q = << >>
  BY <1>1, <1>3 DEF Placed
<1>4. CASE q # << >>
  <2> DEFINE rest == Tail(intr)
  <2>1. rest \in Seq(Event) /\ Recv(q[1], rest) /\ q' = Tail(q)
    BY <1>1, <1>2, <1>4
  <2> HIDE DEF rest
  <2>2. Parted(Ids(Tail(q)), FlightOf(flight'), Range(delivered), lost, next)
    BY <1>2, <1>4, <2>1, HandOnPlaced DEF Inv, Numbers, Placed
  <2> QED  BY <1>1, <2>1, <2>2 DEF Placed
<1> QED  BY <1>3, <1>4

\* A packet is delivered, for the first time.
LEMMA DeliverPlaced ==
    ASSUME Inv, Placed, Deliver
    PROVE  Placed'
<1>1. UNCHANGED <<q, next, lost>>
  BY DEF Deliver
<1>2. PICK i \in Arrived :
          IF setup.mode = "dynamic" /\ flight[1].due # 0
          THEN UNCHANGED <<flight, delivered>>
          ELSE /\ flight' = RemoveAt(flight, i)
               /\ delivered' = Append(delivered, flight[i].pkt.id)
  BY DEF Deliver
<1>3. CASE UNCHANGED <<flight, delivered>>
  BY <1>1, <1>3 DEF Placed
<1>4. CASE /\ flight' = RemoveAt(flight, i)
           /\ delivered' = Append(delivered, flight[i].pkt.id)
  <2>1. flight \in Seq(Event) /\ i \in 1 .. Len(flight) /\ delivered \in Seq(Nat)
    BY SafetyTypes DEF Inv, Arrived
  <2>2. \A j, k \in DOMAIN flight : j < k => flight[j].pkt.id < flight[k].pkt.id
    BY DEF Inv, Numbers, Ordered
  <2> DEFINE x == flight[i].pkt.id
  <2>3. x \in FlightOf(flight) /\ FlightOf(flight') = FlightOf(flight) \ {x}
    BY <1>4, <2>1, <2>2, FlightRemove
  <2>4. x \in Nat
    <3>1. flight[i] \in Event  BY <2>1
    <3> QED  BY <3>1, LinkAssumption DEF Event, Packets
  <2>5. delivered' = Append(delivered, x)
    BY <1>4
  <2> HIDE DEF x
  <2>6. /\ DOMAIN delivered = 1 .. Len(delivered) /\ Len(delivered) \in Nat
        /\ DOMAIN delivered' = 1 .. Len(delivered) + 1
        /\ \A k \in 1 .. Len(delivered) : delivered'[k] = delivered[k]
        /\ delivered'[Len(delivered) + 1] = x
    BY <2>1, <2>4, <2>5
  <2>7. Range(delivered') = Range(delivered) \cup {x}
    BY <2>6 DEF Range
  <2>8. Parted(Ids(q), FlightOf(flight) \ {x}, Range(delivered) \cup {x}, lost, next)
    BY <2>3, PartedMove DEF Placed
  <2>9. x \notin Range(delivered)
    BY <2>3 DEF Placed, Parted
  <2>10. ASSUME NEW j \in DOMAIN delivered', NEW k \in DOMAIN delivered',
                delivered'[j] = delivered'[k]
         PROVE  j = k
    <3>1. \A m \in DOMAIN delivered' : m \in 1 .. Len(delivered) \/ m = Len(delivered) + 1
      BY <2>6
    <3>2. \A m \in 1 .. Len(delivered) : delivered'[m] \in Range(delivered)
      BY <2>6 DEF Range
    <3> QED  BY <2>6, <2>9, <2>10, <3>1, <3>2 DEF Placed
  <2> QED  BY <1>1, <2>3, <2>7, <2>8, <2>10 DEF Placed
<1> QED  BY <1>2, <1>3, <1>4

\* Time passes, and no packet changes its place.
LEMMA TickPlaced ==
    ASSUME Inv, Placed, Tick
    PROVE  Placed'
<1>1. /\ UNCHANGED <<q, next, delivered, lost>>
      /\ flight' = [i \in DOMAIN flight |-> [flight[i] EXCEPT !.due = @ - 1]]
  BY DEF Tick
<1>2. DOMAIN flight' = DOMAIN flight
  BY <1>1
<1>3. ASSUME NEW i \in DOMAIN flight PROVE flight'[i].pkt = flight[i].pkt
  <2>1. flight[i] \in Event
    BY SafetyTypes DEF Inv
  <2>2. flight'[i] = [flight[i] EXCEPT !.due = @ - 1]
    BY <1>1, Zenon
  <2> QED  BY <2>1, <2>2, EventLater
<1>4. FlightOf(flight') = FlightOf(flight)
  BY <1>2, <1>3 DEF FlightOf
<1> QED  BY <1>1, <1>4 DEF Placed

\* What a failure or a lowered limit takes from the queue or from propagation is lost.
LEMMA LossPlaced ==
    ASSUME Inv, Placed, Down \/ \E n \in Limits : ShrinkQueue(n)
    PROVE  Placed'
<1>1. next' = next /\ delivered' = delivered
  BY DEF Down, ShrinkQueue, Command
<1>2. CASE Down
  <2>1. q' = << >> /\ flight' = << >> /\ lost' = lost \cup Ids(q) \cup FlightOf(flight)
    BY <1>2 DEF Down, FlightIds, FlightOf
  <2>2. Ids(q') = {} /\ FlightOf(flight') = {}
    BY <2>1 DEF Ids, FlightOf
  <2>3. Parted({}, {}, Range(delivered),
               lost \cup (Ids(q) \ {}) \cup (FlightOf(flight) \ {}), next)
    <3> DEFINE e == {}
    <3>1. e \subseteq Ids(q) /\ e \subseteq FlightOf(flight)
      OBVIOUS
    <3> HIDE DEF e
    <3>2. Parted(e, e, Range(delivered),
                 lost \cup (Ids(q) \ e) \cup (FlightOf(flight) \ e), next)
      BY <3>1, PartedLoss DEF Placed
    <3> QED  BY <3>2 DEF e
  <2>4. lost \cup (Ids(q) \ {}) \cup (FlightOf(flight) \ {}) = lost'
    BY <2>1
  <2> QED  BY <1>1, <2>2, <2>3, <2>4 DEF Placed
<1>3. CASE \E n \in Limits : ShrinkQueue(n)
  <2>1. PICK n \in Limits : ShrinkQueue(n)
    BY <1>3
  <2>2. /\ q' = shrink_queue(q, setup, n) /\ flight' = flight
        /\ lost' = lost \cup (Ids(q) \ Ids(q'))
    BY <2>1 DEF ShrinkQueue, delayVars
  <2>3. q \in Seq(Packets) /\ setup \in Setups /\ n \in Nat
    BY LinkAssumption DEF Inv, TypeOK, Setups
  <2>4. PICK a, b \in 0 .. Len(q) : q' = SubSeq(q, a + 1, b)
    BY <2>2, <2>3, ShrinkShape
  <2>5. Ids(q') \subseteq Ids(q)
    <3>1. /\ DOMAIN q' = 1 .. (IF a + 1 <= b THEN b - a ELSE 0)
          /\ \A i \in 1 .. b - a : q'[i] = q[i + a]
      BY <2>3, <2>4
    <3>2. \A i \in DOMAIN q' : i + a \in DOMAIN q /\ q'[i] = q[i + a]
      BY <2>3, <3>1
    <3> QED  BY <3>2 DEF Ids
  <2>6. Parted(Ids(q'), FlightOf(flight), Range(delivered),
               lost \cup (Ids(q) \ Ids(q')) \cup (FlightOf(flight) \ FlightOf(flight)), next)
    BY <2>5, PartedLoss DEF Placed
  <2>7. lost \cup (Ids(q) \ Ids(q')) \cup (FlightOf(flight) \ FlightOf(flight)) = lost'
    BY <2>2
  <2> QED  BY <1>1, <2>2, <2>6, <2>7 DEF Placed
<1> QED  BY <1>2, <1>3

\* Every packet that arrived is in one place: it waits, propagates, was delivered
\* once, or was dropped by the queue, by a failure or by a lowered limit.
THEOREM EachPacketKept == Spec => []EachPacketOnce
<1>1. Init => Placed
  <2> SUFFICES ASSUME Init PROVE Placed
    OBVIOUS
  <2>1. q = << >> /\ flight = << >> /\ delivered = << >> /\ lost = {} /\ next = 1
    BY DEF Init
  <2>2. Ids(q) = {} /\ FlightOf(flight) = {} /\ Range(delivered) = {} /\ 1 .. next - 1 = {}
    BY <2>1 DEF Ids, FlightOf, Range
  <2> QED  BY <2>1, <2>2 DEF Placed, Parted
<1>2. Inv /\ Placed /\ [Next]_vars => Placed'
  <2> SUFFICES ASSUME Inv, Placed, [Next]_vars PROVE Placed'
    OBVIOUS
  <2>1. CASE \/ Up \/ UNCHANGED vars
             \/ \E b \in Slots : SetBandwidth(b)
             \/ \E d \in PropDelays : SetDelay(d)
    <3>1. UNCHANGED <<q, flight, delivered, lost, next>>
      BY <2>1 DEF Up, vars, SetBandwidth, SetDelay, delayVars, Command
    <3> QED  BY <3>1 DEF Placed
  <2> QED  BY <2>1, ArrivePlaced, ResumePlaced, DeliverPlaced, TickPlaced, LossPlaced DEF Next
<1>3. Inv /\ Placed => EachPacketOnce
  <2> SUFFICES ASSUME Inv, Placed PROVE EachPacketOnce
    OBVIOUS
  <2> DEFINE places == <<Ids(q), FlightIds, Range(delivered), lost>>
  <2>1. FlightIds = FlightOf(flight)
    BY DEF FlightIds, FlightOf
  <2>2. Parted(Ids(q), FlightIds, Range(delivered), lost, next)
    BY <2>1 DEF Placed
  <2>3. /\ DOMAIN places = {1, 2, 3, 4}
        /\ places[1] = Ids(q) /\ places[2] = FlightIds
        /\ places[3] = Range(delivered) /\ places[4] = lost
    OBVIOUS
  <2> HIDE DEF places
  <2>4. UNION Range(places) = places[1] \cup places[2] \cup places[3] \cup places[4]
    BY <2>3 DEF Range
  <2>5. UNION Range(places) = 1 .. next - 1
    BY <2>2, <2>3, <2>4 DEF Parted
  <2>6. \A i, j \in DOMAIN places : i # j => places[i] \cap places[j] = {}
    BY <2>2, <2>3 DEF Parted
  <2>7. Cardinality(Range(delivered)) = Len(delivered)
    <3>1. delivered \in Seq(Nat)
      BY SafetyTypes DEF Inv
    <3> QED  BY <3>1, LengthOfRange DEF Placed
  <2> QED  BY <2>5, <2>6, <2>7 DEF EachPacketOnce, places
<1> QED  BY <1>1, <1>2, <1>3, Invariance, PTL DEF Spec

-----------------------------------------------------------------------------
(* The limit in bytes *)

\* Packets have sizes.
LEMMA SizesOfPackets == \A x \in Packets : x.size \in Nat
  BY LinkAssumption DEF Packets

\* shrink_queue() goes on until what is left fits: the pieces from the head that
\* do not fit are the longest, so it drops as many packets as there are of them.
LEMMA ShrinkFits ==
    ASSUME NEW s \in Seq(Packets), NEW k, k.qib, ~k.drop_front, NEW n \in Nat,
           IsFiniteSet(Bytes(s))
    PROVE  LET r == shrink_queue(s, k, n)
           IN  IsFiniteSet(Bytes(r)) /\ byteLength(r) <= n
<1> DEFINE L == Len(s)
           Rest(i) == SubSeq(s, 1, L - i)
           long == {i \in 0 .. L - 1 : byteLength(Rest(i)) > n}
           c == Cardinality(long)
<1>1. shrink_queue(s, k, n) = Rest(c)
  BY DEF shrink_queue, Fill
<1>2. L \in Nat /\ SubSeq(s, 1, L) = s /\ SubSeq(s, 1, 0) = << >>
  OBVIOUS
<1>3. ASSUME NEW i \in 0 .. L PROVE IsFiniteSet(Bytes(Rest(i))) /\ byteLength(Rest(i)) \in Nat
  <2> DEFINE m == L - i
  <2>1. m \in 0 .. L /\ L \in 0 .. L
    BY <1>2
  <2>2. IsFiniteSet(Bytes(SubSeq(s, 1, m)))
    <3> HIDE DEF m
    <3> QED  BY <1>2, <2>1, BytesPrefix
  <2> QED  BY <2>2, FS_CardinalityType DEF byteLength
<1>4. ASSUME NEW j \in 0 .. L, NEW i \in 0 .. j PROVE byteLength(Rest(j)) <= byteLength(Rest(i))
  <2> DEFINE a == L - i
             b == L - j
  <2>1. a \in 0 .. Len(s) /\ b \in 0 .. a /\ i \in 0 .. L
    BY <1>2
  <2>2. IsFiniteSet(Bytes(SubSeq(s, 1, a)))
    BY <1>3, <2>1
  <2>3. byteLength(SubSeq(s, 1, b)) <= byteLength(SubSeq(s, 1, a))
    <3> HIDE DEF a, b
    <3> QED  BY <2>1, <2>2, BytesPrefix
  <2> QED  BY <2>3
<1> HIDE DEF L, Rest
<1>5. ASSUME NEW a \in Nat PROVE IsFiniteSet(0 .. a) /\ Cardinality(0 .. a) = a + 1
  <2> DEFINE z == 0
  <2>1. z \in Int /\ a \in Int
    OBVIOUS
  <2> HIDE DEF z
  <2>2. IsFiniteSet(z .. a) /\ Cardinality(z .. a) = IF z > a THEN 0 ELSE a - z + 1
    BY <2>1, FS_Interval
  <2> QED  BY <2>2 DEF z
<1>6. IsFiniteSet(long) /\ c \in 0 .. L
  <2>1. CASE L = 0
    <3>1. long = {}
      BY <2>1
    <3> QED  BY <2>1, <3>1, FS_EmptySet
  <2>2. CASE L # 0
    <3> DEFINE a == L - 1
    <3>1. a \in Nat /\ long \in SUBSET (0 .. a)
      BY <1>2, <2>2
    <3> HIDE DEF long, a
    <3>2. IsFiniteSet(0 .. a) /\ Cardinality(0 .. a) = a + 1
      BY <1>5, <3>1
    <3>3. IsFiniteSet(long) /\ Cardinality(long) <= a + 1
      BY <3>1, <3>2, FS_Subset
    <3>4. Cardinality(long) \in Nat
      BY <3>3, FS_CardinalityType
    <3> QED  BY <1>2, <3>1, <3>3, <3>4 DEF a
  <2> QED  BY <2>1, <2>2
<1>7. c \notin long
  <2> SUFFICES ASSUME c \in long PROVE FALSE
    OBVIOUS
  <2> HIDE DEF c
  <2>1. c \in 0 .. L - 1 /\ byteLength(Rest(c)) > n /\ c \in Nat /\ c \in 0 .. L
    BY <1>2
  <2>2. ASSUME NEW i \in 0 .. c PROVE i \in long
    <3>1. i \in 0 .. L /\ i \in 0 .. L - 1
      BY <1>2, <2>1
    <3>2. byteLength(Rest(c)) <= byteLength(Rest(i))
      BY <1>4, <2>1
    <3>3. byteLength(Rest(c)) \in Nat /\ byteLength(Rest(i)) \in Nat
      BY <1>3, <2>1, <3>1
    <3>4. byteLength(Rest(i)) > n
      BY <2>1, <3>2, <3>3
    <3> QED  BY <3>1, <3>4
  <2> HIDE DEF long
  <2>3. 0 .. c \in SUBSET long
    BY <2>2
  <2>4. Cardinality(0 .. c) <= Cardinality(long)
    BY <1>6, <2>3, FS_Subset
  <2>5. Cardinality(0 .. c) = c + 1
    BY <1>5, <2>1
  <2> QED  BY <2>1, <2>4, <2>5 DEF c
<1>8. IsFiniteSet(Bytes(Rest(c))) /\ byteLength(Rest(c)) \in Nat
  BY <1>3, <1>6
<1>9. byteLength(Rest(c)) <= n
  <2> HIDE DEF c
  <2>1. CASE c = L
    <3>1. Rest(c) = << >>
      BY <1>2, <2>1 DEF Rest
    <3> QED  BY <3>1, NoBytes
  <2>2. CASE c # L
    <3>1. c \in 0 .. L - 1
      BY <1>2, <1>6, <2>2
    <3> QED  BY <1>7, <1>8, <3>1
  <2> QED  BY <2>1, <2>2
<1> QED  BY <1>1, <1>8, <1>9

\* The queue counts bytes and drops what arrives: then they fit.
Tailed == setup.qib /\ ~setup.drop_front
BytesFit(s, n) == IsFiniteSet(Bytes(s)) /\ byteLength(s) <= n
Fits == Tailed => BytesFit(q, par.limit)

\* A packet that goes on leaves fewer bytes behind.
LEMMA TailFits ==
    ASSUME NEW s \in Seq(Packets), s # << >>, NEW n \in Nat, BytesFit(s, n)
    PROVE  BytesFit(Tail(s), n)
<1>1. /\ IsFiniteSet(Bytes(Tail(s)))
      /\ byteLength(Tail(s)) = byteLength(s) - Head(s).size
  BY SizesOfPackets, BytesTail DEF BytesFit
<1>2. Head(s).size \in Nat
  BY SizesOfPackets
<1>3. byteLength(s) \in Nat
  BY FS_CardinalityType DEF BytesFit, byteLength
<1> QED  BY <1>1, <1>2, <1>3 DEF BytesFit

\* enque() takes a packet only if the bytes stay below the limit.
LEMMA ArrivingFits ==
    ASSUME TypeOK, Tailed, Fits, NEW p \in Packets
    PROVE  BytesFit(Arriving(p), par.limit)
<1>1. q \in Seq(Packets) /\ par.limit \in Nat
  BY LinkAssumption DEF TypeOK
<1>2. BytesFit(q, par.limit)
  BY DEF Fits
<1>3. CASE Arriving(p) = q
  BY <1>2, <1>3
<1>4. CASE Arriving(p) = Append(q, p) /\ byteLength(q) + p.size < par.limit
  <2>1. IsFiniteSet(Bytes(Append(q, p))) /\ byteLength(Append(q, p)) = byteLength(q) + p.size
    BY <1>1, <1>2, SizesOfPackets, BytesAppend DEF BytesFit
  <2>2. byteLength(q) \in Nat /\ p.size \in Nat
    BY <1>2, SizesOfPackets, FS_CardinalityType DEF BytesFit, byteLength
  <2> QED  BY <1>1, <1>4, <2>1, <2>2 DEF BytesFit
<1> QED  BY <1>3, <1>4 DEF Arriving, enque, Fill, Tailed

\* The DropTail queue keeps limit_ in bytes, packets being of all sizes, also a
\* limit lowered under way.
THEOREM ByteLimit == Spec => []ByteLimitHolds
<1>1. Init => Fits
  <2> SUFFICES ASSUME Init PROVE Fits
    OBVIOUS
  <2>1. q = << >> /\ par.limit \in Nat
    BY LinkAssumption DEF Init
  <2> QED  BY <2>1, NoBytes DEF Fits, BytesFit
<1>2. Inv /\ Fits /\ [Next]_vars => Fits'
  <2> SUFFICES ASSUME Inv, Tailed', Tailed => BytesFit(q, par.limit), [Next]_vars
               PROVE  BytesFit(q', par'.limit)
    BY DEF Fits
  <2>1. /\ TypeOK /\ q \in Seq(Packets) /\ setup' = setup /\ Tailed
        /\ par.limit \in Nat
    <3>1. setup' = setup
      BY DEF Next, vars, Arrive, Resume, Deliver, Tick, SetBandwidth, SetDelay, ShrinkQueue,
             Down, Up, Command
    <3>2. TypeOK /\ q \in Seq(Packets) /\ par.limit \in Nat
      BY LinkAssumption DEF Inv, TypeOK
    <3> QED  BY <3>1, <3>2 DEF Tailed
  <2>2. BytesFit(q, par.limit) /\ Fits
    BY <2>1 DEF Fits
  <2>3. CASE \E p \in Packets : Arrive(p)
    <3>1. PICK p \in Packets : Arrive(p)
      BY <2>3
    <3> DEFINE s == Arriving(p)
    <3>2. par' = par /\ (q' = s \/ (s # << >> /\ q' = Tail(s)))
      BY <3>1, Zenon DEF Arrive, Arriving
    <3>3. s \in Seq(Packets) /\ BytesFit(s, par.limit)
      BY <2>1, <2>2, ArrivingType, ArrivingFits
    <3> HIDE DEF s
    <3> QED  BY <2>1, <3>2, <3>3, TailFits
  <2>4. CASE Resume
    <3>1. par' = par /\ (q' = q \/ (q # << >> /\ q' = Tail(q)))
      BY <2>4 DEF Resume
    <3> QED  BY <2>1, <2>2, <3>1, TailFits
  <2>5. CASE \E n \in Limits : ShrinkQueue(n)
    <3>1. PICK n \in Limits : ShrinkQueue(n)
      BY <2>5
    <3>2. q' = shrink_queue(q, setup, n) /\ par' = [par EXCEPT !.limit = n]
      BY <3>1 DEF ShrinkQueue
    <3>3. par'.limit = n /\ n \in Nat
      BY <2>1, <3>2, LinkAssumption DEF TypeOK
    <3>4. setup.qib /\ ~setup.drop_front /\ IsFiniteSet(Bytes(q))
      BY <2>1, <2>2 DEF Tailed, BytesFit
    <3> QED  BY <2>1, <3>2, <3>3, <3>4, ShrinkFits DEF BytesFit
  <2>6. CASE Down
    <3>1. q' = << >> /\ par' = [par EXCEPT !.up = FALSE]
      BY <2>6 DEF Down
    <3>2. par'.limit = par.limit
      BY <2>1, <3>1 DEF TypeOK
    <3> QED  BY <2>1, <3>1, <3>2, NoBytes DEF BytesFit
  <2>7. CASE \/ Deliver \/ Tick \/ Up \/ UNCHANGED vars
             \/ \E b \in Slots : SetBandwidth(b)
             \/ \E d \in PropDelays : SetDelay(d)
    <3>1. q' = q /\ \/ par' = par
                    \/ par' = [par EXCEPT !.up = TRUE]
                    \/ \E b \in Slots : par' = [par EXCEPT !.slot = b]
                    \/ \E d \in PropDelays : par' = [par EXCEPT !.delay = d]
      BY <2>7 DEF Deliver, Tick, Up, vars, SetBandwidth, SetDelay
    <3>2. par'.limit = par.limit
      BY <2>1, <3>1 DEF TypeOK
    <3> QED  BY <2>2, <3>1, <3>2
  <2> QED  BY <2>3, <2>4, <2>5, <2>6, <2>7 DEF Next
<1>3. Fits => ByteLimitHolds
  BY DEF Fits, Tailed, BytesFit, ByteLimitHolds
<1> QED  BY <1>1, <1>2, <1>3, Invariance, PTL DEF Spec
=============================================================================
