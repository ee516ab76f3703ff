----------------------------- MODULE SimpleLink -----------------------------
(***************************************************************************)
(* A simplex link of a simulation (class SimpleLink of                     *)
(* src/ns-2.35/tcl/lib/ns-link.tcl): a DynamicLink that refuses packets    *)
(* while the link is down, a DropTail Queue, and the LinkDelay that        *)
(* transmits one packet at a time and lets it propagate.  The script that  *)
(* runs the simulation fails and restores a dynamic link, changes          *)
(* bandwidth and delay, and lowers the queue's limit.                      *)
(*                                                                         *)
(* The scheduler keeps the promise of EventQueue.  Times are relative to   *)
(* the clock: an event is due when its time has come down to 0.  Packets   *)
(* in propagation are kept in the order in which they were scheduled; on a *)
(* dynamic link this is also itq_.  Events of the same time fire in the    *)
(* order in which they were scheduled, and no packet is scheduled while    *)
(* intr_ is, so packets come before the end of a transmission.             *)
(***************************************************************************)
EXTENDS DropTail

CONSTANTS
    Modes,        \* of LinkDelay: "plain", "avoid" (avoidReordering_), "dynamic"
    Sizes,        \* packet sizes
    Slots,        \* transmission times of a unit of size: 1 / bandwidth_
    PropDelays,   \* values of delay_
    Limits,       \* values of limit_
    MaxPackets,   \* bound: how many packets arrive
    MaxCommands   \* bound: how many commands the script gives

ASSUME LinkAssumption ==
    /\ Modes \subseteq {"plain", "avoid", "dynamic"}
    /\ Sizes \subseteq Nat \ {0}
    /\ Slots \subseteq Nat
    /\ PropDelays \subseteq Nat
    /\ Limits \subseteq Nat \ {0}
    /\ MaxPackets \in Nat
    /\ MaxCommands \in Nat

Packets == [id : 1 .. MaxPackets, size : Sizes]

VARIABLES
    setup,        \* the mode of LinkDelay, qib_, drop_front_ and the first limit_
    par,          \* bandwidth_ (as slot), delay_, limit_ and status_
    q,            \* the packets waiting
    blocked,      \* blocked_
    intr,         \* intr_ as scheduled: the packet transmitted, and the time left
    flight,       \* the packets propagating, and the time left
    latest,       \* latest_time_, 0 when it has passed
    next,         \* the number of the next packet to arrive
    delivered,    \* the packets received by target_, in order
    lost,         \* the packets dropped
    aborted,      \* the assertion of LinkDelay::handle() has failed
    lowered,      \* delay_ was lowered while packets were propagating
    commands      \* how many commands the script has given

delayVars == <<intr, flight, latest>>
vars == <<setup, par, q, blocked, intr, flight, latest, next, delivered, lost,
          aborted, lowered, commands>>

Ids(s) == {s[i].id : i \in DOMAIN s}
FlightIds == {flight[i].pkt.id : i \in DOMAIN flight}

Init ==
    /\ setup \in [mode : Modes, qib : BOOLEAN, drop_front : BOOLEAN, limit : Limits]
    /\ par \in [slot : Slots, delay : PropDelays, limit : {setup.limit}, up : {TRUE}]
    /\ q = <<>> /\ blocked = FALSE
    /\ intr = <<>> /\ flight = <<>> /\ latest = 0
    /\ next = 1 /\ delivered = <<>> /\ lost = {}
    /\ aborted = FALSE /\ lowered = FALSE /\ commands = 0

-----------------------------------------------------------------------------
(* The packet's way *)

\* When LinkDelay::recv() schedules the packet for the target.
Due(p) ==
    LET txt == p.size * par.slot
    IN  IF setup.mode = "avoid" /\ txt + par.delay < latest
        THEN latest + txt ELSE txt + par.delay

\* Mutant: the queue is called back at once.
RecvPipelined(p, rest) ==
    /\ flight' = Append(flight, [pkt |-> p, due |-> Due(p)])
    /\ latest' = IF setup.mode = "avoid" THEN Due(p) ELSE latest
    /\ intr' = Append(rest, [pkt |-> p, due |-> 0])

\* LinkDelay::recv(): schedule the packet for the target, and intr_, which
\* calls the queue back at the end of the transmission.
Recv(p, rest) ==
    /\ flight' = Append(flight, [pkt |-> p, due |-> Due(p)])
    /\ latest' = IF setup.mode = "avoid" THEN Due(p) ELSE latest
    /\ intr' = Append(rest, [pkt |-> p, due |-> p.size * par.slot])

\* A packet reaches the link: DynamicLink::recv(), and Queue::recv() with
\* DropTail's enque() and deque().
Arrive(p) ==
    /\ ~aborted
    /\ p.id = next
    /\ next' = next + 1
    /\ LET s == IF par.up THEN enque(q, p, setup, par.limit) ELSE q
       IN  /\ lost' = lost \cup (Ids(Append(q, p)) \ Ids(s))
           /\ IF blocked \/ ~par.up \/ s = <<>>
              THEN q' = s /\ UNCHANGED <<blocked, delayVars>>
              ELSE q' = Tail(s) /\ blocked' = TRUE /\ Recv(s[1], intr)
    /\ UNCHANGED <<setup, par, delivered, aborted, lowered, commands>>

Arrived == {i \in DOMAIN flight : flight[i].due = 0}

\* Mutant: a drained queue stays blocked.
ResumeBlocked ==
    /\ ~aborted
    /\ Arrived = {}
    /\ intr # <<>>
    /\ intr[1].due = 0
    /\ IF q = <<>>
       THEN intr' = Tail(intr) /\ UNCHANGED <<q, blocked, flight, latest>>
       ELSE q' = Tail(q) /\ Recv(q[1], Tail(intr)) /\ UNCHANGED blocked
    /\ UNCHANGED <<setup, par, next, delivered, lost, aborted, lowered, commands>>

\* Queue::resume(), called by intr_.
Resume ==
    /\ ~aborted
    /\ Arrived = {}
    /\ intr # <<>>
    /\ intr[1].due = 0
    /\ IF q = <<>>
       THEN blocked' = FALSE /\ intr' = Tail(intr) /\ UNCHANGED <<q, flight, latest>>
       ELSE q' = Tail(q) /\ Recv(q[1], Tail(intr)) /\ UNCHANGED blocked
    /\ UNCHANGED <<setup, par, next, delivered, lost, aborted, lowered, commands>>

\* A packet's event fires.  On a dynamic link LinkDelay::handle() takes the
\* packet from the head of itq_ and asserts that the event was the packet's.
Deliver ==
    /\ ~aborted
    /\ \E i \in Arrived :
           /\ \A j \in Arrived : i <= j
           /\ IF setup.mode = "dynamic" /\ flight[1].due # 0
              THEN aborted' = TRUE /\ UNCHANGED <<flight, delivered>>
              ELSE /\ flight' = RemoveAt(flight, i)
                   /\ delivered' = Append(delivered, flight[i].pkt.id)
                   /\ UNCHANGED aborted
    /\ UNCHANGED <<setup, par, q, blocked, intr, latest, next, lost, lowered, commands>>

\* Nothing is due: the clock moves on.
Tick ==
    /\ ~aborted
    /\ flight # <<>> \/ intr # <<>>
    /\ \A i \in DOMAIN flight : flight[i].due > 0
    /\ \A i \in DOMAIN intr : intr[i].due > 0
    /\ flight' = [i \in DOMAIN flight |-> [flight[i] EXCEPT !.due = @ - 1]]
    /\ intr' = [i \in DOMAIN intr |-> [intr[i] EXCEPT !.due = @ - 1]]
    /\ latest' = IF latest = 0 THEN 0 ELSE latest - 1
    /\ UNCHANGED <<setup, par, q, blocked, next, delivered, lost, aborted, lowered, commands>>

-----------------------------------------------------------------------------
(* The script's commands *)

Command ==
    /\ ~aborted
    /\ commands < MaxCommands
    /\ commands' = commands + 1
    /\ UNCHANGED <<setup, next, delivered, aborted>>

\* The bandwidth is changed; it takes effect with the next packet.
SetBandwidth(b) ==
    /\ Command
    /\ par' = [par EXCEPT !.slot = b]
    /\ UNCHANGED <<q, blocked, delayVars, lost, lowered>>

SetDelay(d) ==
    /\ Command
    /\ par' = [par EXCEPT !.delay = d]
    /\ lowered' = (lowered \/ (d < par.delay /\ flight # <<>>))
    /\ UNCHANGED <<q, blocked, delayVars, lost>>

\* The limit is lowered, and shrink-queue drops what is too much.
ShrinkQueue(n) ==
    /\ Command
    /\ n < par.limit
    /\ par' = [par EXCEPT !.limit = n]
    /\ q' = shrink_queue(q, setup, n)
    /\ lost' = lost \cup (Ids(q) \ Ids(q'))
    /\ UNCHANGED <<blocked, delayVars, lowered>>

\* Mutant: the packets in transit are dropped, their events are not cancelled.
DownUncancelled ==
    /\ Command
    /\ setup.mode = "dynamic"
    /\ par' = [par EXCEPT !.up = FALSE]
    /\ q' = <<>>
    /\ lost' = lost \cup Ids(q) \cup FlightIds
    /\ UNCHANGED <<blocked, delayVars, lowered>>

\* Mutant: the queue forgets that its target is busy.
DownUnblocks ==
    /\ Command
    /\ setup.mode = "dynamic"
    /\ par' = [par EXCEPT !.up = FALSE]
    /\ q' = <<>>
    /\ blocked' = FALSE
    /\ flight' = <<>>
    /\ lost' = lost \cup Ids(q) \cup FlightIds
    /\ UNCHANGED <<intr, latest, lowered>>

\* Link down: Queue::reset() and LinkDelay::reset() drop their packets.  The
\* end of a transmission, intr_, stays scheduled.
Down ==
    /\ Command
    /\ setup.mode = "dynamic"
    /\ par' = [par EXCEPT !.up = FALSE]
    /\ q' = <<>>
    /\ flight' = <<>>
    /\ lost' = lost \cup Ids(q) \cup FlightIds
    /\ UNCHANGED <<blocked, intr, latest, lowered>>

\* Link up.
Up ==
    /\ Command
    /\ setup.mode = "dynamic"
    /\ par' = [par EXCEPT !.up = TRUE]
    /\ UNCHANGED <<q, blocked, delayVars, lost, lowered>>

Next ==
    \/ \E p \in Packets : Arrive(p)
    \/ Resume
    \/ Deliver
    \/ Tick
    \/ \E b \in Slots : SetBandwidth(b)
    \/ \E d \in PropDelays : SetDelay(d)
    \/ \E n \in Limits : ShrinkQueue(n)
    \/ Down
    \/ Up

Spec == Init /\ [][Next]_vars

\* The scheduler runs: time passes and events that are due fire.
FairSpec == Spec /\ WF_vars(Tick) /\ WF_vars(Resume) /\ WF_vars(Deliver)

-----------------------------------------------------------------------------
(* Properties *)

Scheduled == Seq([pkt : Packets, due : Nat])
TypeOK ==
    /\ setup \in [mode : Modes, qib : BOOLEAN, drop_front : BOOLEAN, limit : Limits]
    /\ par \in [slot : Slots, delay : PropDelays, limit : Limits, up : BOOLEAN]
    /\ q \in Seq(Packets) /\ blocked \in BOOLEAN
    /\ intr \in Scheduled /\ flight \in Scheduled /\ latest \in Nat
    /\ next \in 1 .. MaxPackets + 1
    /\ delivered \in Seq(1 .. MaxPackets) /\ lost \subseteq 1 .. MaxPackets
    /\ {aborted, lowered} \subseteq BOOLEAN
    /\ commands \in 0 .. MaxCommands

\* intr_ is one event that LinkDelay schedules for every packet.  It is never
\* scheduled twice (Scheduler::schedule() would abort), and it is scheduled
\* exactly while the queue is blocked: also across failures of the link, which
\* reset the queue and the packets in transit but not intr_.
HandlerOnce == Len(intr) = (IF blocked THEN 1 ELSE 0)

\* A DropTail queue with limit_ n never holds n packets (enque() refuses the one that
\* would fill it), and never more than a limit that was lowered.
LimitHolds ==
    ~setup.qib => Len(q) <= par.limit - (IF par.limit = setup.limit THEN 1 ELSE 0)

\* The same in bytes, where packets have different sizes, if the packet that does
\* not fit is the one that is dropped.
ByteLimitHolds == setup.qib /\ ~setup.drop_front => byteLength(q) <= par.limit

\* Packets leave the link in the order in which they came, whatever happens to
\* bandwidth and delay if avoidReordering_ is set, and without it as long as
\* the delay is not lowered under way.
DeliveredInOrder ==
    setup.mode = "avoid" \/ ~lowered =>
        \A i, j \in DOMAIN delivered : i < j => delivered[i] < delivered[j]

\* The assertion of LinkDelay::handle() holds on a dynamic link that fails and
\* comes back, with packets of all sizes, while the bandwidth changes, as long as
\* the delay is not lowered under way.
TransitAsserted == aborted => lowered

\* Each packet is in one place: waiting, under way, delivered once or lost.
\* A packet that a failure dropped in transit does not arrive.
EachPacketOnce ==
    LET places == <<Ids(q), FlightIds, Range(delivered), lost>>
    IN  /\ UNION Range(places) = 1 .. next - 1
        /\ \A i, j \in DOMAIN places : i # j => places[i] \cap places[j] = {}
        /\ Cardinality(Range(delivered)) = Len(delivered)

\* The queue keeps the promise of a queue to the link, across failures.
Transmitting == [i \in DOMAIN intr |-> intr[i].pkt]
QueuePart == INSTANCE LossyFifo WITH
    Reopens <- TRUE, queue <- q, busy <- blocked, out <- Transmitting
QueueImplements == QueuePart!Spec

\* Every packet the link has taken is delivered or dropped some time, and
\* the queue is ready again: no failure leaves it blocked for good.
Settles == (q # <<>> \/ flight # <<>> \/ blocked) ~>
               (aborted \/ (q = <<>> /\ flight = <<>> /\ ~blocked))
=============================================================================
