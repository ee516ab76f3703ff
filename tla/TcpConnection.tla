--------------------------- MODULE TcpConnection ---------------------------
(***************************************************************************)
(* A TCP connection of a simulation: a TcpAgent, a TcpSink (or a           *)
(* DelAckSink) and the network between them.  The links deliver in order   *)
(* (SimpleLink shows that they do); they lose packets, and mark packets of *)
(* ECN-capable senders (RedQueue shows when).  The application hands over  *)
(* data and may stop the transfer.                                         *)
(*                                                                         *)
(* The retransmission timer may expire as soon as it is set: before the    *)
(* answers are back only a bounded number of times, afterwards always.     *)
(***************************************************************************)
EXTENDS TcpAgent, TcpSink, SequencesExt

CONSTANTS
    MaxSeq,      \* bound: the packets the application hands over
    MaxLosses,   \* bound: packets and ACKs lost
    MaxMarks,    \* bound: packets marked
    MaxEarly,    \* bound: time-outs while packets are under way
    Writes       \* how many packets the application hands over at a time

ASSUME BoundAssumption ==
    /\ {MaxSeq, MaxLosses, MaxMarks, MaxEarly} \subseteq Nat
    /\ Writes \subseteq Nat \ {0}

VARIABLES
    snd,         \* the sender
    rcv,         \* the sink
    delack,      \* the sink is a DelAckSink
    data,        \* the packets on their way to the sink
    acks,        \* the ACKs on their way back
    given,       \* how many packets the application has handed over
    stopped,     \* the application has stopped the transfer
    left,        \* what is left of the bounds
    got,         \* the packets the sink has received
    resent       \* the packets sent more than once

vars == <<snd, rcv, delack, data, acks, given, stopped, left, got, resent>>

Init ==
    /\ snd \in {NewSender(e) : e \in BOOLEAN}
    /\ rcv = NewSink
    /\ delack \in BOOLEAN
    /\ data = <<>> /\ acks = <<>>
    /\ given = 0 /\ stopped = FALSE
    /\ left = [loss |-> MaxLosses, mark |-> MaxMarks, early |-> MaxEarly]
    /\ got = {} /\ resent = {}

\* The sender becomes t, which ends with send_much(): what it sends enters the
\* network.
Sends(t) ==
    \E r \in {t} : \E s \in {send_much(r)} :
        /\ snd' = [s EXCEPT !.out = <<>>]
        /\ data' = data \o s.out
        /\ resent' = resent \cup {p.seq : p \in {o \in Range(s.out) : o.seq <= snd.maxseq}}

\* The application: send
Send(n) ==
    /\ ~stopped
    /\ given + n <= MaxSeq
    /\ given' = given + n
    /\ Sends(sendmsg(snd, n))
    /\ UNCHANGED <<rcv, delack, acks, stopped, left, got>>

\* The application: Application/FTP stop
Stop ==
    /\ ~stopped
    /\ given > 0
    /\ stopped' = TRUE
    /\ Sends(advance0(snd))
    /\ UNCHANGED <<rcv, delack, acks, given, left, got>>

\* TcpAgent::recv()
RecvAck ==
    /\ acks # <<>>
    /\ acks' = Tail(acks)
    /\ Sends(recv(snd, Head(acks)))
    /\ UNCHANGED <<rcv, delack, given, stopped, left, got>>

\* RtxTimer::expire()
Expire ==
    /\ snd.rtx_timer
    /\ \/ data = <<>> /\ acks = <<>> /\ rcv.saved = Nothing /\ UNCHANGED left
       \/ left.early > 0 /\ left' = [left EXCEPT !.early = @ - 1]
    /\ Sends(timeout(snd))
    /\ UNCHANGED <<rcv, delack, acks, given, stopped, got>>

\* TcpSink::recv() and DelAckSink::recv()
RecvData ==
    /\ data # <<>>
    /\ data' = Tail(data)
    /\ LET p == Head(data)
       IN  /\ got' = got \cup {p.seq}
           /\ \E g \in {Grown(rcv, p.seq)} : \E r \in {update(g, p.seq)} :
                  IF delack /\ Delays(r, p)
                  THEN rcv' = [r EXCEPT !.saved = p] /\ UNCHANGED acks
                  ELSE rcv' = ack(r, p) /\ acks' = Append(acks, AckPacket(rcv', r, p))
    /\ UNCHANGED <<snd, delack, given, stopped, left, resent>>

\* DelAckSink::timeout()
AckDelayed ==
    /\ rcv.saved # Nothing
    /\ rcv' = ack(rcv, rcv.saved)
    /\ acks' = Append(acks, AckPacket(rcv', rcv, rcv.saved))
    /\ UNCHANGED <<snd, delack, data, given, stopped, left, got, resent>>

-----------------------------------------------------------------------------
(* The network *)

LoseData(i) ==
    /\ left.loss > 0
    /\ left' = [left EXCEPT !.loss = @ - 1]
    /\ data' = RemoveAt(data, i)
    /\ UNCHANGED <<snd, rcv, delack, acks, given, stopped, got, resent>>

LoseAck(i) ==
    /\ left.loss > 0
    /\ left' = [left EXCEPT !.loss = @ - 1]
    /\ acks' = RemoveAt(acks, i)
    /\ UNCHANGED <<snd, rcv, delack, data, given, stopped, got, resent>>

\* A RED queue marks a packet of an ECN-capable sender.
Mark(i) ==
    /\ left.mark > 0
    /\ left' = [left EXCEPT !.mark = @ - 1]
    /\ data[i].ect /\ ~data[i].ce
    /\ data' = [data EXCEPT ![i].ce = TRUE]
    /\ UNCHANGED <<snd, rcv, delack, acks, given, stopped, got, resent>>

Next ==
    \/ \E n \in Writes : Send(n)
    \/ Stop
    \/ RecvAck
    \/ Expire
    \/ RecvData
    \/ AckDelayed
    \/ \E i \in DOMAIN data : LoseData(i) \/ Mark(i)
    \/ \E i \in DOMAIN acks : LoseAck(i)

Spec == Init /\ [][Next]_vars

\* Packets travel and timers expire.
Progress == RecvData \/ AckDelayed \/ RecvAck \/ Expire
FairSpec == Spec /\ WF_vars(Progress)

-----------------------------------------------------------------------------
(* Properties *)

\* What the sender takes for acknowledged has reached the sink, and the
\* cumulative number of the sink, kept with a ring that wraps around and is
\* resized, is exactly the first packet that has not: nothing is skipped or
\* reported twice.
AckedHasArrived ==
    /\ rcv.next = Min((0 .. MaxSeq + 1) \ got)
    /\ \A a \in Range(acks) : a.seq < rcv.next
    /\ snd.ack < rcv.next

\* Never more than the receiver's window is outstanding: also after limited
\* transmit, fast retransmit and time-outs.
WindowKept ==
    /\ snd.maxseq <= snd.ack + Wnd
    /\ snd.ack < snd.t_seqno /\ snd.t_seqno <= snd.maxseq + 1
    /\ snd.maxseq < snd.curseq \/ stopped \/ given = 0

\* Karn's rule: a round trip is only measured with a packet that was sent
\* once, so that its ACK cannot be the answer to an earlier transmission.
KarnsRule == snd.rtt_active => snd.rtt_seq \in (snd.ack + 1 .. snd.maxseq) \ resent

\* The sender cannot get stuck: while a packet is not acknowledged, or data
\* waits and marks have cut the window below one packet, the retransmission
\* timer runs.
TimerRuns ==
    snd.ack < snd.maxseq \/ (0 < given /\ snd.t_seqno < snd.curseq /\ snd.cwnd < Unit)
        => snd.rtx_timer

\* Everything the application handed over arrives and is acknowledged.
DataArrives == (given > 0) ~> (stopped \/ snd.ack = given)
=============================================================================
