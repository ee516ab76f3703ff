------------------------------ MODULE TcpAgent ------------------------------
(***************************************************************************)
(* The sender of a TCP connection: class TcpAgent (Tahoe) of               *)
(* src/ns-2.35/tcp/tcp.cc with the defaults of tcl/lib/ns-default.tcl: a   *)
(* SYN, windowInit_ 2, three duplicate ACKs, limited transmit (singledup_),*)
(* bugFix_, slow_start_restart_ and timerfix_.  ECN is an option.          *)
(*                                                                         *)
(* A sender is a record; the operators return the sender a method leaves.  *)
(* Field out collects the packets sent.  last_ack_ and highest_ack_ are    *)
(* always equal here and are the field ack.  cwnd_ counts in units of      *)
(* 1 / Unit, and its linear increase is at least one unit.  How long the   *)
(* retransmission timer runs is left out, and with it the round-trip       *)
(* estimate and t_backoff_: what is kept of them is when a round trip is   *)
(* measured.                                                               *)
(***************************************************************************)
EXTENDS Integers, Sequences, FiniteSetsExt

CONSTANTS
    Wnd,         \* wnd_, the receiver's window
    Unit,        \* the unit of cwnd_
    numdupacks   \* numdupacks_

ASSUME SenderAssumption ==
    /\ Wnd \in Nat \ {0}
    /\ Unit \in Nat \ {0}
    /\ numdupacks \in Nat \ {0}

\* reset() and the constructor.
NewSender(e) ==
    [ecn |-> e, ect |-> FALSE, cong_action |-> FALSE,
     t_seqno |-> 0, curseq |-> 0, maxseq |-> -1, ack |-> -1, dupacks |-> 0,
     cwnd |-> Unit, ssthresh |-> Wnd, wnd_init |-> 2,
     recover |-> 0, last_cwnd_action |-> "none",
     rtt_active |-> FALSE, rtt_seq |-> -1, rtx_timer |-> FALSE,
     closed |-> FALSE, out |-> <<>>]

window(s) == Min({s.cwnd \div Unit, Wnd})

-----------------------------------------------------------------------------
(* Sending *)

\* output() of the packets t_seqno_ .. last, in turn.  The first one carries
\* the news that the window was cut; the first new one is timed unless a
\* round trip is being measured; the initial SYN takes a sequence number.
output(s, last) ==
    LET new == last > s.maxseq
    IN  IF last < s.t_seqno THEN s
        ELSE [s EXCEPT
            !.out = @ \o [i \in 1 .. last - s.t_seqno + 1 |->
                       [seq |-> s.t_seqno + i - 1, ce |-> FALSE,
                        cwr |-> i = 1 /\ s.cong_action,
                        ect |-> s.ecn /\ s.t_seqno + i # 1,
                        syn |-> s.ecn /\ s.t_seqno + i = 1]],
            !.cong_action = FALSE,
            !.curseq = IF s.maxseq = -1 THEN @ + 1 ELSE @,
            !.t_seqno = last + 1,
            !.maxseq = IF new THEN last ELSE @,
            !.rtt_active = @ \/ new,
            !.rtt_seq = IF new /\ ~s.rtt_active /\ s.maxseq + 1 > @
                        THEN s.maxseq + 1 ELSE @,
            !.rtx_timer = TRUE]

\* send_much(): what the window and the data allow.
send_much(s) == output(s, Min({s.ack + window(s), s.curseq - 1}))

\* Mutant: the receiver's window is not looked at.
send_oneFree(s) ==
    IF /\ s.t_seqno < s.curseq
       /\ (s.t_seqno - s.ack - s.dupacks) * Unit <= s.cwnd
    THEN output(s, s.t_seqno) ELSE s

\* send_one(), for a first or second duplicate ACK.
send_one(s) ==
    IF /\ s.t_seqno <= s.ack + Wnd
       /\ s.t_seqno < s.curseq
       /\ (s.t_seqno - s.ack - s.dupacks) * Unit <= s.cwnd
    THEN output(s, s.t_seqno) ELSE s

-----------------------------------------------------------------------------
(* The congestion window *)

\* slowdown(): the window becomes w; half: ssthresh_ becomes half the window.
slowdown(s, w, half) ==
    [s EXCEPT !.ssthresh = IF half
                           THEN Max({2, Min({s.cwnd, Wnd * Unit}) \div (2 * Unit)})
                           ELSE Max({2, @}),
              !.cwnd = w,
              !.cong_action = TRUE]

\* opencwnd()
opencwnd(s) ==
    [s EXCEPT !.cwnd = IF @ < s.ssthresh * Unit THEN @ + Unit
                       ELSE @ + Max({1, (Unit * Unit) \div @})]

\* ecn(): once for what was sent before the last cut.
ecn(s, seqno) ==
    IF seqno > s.recover \/ s.last_cwnd_action = "timeout"
    THEN slowdown([s EXCEPT !.recover = s.maxseq, !.last_cwnd_action = "ecn"],
                  Min({s.cwnd, Wnd * Unit}) \div 2, TRUE)
    ELSE s

\* Mutant: a measurement goes on.
reset_rtx_timerMeasuring(s) == [s EXCEPT !.rtx_timer = TRUE, !.t_seqno = s.ack + 1]

\* Mutant: the sequence goes on where it was.
reset_rtx_timerMild(s) == [s EXCEPT !.rtx_timer = TRUE, !.rtt_active = FALSE]

\* reset_rtx_timer(): go back to the first packet not acknowledged.
reset_rtx_timer(s) ==
    [s EXCEPT !.rtx_timer = TRUE, !.t_seqno = s.ack + 1, !.rtt_active = FALSE]

\* dupack_action(): Tahoe's fast retransmit, once per window.
dupack_action(s) ==
    IF s.ack > s.recover \/ s.ack = 0
    THEN reset_rtx_timer(slowdown([s EXCEPT !.recover = s.maxseq,
                                            !.last_cwnd_action = "dupack"], Unit, TRUE))
    ELSE IF s.ecn /\ s.last_cwnd_action = "ecn"
    THEN reset_rtx_timer(slowdown([s EXCEPT !.last_cwnd_action = "dupack"], Unit, FALSE))
    ELSE s

-----------------------------------------------------------------------------
(* Events.  Every handler goes on with send_much(); after an ACK older than the *)
(* last one the code leaves it out, where it would find nothing to send.        *)

\* Mutant: the timer stops when all that was sent is acknowledged.
newtimerStops(s, seqno) == [s EXCEPT !.rtx_timer = seqno < s.maxseq]

\* newtimer(): the timer is set or cancelled for the ACK seqno.
newtimer(s, seqno) ==
    [s EXCEPT !.rtx_timer = s.t_seqno > seqno \/ seqno < s.maxseq \/ s.cwnd < Unit]

\* newack()
newack(s, seqno) ==
    newtimer([s EXCEPT !.dupacks = 0, !.ack = seqno,
                       !.t_seqno = Max({@, seqno + 1}),
                       !.rtt_active = @ /\ seqno < s.rtt_seq], seqno)

\* recv_newack_helper()
recv_newack_helper(s, a) ==
    LET n == newack(s, a.seq)
        o == IF s.ect /\ a.ecnecho THEN n ELSE opencwnd(n)
    IN  [o EXCEPT !.ect = @ \/ a.ecnecho,
                  !.closed = @ \/ s.curseq - 1 <= a.seq]

\* recv(): an ACK arrives.
recv(s0, a) ==
    LET s == IF a.ecnecho /\ s0.ecn THEN ecn(s0, a.seq) ELSE s0
        n == recv_newack_helper(s, a)
        d == [s EXCEPT !.dupacks = @ + 1]
    IN  CASE a.seq > s.ack /\ a.seq = 0 -> [n EXCEPT !.cwnd = n.wnd_init * Unit]
          [] a.seq > s.ack /\ a.seq # 0 -> n
          [] a.seq = s.ack /\ d.dupacks = numdupacks -> dupack_action(d)
          [] a.seq = s.ack /\ d.dupacks < numdupacks -> send_one(d)
          [] a.seq = s.ack /\ d.dupacks > numdupacks -> d
          [] a.seq < s.ack -> s

\* timeout() of the retransmission timer.
timeout(s0) ==
    LET c == [s0 EXCEPT !.cwnd = Max({@, Unit}), !.recover = s0.maxseq,
                        !.wnd_init = IF s0.ack = -1 THEN 1 ELSE @]
        s == CASE s0.ack = s0.maxseq -> slowdown(c, Unit, FALSE)
               [] s0.ack # s0.maxseq ->
                    slowdown(c, Unit, ~(s0.ack < s0.maxseq
                                            /\ s0.last_cwnd_action = "ecn"))
    IN  reset_rtx_timer([s EXCEPT !.last_cwnd_action = "timeout"])

\* sendmsg() of n packets.
sendmsg(s, n) == [s EXCEPT !.curseq = @ + n]

\* FTP's stop: "advance 0", which is advanceby(maxseq_ - curseq_).
advance0(s) == [s EXCEPT !.curseq = Max({0, s.maxseq})]
=============================================================================
