------------------------------ MODULE TcpSink ------------------------------
(***************************************************************************)
(* The receiver of a TCP connection: classes Acker, TcpSink and DelAckSink *)
(* of src/ns-2.35/tcp/tcp-sink.cc.  A sink is a record; the operators      *)
(* return the sink a method leaves.                                        *)
(*                                                                         *)
(* The ring seen_ says which packets from next_ on have come.  It starts   *)
(* with RingSize entries and doubles when a packet is too far ahead.  A    *)
(* packet's bytes are only told apart from 0.                              *)
(***************************************************************************)
EXTENDS Integers, Sequences, FiniteSets, FiniteSetsExt

CONSTANTS
    RingSize,    \* MWS
    Nothing      \* save_ = NULL

ASSUME RingAssumption == RingSize \in Nat \ {0, 1}

NewSink == [next |-> 0, maxseen |-> 0, size |-> RingSize,
            seen |-> [k \in 0 .. RingSize - 1 |-> FALSE],
            unacked |-> FALSE, saved |-> Nothing]

\* Mutant: only the entries below maxseen_ are copied.
resize_buffersShort(r, n) ==
    [r EXCEPT !.size = n,
              !.seen = [k \in 0 .. n - 1 |->
                  \E i \in r.next .. r.maxseen - 1 : i % n = k /\ r.seen[i % r.size]]]

\* resize_buffers()
resize_buffers(r, n) ==
    [r EXCEPT !.size = n,
              !.seen = [k \in 0 .. n - 1 |->
                  \E i \in r.next .. r.maxseen + 1 : i % n = k /\ r.seen[i % r.size]]]

\* The powers of two.
Doublings[k \in Nat] == IF k = 0 THEN 1 ELSE 2 * Doublings[k - 1]

\* The loop at the head of update(): the ring doubles until seq fits.
Grown(r, seq) ==
    LET Fits(n) == seq + 1 - r.next < n - 1
        sizes == {r.size * Doublings[k] : k \in 0 .. seq + 1}
    IN  IF Fits(r.size) THEN r
        ELSE resize_buffers(r, Min({n \in sizes : Fits(n)}))

\* update(), the ring having grown: packet seq is seen, those skipped are not,
\* and next_ moves to the first packet that has not been seen.
update(r, seq) ==
    LET top == Max({r.maxseen, seq})
        Seen(k) == \/ seq >= r.next /\ k = seq % r.size
                   \/ r.seen[k] /\ ~\E i \in r.maxseen + 1 .. seq + 1 :
                                       seq > r.maxseen /\ k = i % r.size
    IN  IF seq < r.next THEN r
        ELSE [r EXCEPT !.maxseen = top,
                       !.seen = [k \in 0 .. r.size - 1 |-> Seen(k)],
                       !.next = Min({i \in r.next .. top + 1 : ~Seen(i % r.size)})]

-----------------------------------------------------------------------------
(* Acknowledgements: a packet carries ect(), ce(), cong_action() as cwr, and *)
(* the ecnecho() of the ECN negotiation as syn.                              *)

\* ack(): what the packet and a saved one say of congestion.
ack(r, p) ==
    LET ps == {p, r.saved} \ {Nothing}
    IN  [r EXCEPT !.unacked = (@ /\ ~\E o \in ps : o.cwr)
                                  \/ \E o \in ps : o.ect /\ o.ce,
                  !.saved = Nothing]

\* The acknowledgement that ack() sends; r is the sink it leaves, s the one
\* it found.
AckPacket(r, s, p) ==
    LET ps == {p, s.saved} \ {Nothing}
    IN  [seq |-> r.next - 1,
         ecnecho |-> (r.unacked /\ \E o \in ps : o.ect)
                         \/ \E o \in ps : ~o.ect /\ o.syn]

\* DelAckSink::recv(): the acknowledgement waits for another packet when none
\* is waiting, the packet was the one expected and fills no gap.
Delays(r, p) ==
    r.saved = Nothing /\ p.seq = r.next - 1 /\ p.seq >= r.maxseen /\ p.seq # 0
=============================================================================
