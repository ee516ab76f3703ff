------------------------------ MODULE DropTail ------------------------------
(***************************************************************************)
(* Class DropTail (src/ns-2.35/queue/drop-tail.cc): the queue discipline   *)
(* as operators on the sequence of waiting packets, head first.  A         *)
(* packet's size counts in units of mean_pktsize_.  Parameter k is how the *)
(* script set the queue up: qib_ counts bytes instead of packets, and      *)
(* drop_front_ drops from the head instead of the tail.                    *)
(***************************************************************************)
EXTENDS PacketBytes, SequencesExt

\* How full the queue is, in what limit_ counts.
Fill(s, k) == IF k.qib THEN byteLength(s) ELSE Len(s)

\* Mutant: the arriving packet is not counted.
enqueUncounted(s, p, k, qlim) ==
    IF Fill(s, k) <= qlim THEN Append(s, p)
    ELSE IF k.drop_front THEN Tail(Append(s, p)) ELSE s

\* enque(): a packet that would fill the queue is refused, or costs the
\* packet at the head its place, whatever the sizes of the two.
enque(s, p, k, qlim) ==
    IF Fill(s, k) + (IF k.qib THEN p.size ELSE 1) < qlim THEN Append(s, p)
    ELSE IF k.drop_front THEN Tail(Append(s, p)) ELSE s

\* Mutant: the limit is lowered and nobody is dropped.
shrink_queueNone(s, k, qlim) == s

\* shrink_queue(): packets leave from the head or the tail as long as what is
\* left exceeds a lowered limit.
shrink_queue(s, k, qlim) ==
    LET Rest(n) == IF k.drop_front THEN SubSeq(s, n + 1, Len(s))
                   ELSE SubSeq(s, 1, Len(s) - n)
    IN  Rest(Cardinality({n \in 0 .. Len(s) - 1 : Fill(Rest(n), k) > qlim}))
=============================================================================
