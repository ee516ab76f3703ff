----------------------------- MODULE LossyFifo -----------------------------
(***************************************************************************)
(* What a queue promises to the link behind it, whatever discipline it     *)
(* runs: the promise of class Queue (src/ns-2.35/queue/queue.cc) and of    *)
(* its enque()/deque() methods.                                            *)
(*                                                                         *)
(*   - a packet that arrives is appended to the queue; at most one packet, *)
(*     the arriving one or one already queued, is thrown away for it;      *)
(*   - packets leave from the head only, one at a time, and the next one   *)
(*     leaves when the target has called the queue's handler back;         *)
(*   - a reset throws the queued packets away and nothing else.            *)
(*                                                                         *)
(* So packets are never reordered, duplicated or invented, and a target    *)
(* never holds two packets whose handlers are outstanding.                 *)
(***************************************************************************)
EXTENDS Sequences, SequencesExt, Naturals

CONSTANTS
    Packets,   \* every packet that can be queued
    Reopens    \* unblock_on_resume_: a drained queue accepts packets again

VARIABLES
    queue,     \* the packets waiting, oldest first
    out,       \* the packets handed to target_ whose handler has not run
    busy       \* blocked_: the next packet must wait for resume()

vars == <<queue, out, busy>>

Init ==
    /\ queue = <<>>
    /\ out = <<>>
    /\ busy = FALSE

\* What the queue may look like once packet p has been through enque().
AfterArrival(p) ==
    {Append(queue, p)} \cup
    {RemoveAt(Append(queue, p), i) : i \in 1 .. Len(queue) + 1}

\* recv(): enque, and if the target is free hand it the oldest packet.
Arrive(p) ==
    \E s \in AfterArrival(p) :
        IF busy \/ s = <<>>
        THEN queue' = s /\ UNCHANGED <<out, busy>>
        ELSE queue' = Tail(s) /\ out' = Append(out, Head(s)) /\ busy' = TRUE

\* resume(): the target is done with its packet and takes the next one.
Finish ==
    /\ out # <<>>
    /\ IF queue = <<>>
       THEN /\ out' = Tail(out)
            /\ busy' = ~Reopens
            /\ UNCHANGED queue
       ELSE /\ out' = Append(Tail(out), Head(queue))
            /\ queue' = Tail(queue)
            /\ UNCHANGED busy

\* reset(): every queued packet is dropped; the target keeps the one it has.
Flush ==
    /\ queue' = <<>>
    /\ UNCHANGED <<out, busy>>

\* A lowered limit: packets are dropped from the head or from the tail.
Shrink ==
    /\ \E m, n \in 0 .. Len(queue) : queue' = SubSeq(queue, m + 1, n)
    /\ UNCHANGED <<out, busy>>

Next == (\E p \in Packets : Arrive(p)) \/ Finish \/ Flush \/ Shrink

Spec == Init /\ [][Next]_vars
=============================================================================
