---------------------------- MODULE PacketBytes -----------------------------
(***************************************************************************)
(* The bytes of a queue of packets: PacketQueue::byteLength() of           *)
(* src/ns-2.35/queue/queue.h.                                              *)
(***************************************************************************)
EXTENDS Integers, Sequences, FiniteSets

\* The packet at position i holds the bytes <<i, 1>> .. <<i, size>>.
Bytes(s) == UNION {{i} \X (1 .. s[i].size) : i \in DOMAIN s}

byteLength(s) == Cardinality(Bytes(s))
=============================================================================
