----------------------------- MODULE HeapQueue -----------------------------
(***************************************************************************)
(* The event list of class HeapScheduler: the binary heap of               *)
(* src/ns-2.35/common/scheduler.cc and heap.h.  The array is a sequence,   *)
(* counted from 1.  The secondary key he_s_key, which breaks ties, counts  *)
(* insertions as the event's uid does.                                     *)
(*                                                                         *)
(* A loop over the heap is a function from its state, a heap and a         *)
(* position in it, to the state a round later.  Each round moves the       *)
(* position up or down the tree, so a heap of n entries settles within n.  *)
(***************************************************************************)
EXTENDS Integers, Sequences, SequencesExt

Event == [time : Nat, uid : Nat]

KEY_LESS_THAN(e, f) == e.time < f.time \/ (e.time = f.time /\ e.uid < f.uid)
swap(h, i, j) == [h EXCEPT ![i] = h[j], ![j] = h[i]]
parent(i) == i \div 2

\* The states of a loop over a heap of n entries.
Places(n) == [1 .. n -> Event] \X (1 .. n)
\* The states after each round of a loop that begins in s; a round of a loop
\* that is over changes nothing.
Rounds(round, s) ==
    LET after[k \in Nat] == IF k = 0 THEN s ELSE round[after[k - 1]]
    IN  after
\* The heap that the loop leaves.
Settled(round, h, i) == Rounds(round, <<h, i>>)[Len(h)][1]

\* The loop of heap_insert(): the entry at i rises to its place.
Rise(n) ==
    [s \in Places(n) |->
        LET h == s[1]
            i == s[2]
        IN  IF i > 1 /\ KEY_LESS_THAN(h[i], h[parent(i)])
            THEN <<swap(h, i, parent(i)), parent(i)>> ELSE s]

heap_insert(h, e) == Settled(Rise(Len(h) + 1), Append(h, e), Len(h) + 1)

\* The child of i that is compared with it, i itself if it has none.
Child(h, i) ==
    CASE 2 * i + 1 <= Len(h) -> IF KEY_LESS_THAN(h[2 * i], h[2 * i + 1]) THEN 2 * i ELSE 2 * i + 1
      [] 2 * i = Len(h) -> 2 * i
      [] 2 * i > Len(h) -> i
\* Heapify in heap_extract_min(): the entry at i sinks to its place.
Sink(n) ==
    [s \in Places(n) |->
        LET h == s[1]
            i == s[2]
            x == Child(h, i)
        IN  IF x # i /\ KEY_LESS_THAN(h[x], h[i]) THEN <<swap(h, i, x), x>> ELSE s]

\* Mutant: the last entry stays at the root.
heap_extract_minFlat(h) ==
    IF Len(h) = 1 THEN <<>> ELSE [Front(h) EXCEPT ![1] = Last(h)]

heap_extract_min(h) ==
    IF Len(h) = 1 THEN <<>>
    ELSE Settled(Sink(Len(h) - 1), [Front(h) EXCEPT ![1] = Last(h)], 1)

\* The loop of heap_delete(): the entry is swapped up to the root, whatever
\* its key.
ToRoot(n) ==
    [s \in Places(n) |->
        LET h == s[1]
            i == s[2]
        IN  IF i > 1 THEN <<swap(h, i, parent(i)), parent(i)>> ELSE s]

heap_delete(h, e) ==
    heap_extract_min(Settled(ToRoot(Len(h)), h, CHOOSE i \in DOMAIN h : h[i] = e))
=============================================================================
