----------------------------- MODULE AodvProofs -----------------------------
(***************************************************************************)
(* Proofs about Aodv, for any number of nodes, links and messages.         *)
(*                                                                         *)
(* LoopFree is not inductive: it says nothing of the routes that are still *)
(* messages.  AodvInv says the same of what every request and every reply  *)
(* offers: its sender is the destination, or holds a route that is ahead   *)
(* of the offer, and the number it carries has been given out by its       *)
(* destination.  An offer outlives every step, because no route of a node  *)
(* ever falls behind what it was (Grows).  That in turn rests on parity:   *)
(* a route that works carries an even number, one that has gone down an    *)
(* odd one, so taking a route down with the next number, or with the one   *)
(* an error brings, always makes it newer.  The one step that takes a      *)
(* route down and leaves its number is the end of a failed local repair,   *)
(* and what depends on it is claimed only until then (Whole).              *)
(*                                                                         *)
(* A handler is first shown to leave a node that has Moved on and messages *)
(* that keep the invariant (Handled), then each action to keep it.         *)
(***************************************************************************)
EXTENDS Aodv, FiniteSetTheorems, TLAPS

-----------------------------------------------------------------------------
(* The inductive invariant *)

Packet == [src : Nodes, dst : Nodes, id : Nat, forwards : 0 .. NETWORK_DIAMETER - 1]
Route == [seqno : Nat, hops : Nat, flags : {"up", "down", "repair"}, nexthop : Nodes,
          pc : SUBSET Nodes]
Node == [seqno : Nat, bid : Nat, seen : SUBSET (Nodes \X Nat), rqueue : SUBSET Packet,
         lrtimer : SUBSET Packet, rt : [Nodes -> Route]]

\* The sequence numbers of routes that work, and of routes that have gone down.
Fresh(seqno) == seqno \in Nat /\ seqno >= 2 /\ seqno % 2 = 0
Stale(seqno) == seqno \in Nat /\ (seqno = 0 \/ seqno % 2 = 1)

\* Route r is newer than an offer, or as new and shorter.
Ahead(r, seqno, hops) == seqno < r.seqno \/ (seqno = r.seqno /\ r.hops < hops)

\* Route t has not fallen behind route r.
Kept(r, t) == r.seqno < t.seqno \/ (r.seqno = t.seqno /\ t.hops <= r.hops)

\* Of nodes N, f may offer a route to d: d has given out its number and, as long
\* as no repair has failed (ok), f is d or is ahead of what it offers.
Offered(N, f, d, seqno, hops, ok) ==
    /\ f \in Nodes /\ d \in Nodes /\ hops \in Nat
    /\ Fresh(seqno) /\ seqno <= N[d].seqno
    /\ ok => f = d \/ Ahead(N[f].rt[d], seqno, hops)

\* A route to d in the table of one of the nodes N.
RouteOK(N, d, r, ok) ==
    /\ r.seqno <= N[d].seqno + 1
    /\ r.flags = "down" => r.hops = INFINITY2 /\ (ok => Stale(r.seqno))
    /\ r.flags # "down" => Fresh(r.seqno) /\ r.seqno <= N[d].seqno
    /\ ok /\ r.hops # INFINITY2 => r.nexthop = d \/ Ahead(N[r.nexthop].rt[d], r.seqno, r.hops)

NodeOK(N, nd, ok) ==
    /\ nd \in Node /\ Fresh(nd.seqno)
    /\ \A d \in Nodes : RouteOK(N, d, nd.rt[d], ok)
    /\ \A d \in Nodes : nd.rt[d].flags = "up" => Waiting(nd, d) = {}

\* A destination that a route error lists.
LostOK(N, e, ok) ==
    /\ e.dst \in Nodes /\ e.seqno \in Nat /\ e.seqno <= N[e.dst].seqno + 1
    /\ ok => Stale(e.seqno)

MessageOK(N, m, ok) ==
    /\ m.from \in Nodes /\ m.to \in Nodes
    /\ m.type = "data" => m.pkt \in Packet
    /\ m.type = "rreq" => /\ Offered(N, m.from, m.src, m.sseqno, m.hops, ok) /\ m.bid \in Nat
                          /\ m.dst \in Nodes /\ m.dseqno \in Nat /\ m.dseqno <= N[m.dst].seqno + 1
    /\ m.type = "rrep" => Offered(N, m.from, m.dst, m.seqno, m.hops, ok) /\ m.src \in Nodes
    /\ m.type = "rerr" => \A e \in m.dests : LostOK(N, e, ok)

Whole == repair # "failed"
Untouched == \A n, d \in Nodes : node[n].rt[d].flags # "repair"
AodvInv ==
    /\ left \in [data : Nat, changes : Nat, expiries : Nat]
    /\ node \in [Nodes -> Node]
    /\ \A n \in Nodes : NodeOK(node, node[n], Whole)
    /\ \A m \in net : MessageOK(node, m, Whole)
    /\ repair = "none" => ~aborted /\ Untouched

\* What a handler of node n makes of it: its numbers and routes do not fall
\* behind, and it keeps its promises.
Moved(N, n, nd, ok) ==
    /\ NodeOK(N, nd, ok)
    /\ N[n].seqno <= nd.seqno
    /\ ok => \A d \in Nodes : Kept(N[n].rt[d], nd.rt[d])

\* A handler of node n leaves s.nd and sends s.out.
Handled(N, n, s, ok) ==
    /\ Moved(N, n, s.nd, ok)
    /\ \A m \in s.out : MessageOK([N EXCEPT ![n] = s.nd], m, ok)

-----------------------------------------------------------------------------
(* Growing *)

\* From nodes N to nodes M no number and, where ok, no route falls behind.
Grows(N, M, ok) ==
    \A k \in Nodes : /\ N[k].seqno <= M[k].seqno
                     /\ ok => \A d \in Nodes : Kept(N[k].rt[d], M[k].rt[d])

\* Types of nodes and routes.
LEMMA NodeTypes ==
    ASSUME NEW nd \in Node, NEW d \in Nodes
    PROVE  /\ nd.seqno \in Nat /\ nd.bid \in Nat /\ nd.rqueue \subseteq Packet
           /\ nd.lrtimer \subseteq Packet /\ nd.rt \in [Nodes -> Route]
           /\ nd.rt[d] \in Route /\ nd.rt[d].seqno \in Nat /\ nd.rt[d].hops \in Nat
           /\ nd.rt[d].flags \in {"up", "down", "repair"} /\ nd.rt[d].nexthop \in Nodes
           /\ nd.rt[d].pc \subseteq Nodes
<1>1. nd.rt \in [Nodes -> Route] /\ nd.seqno \in Nat /\ nd.bid \in Nat
      /\ nd.rqueue \subseteq Packet /\ nd.lrtimer \subseteq Packet
  BY DEF Node
<1>2. nd.rt[d] \in Route
  BY <1>1
<1> QED  BY <1>1, <1>2 DEF Route

\* The same of all nodes.
LEMMA RouteTypes ==
    ASSUME NEW N \in [Nodes -> Node], NEW k \in Nodes, NEW d \in Nodes
    PROVE  /\ N[k] \in Node /\ N[k].seqno \in Nat
           /\ N[k].rt[d] \in Route /\ N[k].rt[d].seqno \in Nat /\ N[k].rt[d].hops \in Nat
<1>1. N[k] \in Node
  OBVIOUS
<1> QED  BY <1>1, NodeTypes

\* What is ahead stays ahead.
LEMMA AheadKept ==
    ASSUME NEW r \in Route, NEW t \in Route, Kept(r, t), NEW seqno \in Nat, NEW hops \in Nat,
           Ahead(r, seqno, hops)
    PROVE  Ahead(t, seqno, hops)
<1>1. r.seqno \in Nat /\ r.hops \in Nat /\ t.seqno \in Nat /\ t.hops \in Nat
  BY DEF Route
<1> QED  BY <1>1 DEF Kept, Ahead

\* Not falling behind is transitive.
LEMMA KeptTransitive ==
    ASSUME NEW r \in Route, NEW s \in Route, NEW t \in Route, Kept(r, s), Kept(s, t)
    PROVE  Kept(r, t)
<1>1. r.seqno \in Nat /\ r.hops \in Nat /\ t.seqno \in Nat /\ t.hops \in Nat
      /\ s.seqno \in Nat /\ s.hops \in Nat
  BY DEF Route
<1> QED  BY <1>1 DEF Kept

\* An offer outlives every growth of the nodes.
LEMMA OfferedGrows ==
    ASSUME NEW N \in [Nodes -> Node], NEW M \in [Nodes -> Node], NEW ok, NEW go,
           go => ok, Grows(N, M, go), NEW f, NEW d, NEW seqno, NEW hops,
           Offered(N, f, d, seqno, hops, ok)
    PROVE  Offered(M, f, d, seqno, hops, go)
<1>1. f \in Nodes /\ d \in Nodes /\ hops \in Nat /\ Fresh(seqno) /\ seqno <= N[d].seqno /\ seqno \in Nat
  BY DEF Offered, Fresh
<1>2. seqno <= M[d].seqno
  BY <1>1, RouteTypes DEF Grows
<1>3. ASSUME go, f # d PROVE Ahead(M[f].rt[d], seqno, hops)
  <2>1. Ahead(N[f].rt[d], seqno, hops)
    BY <1>3 DEF Offered
  <2>2. Kept(N[f].rt[d], M[f].rt[d])
    BY <1>1, <1>3 DEF Grows
  <2>3. N[f].rt[d] \in Route /\ M[f].rt[d] \in Route
    BY <1>1, RouteTypes
  <2> QED  BY <1>1, <2>1, <2>2, <2>3, AheadKept
<1> QED  BY <1>1, <1>2, <1>3 DEF Offered

\* So does a route.
LEMMA RouteGrows ==
    ASSUME NEW N \in [Nodes -> Node], NEW M \in [Nodes -> Node], NEW ok, NEW go,
           go => ok, Grows(N, M, go), NEW d \in Nodes, NEW r \in Route, RouteOK(N, d, r, ok)
    PROVE  RouteOK(M, d, r, go)
<1>1. /\ N[d].seqno \in Nat /\ M[d].seqno \in Nat /\ N[d].seqno <= M[d].seqno
      /\ r.seqno \in Nat /\ r.hops \in Nat /\ r.nexthop \in Nodes
  BY RouteTypes DEF Grows, Route
<1>2. r.seqno <= M[d].seqno + 1 /\ (r.flags # "down" => Fresh(r.seqno) /\ r.seqno <= M[d].seqno)
  BY <1>1 DEF RouteOK
<1>3. ASSUME go, r.hops # INFINITY2, r.nexthop # d
      PROVE  Ahead(M[r.nexthop].rt[d], r.seqno, r.hops)
  <2>1. Ahead(N[r.nexthop].rt[d], r.seqno, r.hops)
    BY <1>3 DEF RouteOK
  <2>2. Kept(N[r.nexthop].rt[d], M[r.nexthop].rt[d])
    BY <1>1, <1>3 DEF Grows
  <2>3. N[r.nexthop].rt[d] \in Route /\ M[r.nexthop].rt[d] \in Route
    BY <1>1, RouteTypes
  <2> QED  BY <1>1, <2>1, <2>2, <2>3, AheadKept
<1>4. r.flags = "down" => r.hops = INFINITY2 /\ (go => Stale(r.seqno))
  BY DEF RouteOK
<1> QED  BY <1>2, <1>3, <1>4 DEF RouteOK

\* And a node's promises.
LEMMA NodeGrows ==
    ASSUME NEW N \in [Nodes -> Node], NEW M \in [Nodes -> Node], NEW ok, NEW go,
           go => ok, Grows(N, M, go), NEW nd, NodeOK(N, nd, ok)
    PROVE  NodeOK(M, nd, go)
<1>1. nd \in Node
  BY DEF NodeOK
<1>2. ASSUME NEW d \in Nodes PROVE RouteOK(M, d, nd.rt[d], go)
  <2> DEFINE r == nd.rt[d]
  <2>1. r \in Route /\ RouteOK(N, d, r, ok)
    BY <1>1, NodeTypes DEF NodeOK
  <2> HIDE DEF r
  <2>2. RouteOK(M, d, r, go)
    BY <2>1, RouteGrows
  <2> QED  BY <2>2 DEF r
<1> QED  BY <1>2 DEF NodeOK

\* And a message.
LEMMA MessageGrows ==
    ASSUME NEW N \in [Nodes -> Node], NEW M \in [Nodes -> Node], NEW ok, NEW go,
           go => ok, Grows(N, M, go), NEW m, MessageOK(N, m, ok)
    PROVE  MessageOK(M, m, go)
<1>1. \A d \in Nodes : N[d].seqno \in Nat /\ M[d].seqno \in Nat /\ N[d].seqno <= M[d].seqno
  BY RouteTypes DEF Grows
<1>2. ASSUME NEW e, LostOK(N, e, ok) PROVE LostOK(M, e, go)
  BY <1>1, <1>2 DEF LostOK
<1>3. ASSUME m.type = "rreq"
      PROVE  /\ Offered(M, m.from, m.src, m.sseqno, m.hops, go) /\ m.bid \in Nat
             /\ m.dst \in Nodes /\ m.dseqno \in Nat /\ m.dseqno <= M[m.dst].seqno + 1
  <2>1. /\ Offered(N, m.from, m.src, m.sseqno, m.hops, ok) /\ m.bid \in Nat
        /\ m.dst \in Nodes /\ m.dseqno \in Nat /\ m.dseqno <= N[m.dst].seqno + 1
    BY <1>3 DEF MessageOK
  <2>2. Offered(M, m.from, m.src, m.sseqno, m.hops, go)
    BY <2>1, OfferedGrows
  <2> QED  BY <1>1, <2>1, <2>2
<1>4. ASSUME m.type = "rrep"
      PROVE  Offered(M, m.from, m.dst, m.seqno, m.hops, go) /\ m.src \in Nodes
  BY <1>4, OfferedGrows DEF MessageOK
<1>5. m.type = "rerr" => \A e \in m.dests : LostOK(M, e, go)
  BY <1>2 DEF MessageOK
<1> QED  BY <1>3, <1>4, <1>5 DEF MessageOK

\* One node has moved: all have grown.
LEMMA MovedGrows ==
    ASSUME NEW N \in [Nodes -> Node], NEW n \in Nodes, NEW nd, NEW ok, Moved(N, n, nd, ok)
    PROVE  LET M == [N EXCEPT ![n] = nd]
           IN  /\ nd \in Node /\ M \in [Nodes -> Node] /\ M[n] = nd
               /\ Grows(N, M, ok)
<1> DEFINE M == [N EXCEPT ![n] = nd]
<1>1. nd \in Node
  BY DEF Moved, NodeOK
<1>2. M \in [Nodes -> Node] /\ M[n] = nd /\ \A k \in Nodes : k # n => M[k] = N[k]
  BY <1>1
<1> HIDE DEF M
<1>3. ASSUME NEW k \in Nodes PROVE N[k].seqno <= M[k].seqno
                                  /\ (ok => \A d \in Nodes : Kept(N[k].rt[d], M[k].rt[d]))
  <2>1. CASE k = n
    BY <1>2, <2>1 DEF Moved
  <2>2. CASE k # n
    <3>1. M[k] = N[k] /\ N[k].seqno \in Nat
      BY <1>2, <2>2, RouteTypes
    <3>2. ASSUME NEW d \in Nodes PROVE Kept(N[k].rt[d], N[k].rt[d])
      <4>1. N[k].rt[d].hops \in Nat
        BY RouteTypes
      <4> QED  BY <4>1 DEF Kept
    <3> QED  BY <3>1, <3>2
  <2> QED  BY <2>1, <2>2
<1>4. Grows(N, M, ok)
  BY <1>3 DEF Grows
<1> QED  BY <1>1, <1>2, <1>4 DEF M

\* A step in which one node handles something keeps the invariant.
LEMMA HandledStep ==
    ASSUME AodvInv, NEW n \in Nodes, NEW s, Handled(node, n, s, Whole'), Whole' => Whole,
           node' = [node EXCEPT ![n] = s.nd], net' \subseteq net \cup s.out,
           left' \in [data : Nat, changes : Nat, expiries : Nat],
           repair' = "none" => ~aborted' /\ Untouched'
    PROVE  AodvInv'
<1> DEFINE go == Whole'
           ok == Whole
<1>1. node \in [Nodes -> Node] /\ Moved(node, n, s.nd, go) /\ (go => ok)
  BY DEF AodvInv, Handled
<1>2. \A m \in net : MessageOK(node, m, ok)
  BY DEF AodvInv
<1>3. \A k \in Nodes : NodeOK(node, node[k], ok)
  BY DEF AodvInv
<1>4. \A m \in s.out : MessageOK(node', m, go)
  BY DEF Handled
<1> HIDE DEF go, ok
<1>5. node' \in [Nodes -> Node] /\ node'[n] = s.nd /\ Grows(node, node', go) /\ s.nd \in Node
  BY <1>1, MovedGrows
<1>6. \A m \in net' : MessageOK(node', m, go)
  <2>1. \A m \in net : MessageOK(node', m, go)
    BY <1>1, <1>2, <1>5, MessageGrows
  <2> QED  BY <1>4, <2>1
<1>7. ASSUME NEW k \in Nodes PROVE NodeOK(node', node'[k], go)
  <2>1. CASE k = n
    <3>1. NodeOK(node, s.nd, go)
      BY <1>1 DEF Moved
    <3>2. NodeOK(node', s.nd, go)
      BY <1>1, <1>5, <3>1, NodeGrows
    <3> QED  BY <1>5, <2>1, <3>2
  <2>2. CASE k # n
    <3>1. node'[k] = node[k] /\ NodeOK(node, node[k], ok)
      BY <1>1, <1>3, <2>2
    <3>2. NodeOK(node', node[k], go)
      BY <1>1, <1>5, <3>1, NodeGrows
    <3> QED  BY <3>1, <3>2
  <2> QED  BY <2>1, <2>2
<1> QED  BY <1>5, <1>6, <1>7 DEF AodvInv, go

\* No node is caught in a repair if the one that moved is not.
LEMMA StaysUntouched ==
    ASSUME AodvInv, Untouched, NEW n \in Nodes, NEW nd \in Node, node' = [node EXCEPT ![n] = nd],
           \A d \in Nodes : nd.rt[d].flags # "repair"
    PROVE  Untouched'
<1>1. node \in [Nodes -> Node]
  BY DEF AodvInv
<1>2. node'[n] = nd /\ \A k \in Nodes : k # n => node'[k] = node[k]
  BY <1>1
<1>3. ASSUME NEW k \in Nodes, NEW d \in Nodes PROVE node'[k].rt[d].flags # "repair"
  BY <1>2 DEF Untouched
<1> QED  BY <1>3 DEF Untouched

\* A node that has not moved.
LEMMA StandsStill ==
    ASSUME NEW N \in [Nodes -> Node], NEW n \in Nodes, NEW ok, NodeOK(N, N[n], ok)
    PROVE  Moved(N, n, N[n], ok)
<1>1. N[n].seqno \in Nat /\ \A d \in Nodes : N[n].rt[d].hops \in Nat
  BY RouteTypes
<1> QED  BY <1>1 DEF Moved, Kept

\* What leaves the number and the routes alone, and lets no packet wait for a
\* route that is up.
LEMMA SameRoutes ==
    ASSUME NEW N, NEW n, NEW ok, NEW nd, Moved(N, n, nd, ok), NEW t \in Node,
           t.seqno = nd.seqno, t.rt = nd.rt,
           \A p \in t.rqueue : p \in nd.rqueue \/ nd.rt[p.dst].flags # "up"
    PROVE  Moved(N, n, t, ok)
<1>1. ASSUME NEW d \in Nodes, t.rt[d].flags = "up" PROVE Waiting(t, d) = {}
  BY <1>1 DEF Waiting, Moved, NodeOK
<1> QED  BY <1>1 DEF Moved, NodeOK

\* What only raises the node's own number.
LEMMA NewNumber ==
    ASSUME NEW N, NEW n, NEW ok, NEW nd, Moved(N, n, nd, ok), N[n].seqno \in Nat, NEW t \in Node,
           Fresh(t.seqno), nd.seqno <= t.seqno, t.rt = nd.rt, t.rqueue = nd.rqueue
    PROVE  Moved(N, n, t, ok)
<1>1. nd.seqno \in Nat /\ t.seqno \in Nat
  BY DEF Moved, NodeOK, Fresh
<1> QED  BY <1>1 DEF Moved, NodeOK, Waiting

\* What changes one route.
LEMMA OneRoute ==
    ASSUME NEW N \in [Nodes -> Node], NEW n \in Nodes, NEW ok, NEW nd, Moved(N, n, nd, ok), NEW t \in Node,
           NEW d \in Nodes, NEW r \in Route, t.seqno = nd.seqno, t.rt = [nd.rt EXCEPT ![d] = r],
           RouteOK(N, d, r, ok), ok => Kept(nd.rt[d], r),
           t.rqueue \subseteq nd.rqueue, r.flags = "up" => nd.rt[d].flags = "up" \/ Waiting(t, d) = {}
    PROVE  Moved(N, n, t, ok)
<1>0. nd \in Node /\ nd.rt \in [Nodes -> Route]
  BY DEF Moved, NodeOK, Node
<1>1. t.rt[d] = r /\ \A k \in Nodes : k # d => t.rt[k] = nd.rt[k]
  BY <1>0
<1>2. ASSUME NEW k \in Nodes PROVE RouteOK(N, k, t.rt[k], ok)
  BY <1>1 DEF Moved, NodeOK
<1>3. ASSUME NEW k \in Nodes, t.rt[k].flags = "up" PROVE Waiting(t, k) = {}
  <2>1. nd.rt[k].flags = "up" => Waiting(nd, k) = {}
    BY DEF Moved, NodeOK
  <2> QED  BY <1>1, <1>3, <2>1 DEF Waiting
<1>4. ASSUME ok, NEW k \in Nodes PROVE Kept(N[n].rt[k], t.rt[k])
  <2>1. Kept(N[n].rt[k], nd.rt[k])
    BY <1>4 DEF Moved
  <2>2. CASE k = d
    <3>1. Kept(nd.rt[k], r) /\ N[n].rt[k] \in Route /\ nd.rt[k] \in Route
      BY <1>0, <1>4, <2>2, RouteTypes
    <3> QED  BY <1>1, <2>1, <2>2, <3>1, KeptTransitive
  <2>3. CASE k # d
    BY <1>1, <2>1, <2>3
  <2> QED  BY <2>2, <2>3
<1> QED  BY <1>2, <1>3, <1>4 DEF Moved, NodeOK


-----------------------------------------------------------------------------
(* What the handlers send *)

\* A data packet on its way.
Data(m) == m.type = "data" /\ m.from \in Nodes /\ m.to \in Nodes /\ m.pkt \in Packet

\* No route of node t is in repair that was not in repair in node nd.
Calm(nd, t) == \A d \in Nodes : t.rt[d].flags = "repair" => nd.rt[d].flags = "repair"

\* A data packet asks nothing of the routes.
LEMMA DataOK ==
    ASSUME NEW N, NEW ok, NEW m, Data(m)
    PROVE  MessageOK(N, m, ok)
BY DEF Data, MessageOK

\* forward() sends data packets.
LEMMA ForwardIsData ==
    ASSUME NEW n \in Nodes, NEW r \in Route, NEW ps \in SUBSET Packet, NEW m \in forward(n, r, ps)
    PROVE  Data(m)
<1>1. PICK p \in ps : m = [type |-> "data", pkt |-> p, from |-> n, to |-> r.nexthop]
  BY DEF forward
<1>2. r.nexthop \in Nodes
  BY DEF Route
<1> QED  BY <1>1, <1>2 DEF Data

\* A route error lists what has been lost.
LEMMA ErrorOK ==
    ASSUME NEW N, NEW ok, NEW n \in Nodes, NEW dests, \A e \in dests : LostOK(N, e, ok),
           NEW m \in sendError(n, dests)
    PROVE  MessageOK(N, m, ok)
<1>1. PICK o \in InRange(n) : m = [type |-> "rerr", from |-> n, to |-> o, dests |-> dests]
  BY DEF sendError
<1>2. o \in Nodes
  BY DEF InRange
<1> QED  BY <1>1, <1>2 DEF MessageOK

\* A reply carries an offer.
LEMMA ReplyOK ==
    ASSUME NEW N, NEW ok, NEW n \in Nodes, NEW r0 \in Route, NEW src \in Nodes, NEW hops, NEW dst,
           NEW seqno, Offered(N, n, dst, seqno, hops, ok),
           NEW m \in sendReply(n, r0, src, hops, dst, seqno)
    PROVE  MessageOK(N, m, ok)
<1>1. m = [type |-> "rrep", from |-> n, to |-> r0.nexthop,
           src |-> src, dst |-> dst, seqno |-> seqno, hops |-> hops]
  BY DEF sendReply
<1>2. r0.nexthop \in Nodes
  BY DEF Route
<1> QED  BY <1>1, <1>2 DEF MessageOK

\* So does a request, for the way back.
LEMMA RequestOK ==
    ASSUME NEW N, NEW ok, NEW n \in Nodes, NEW src, NEW bid \in Nat, NEW sseqno, NEW hops,
           NEW dst \in Nodes, NEW dseqno \in Nat, dseqno <= N[dst].seqno + 1,
           Offered(N, n, src, sseqno, hops, ok),
           NEW m \in rreq(n, src, bid, sseqno, dst, dseqno, hops)
    PROVE  MessageOK(N, m, ok)
<1>1. PICK o \in InRange(n) :
          m = [type |-> "rreq", from |-> n, to |-> o, src |-> src, bid |-> bid, sseqno |-> sseqno,
               dst |-> dst, dseqno |-> dseqno, hops |-> hops]
  BY DEF rreq
<1>2. o \in Nodes
  BY DEF InRange
<1> QED  BY <1>1, <1>2 DEF MessageOK

-----------------------------------------------------------------------------
(* The operations *)

\* A handler that leaves node t and sends out.
LEMMA HandledPair ==
    ASSUME NEW N, NEW n, NEW ok, NEW t, NEW out, Moved(N, n, t, ok),
           \A m \in out : MessageOK([N EXCEPT ![n] = t], m, ok)
    PROVE  Handled(N, n, [nd |-> t, out |-> out], ok)
<1> DEFINE s == [nd |-> t, out |-> out]
<1>1. s.nd = t /\ s.out = out
  OBVIOUS
<1> HIDE DEF s
<1>2. Handled(N, n, s, ok)
  BY <1>1 DEF Handled
<1> QED  BY <1>2 DEF s

\* sendRequest(): an own request offers the way back with a new number.
LEMMA SendRequestOK ==
    ASSUME NEW N \in [Nodes -> Node], NEW n \in Nodes, NEW ok, NEW nd, Moved(N, n, nd, ok),
           NEW d \in Nodes, NEW outcome
    PROVE  /\ Handled(N, n, sendRequest(n, nd, d, outcome), ok)
           /\ Calm(nd, sendRequest(n, nd, d, outcome).nd)
<1> DEFINE s == sendRequest(n, nd, d, outcome)
<1>0. /\ nd \in Node /\ Fresh(nd.seqno) /\ nd.rqueue \subseteq Packet
      /\ nd.seqno \in Nat /\ nd.bid \in Nat /\ nd.rt[d] \in Route /\ nd.rt[d].seqno \in Nat
      /\ N[n].seqno \in Nat /\ N[d].seqno \in Nat
  BY NodeTypes, RouteTypes DEF Moved, NodeOK
<1>1. CASE nd.rt[d].flags = "up" \/ outcome = "limited"
  <2>1. s = [nd |-> nd, out |-> {}]
    BY <1>1 DEF sendRequest
  <2> HIDE DEF s
  <2>2. Handled(N, n, s, ok)
    BY <2>1, HandledPair, Zenon
  <2> QED  BY <2>1, <2>2 DEF s, Calm
<1>2. CASE ~(nd.rt[d].flags = "up" \/ outcome = "limited") /\ outcome = "given up"
  <2> DEFINE t == [nd EXCEPT !.rqueue = @ \ Waiting(nd, d)]
  <2>1. s = [nd |-> t, out |-> {}]
    BY <1>2 DEF sendRequest
  <2>2. t \in Node /\ t.seqno = nd.seqno /\ t.rt = nd.rt /\ t.rqueue \subseteq nd.rqueue
    BY <1>0 DEF Node
  <2> HIDE DEF s, t
  <2>3. Moved(N, n, t, ok)
    BY <2>2, SameRoutes
  <2>4. Handled(N, n, s, ok)
    BY <2>1, <2>3, HandledPair, Zenon
  <2> QED  BY <2>1, <2>2, <2>4 DEF s, Calm
<1>3. CASE ~(nd.rt[d].flags = "up" \/ outcome = "limited") /\ outcome # "given up"
  <2> DEFINE b == nd.bid + 1
             q == nd.seqno + 2
             t == [nd EXCEPT !.bid = b, !.seqno = q]
             M == [N EXCEPT ![n] = t]
             one == 1
             out == rreq(n, n, nd.bid, q, d, nd.rt[d].seqno, one)
  <2>1. s = [nd |-> t, out |-> out]
    BY <1>3 DEF sendRequest
  <2>2. Fresh(q) /\ nd.seqno <= q /\ one \in Nat /\ b \in Nat /\ q \in Nat
    BY <1>0 DEF Fresh
  <2> HIDE DEF s, b, q, one
  <2>3. t \in Node /\ t.seqno = q /\ t.rt = nd.rt /\ t.rqueue = nd.rqueue
    BY <1>0, <2>2 DEF Node
  <2> HIDE DEF t
  <2>4. Moved(N, n, t, ok)
    BY <1>0, <2>2, <2>3, NewNumber
  <2>5. M[n] = t /\ M \in [Nodes -> Node] /\ Grows(N, M, ok)
    BY <2>4, MovedGrows
  <2> HIDE DEF M
  <2>6. Offered(M, n, n, q, one, ok)
    BY <2>2, <2>3, <2>5 DEF Offered, Fresh
  <2>7. nd.rt[d].seqno <= M[d].seqno + 1
    <3>1. nd.rt[d].seqno <= N[d].seqno + 1
      BY DEF Moved, NodeOK, RouteOK
    <3>2. N[d].seqno <= M[d].seqno /\ M[d].seqno \in Nat
      BY <2>5, RouteTypes DEF Grows
    <3> QED  BY <1>0, <3>1, <3>2
  <2>8. \A m \in out : MessageOK(M, m, ok)
    BY <1>0, <2>6, <2>7, RequestOK
  <2> HIDE DEF out
  <2>9. Handled(N, n, s, ok)
    BY <2>1, <2>4, <2>8, HandledPair DEF M
  <2> QED  BY <2>1, <2>3, <2>9 DEF s, Calm
<1> QED  BY <1>1, <1>2, <1>3

\* Learning a route: what the neighbour offered is kept, or something better was
\* known.
LEMMA LearnOK ==
    ASSUME NEW N \in [Nodes -> Node], NEW n \in Nodes, NEW ok, NEW nd, Moved(N, n, nd, ok),
           NEW nb, NEW d, NEW seqno, NEW hops, Offered(N, nb, d, seqno, hops, ok)
    PROVE  LET s == Learn(n, nd, d, seqno, hops, nb)
           IN  /\ Moved(N, n, s.nd, ok) /\ s.nd.seqno = nd.seqno
               /\ \A m \in s.out : Data(m)
               /\ Ahead(s.nd.rt[d], seqno, hops + 1)
               /\ Calm(nd, s.nd)
<1> DEFINE s == Learn(n, nd, d, seqno, hops, nb)
           r == rt_update(nd.rt[d], seqno, hops, nb)
           t == [nd EXCEPT !.rt[d] = r, !.rqueue = @ \ Waiting(nd, d)]
           out == forward(n, r, Waiting(nd, d))
<1>0. /\ nb \in Nodes /\ d \in Nodes /\ seqno \in Nat /\ hops \in Nat /\ Fresh(seqno)
      /\ seqno <= N[d].seqno /\ N[d].seqno \in Nat
  BY RouteTypes DEF Offered, Fresh
<1>1. /\ nd \in Node /\ nd.rqueue \subseteq Packet /\ nd.rt \in [Nodes -> Route] /\ nd.rt[d] \in Route
      /\ nd.rt[d].seqno \in Nat /\ nd.rt[d].hops \in Nat
  BY <1>0, NodeTypes DEF Moved, NodeOK
<1>2. CASE Better(nd.rt[d], seqno, hops)
  <2>1. s.nd = t /\ s.out = out
    BY <1>2 DEF Learn
  <2>2. /\ r \in Route /\ r.seqno = seqno /\ r.hops = hops /\ r.flags = "up" /\ r.nexthop = nb
    BY <1>0, <1>1 DEF rt_update, Route
  <2> HIDE DEF r
  <2>3. /\ t \in Node /\ t.seqno = nd.seqno /\ t.rt = [nd.rt EXCEPT ![d] = r]
        /\ t.rqueue = nd.rqueue \ Waiting(nd, d)
    BY <1>0, <1>1, <2>2 DEF Node
  <2> HIDE DEF s, t
  <2>4. Waiting(t, d) = {}
    BY <2>3 DEF Waiting
  <2>5. RouteOK(N, d, r, ok)
    BY <1>0, <2>2 DEF RouteOK, Offered
  <2>6. Kept(nd.rt[d], r)
    BY <1>0, <1>1, <1>2, <2>2 DEF Better, Kept
  <2>7. Moved(N, n, t, ok)
    BY <1>0, <2>2, <2>3, <2>4, <2>5, <2>6, OneRoute
  <2>8. t.rt[d] = r /\ \A k \in Nodes : k # d => t.rt[k] = nd.rt[k]
    BY <1>0, <1>1, <2>3
  <2>9. Ahead(t.rt[d], seqno, hops + 1)
    BY <1>0, <2>2, <2>8 DEF Ahead
  <2>10. Calm(nd, t)
    BY <2>2, <2>8 DEF Calm
  <2>11. \A m \in out : Data(m)
    <3>1. Waiting(nd, d) \in SUBSET Packet
      BY <1>1 DEF Waiting
    <3> QED  BY <2>2, <3>1, ForwardIsData
  <2> HIDE DEF out
  <2> QED  BY <2>1, <2>3, <2>7, <2>9, <2>10, <2>11 DEF s
<1>3. CASE ~Better(nd.rt[d], seqno, hops)
  <2>1. s.nd = nd /\ s.out = {}
    BY <1>3 DEF Learn
  <2>2. Ahead(nd.rt[d], seqno, hops + 1)
    BY <1>0, <1>1, <1>3 DEF Better, Ahead
  <2> HIDE DEF s
  <2> QED  BY <2>1, <2>2 DEF s, Calm
<1> QED  BY <1>2, <1>3

\* A route with more precursors is the same route.
LEMMA AddPrecursor ==
    ASSUME NEW N \in [Nodes -> Node], NEW n \in Nodes, NEW ok, NEW nd, Moved(N, n, nd, ok),
           NEW d \in Nodes, NEW nb \in Nodes
    PROVE  LET t == pc_insert(nd, d, nb)
           IN  /\ Moved(N, n, t, ok) /\ t.seqno = nd.seqno /\ t.rqueue = nd.rqueue
               /\ \A k \in Nodes : /\ t.rt[k].seqno = nd.rt[k].seqno /\ t.rt[k].hops = nd.rt[k].hops
                                   /\ t.rt[k].flags = nd.rt[k].flags
                                   /\ t.rt[k].nexthop = nd.rt[k].nexthop
<1> DEFINE r == [nd.rt[d] EXCEPT !.pc = @ \cup {nb}]
           t == pc_insert(nd, d, nb)
<1>1. /\ nd \in Node /\ nd.rt \in [Nodes -> Route] /\ nd.rt[d] \in Route
      /\ nd.rt[d].seqno \in Nat /\ nd.rt[d].hops \in Nat
  BY NodeTypes DEF Moved, NodeOK
<1>2. /\ r \in Route /\ r.seqno = nd.rt[d].seqno /\ r.hops = nd.rt[d].hops
      /\ r.flags = nd.rt[d].flags /\ r.nexthop = nd.rt[d].nexthop
  BY <1>1 DEF Route
<1>3. t = [nd EXCEPT !.rt = [nd.rt EXCEPT ![d] = r]]
  BY <1>1 DEF Node, pc_insert
<1> HIDE DEF r, t
<1>4. t \in Node /\ t.seqno = nd.seqno /\ t.rt = [nd.rt EXCEPT ![d] = r] /\ t.rqueue = nd.rqueue
  BY <1>1, <1>2, <1>3 DEF Node
<1>5. t.rt[d] = r /\ \A k \in Nodes : k # d => t.rt[k] = nd.rt[k]
  BY <1>1, <1>4
<1>6. RouteOK(N, d, r, ok) /\ Kept(nd.rt[d], r)
  <2>1. RouteOK(N, d, nd.rt[d], ok)
    BY DEF Moved, NodeOK
  <2> QED  BY <1>1, <1>2, <2>1 DEF RouteOK, Kept
<1>7. Moved(N, n, t, ok)
  BY <1>2, <1>4, <1>6, OneRoute
<1> QED  BY <1>2, <1>4, <1>5, <1>7 DEF t

\* The greater of two numbers.
LEMMA MaxOfTwo ==
    ASSUME NEW a \in Int, NEW b \in Int
    PROVE  Max({a, b}) = IF a >= b THEN a ELSE b
<1>1. \E x \in {a, b} : \A y \in {a, b} : x >= y
  OBVIOUS
<1>2. Max({a, b}) \in {a, b} /\ \A y \in {a, b} : Max({a, b}) >= y
  BY <1>1 DEF Max
<1> QED  BY <1>2

\* The number in a destination's reply is even, and newer than its own.
LEMMA ReplySeqnoOK ==
    ASSUME NEW own \in Nat, NEW asked \in Nat, Fresh(own)
    PROVE  Fresh(ReplySeqno(own, asked)) /\ own <= ReplySeqno(own, asked)
<1> DEFINE newer == Max({own, asked}) + 1
<1>1. newer \in Nat /\ newer > own /\ newer >= 3
  BY MaxOfTwo DEF Fresh
<1>2. ReplySeqno(own, asked) = newer + (newer % 2)
  BY DEF ReplySeqno
<1> HIDE DEF newer
<1>3. /\ newer + (newer % 2) \in Nat /\ (newer + (newer % 2)) % 2 = 0
      /\ newer + (newer % 2) >= newer
  BY <1>1
<1> QED  BY <1>1, <1>2, <1>3 DEF Fresh

\* Calm is transitive.
LEMMA CalmTransitive ==
    ASSUME NEW a, NEW b, NEW c, Calm(a, b), Calm(b, c)
    PROVE  Calm(a, c)
BY DEF Calm

\* A handler that leaves another node than Learn() did: data packets and one
\* kind of message go out.
LEMMA HandledPlus ==
    ASSUME NEW N, NEW n, NEW ok, NEW t, NEW out, NEW more, Moved(N, n, t, ok),
           \A m \in out : Data(m), \A m \in more : MessageOK([N EXCEPT ![n] = t], m, ok)
    PROVE  Handled(N, n, [nd |-> t, out |-> out \cup more], ok)
<1>1. \A m \in out \cup more : MessageOK([N EXCEPT ![n] = t], m, ok)
  BY DataOK
<1> QED  BY <1>1, HandledPair, Zenon

\* recvRequest(): what is learnt, answered and passed on is what was offered.
LEMMA RecvRequestOK ==
    ASSUME NEW N \in [Nodes -> Node], NEW n \in Nodes, NEW ok, NodeOK(N, N[n], ok),
           NEW m, m.type = "rreq", MessageOK(N, m, ok)
    PROVE  /\ Handled(N, n, recvRequest(n, N[n], m), ok)
           /\ Calm(N[n], recvRequest(n, N[n], m).nd)
<1> DEFINE nd == N[n]
           a == recvRequest(n, nd, m)
           nd1 == [nd EXCEPT !.seen = @ \cup {<<m.src, m.bid>>}]
           s == Learn(n, nd1, m.src, m.sseqno, m.hops, m.from)
           t == s.nd
           r0 == t.rt[m.src]
           r == t.rt[m.dst]
           seqno == ReplySeqno(t.seqno, m.dseqno)
           onward == Max({r.seqno, m.dseqno})
<1>1. Moved(N, n, nd, ok) /\ nd \in Node
  BY StandsStill
<1>2. /\ Offered(N, m.from, m.src, m.sseqno, m.hops, ok) /\ m.bid \in Nat
      /\ m.dst \in Nodes /\ m.dseqno \in Nat /\ m.dseqno <= N[m.dst].seqno + 1
      /\ m.src \in Nodes /\ m.hops \in Nat
  BY DEF MessageOK, Offered
<1> HIDE DEF nd
<1>3. /\ nd1 \in Node /\ nd1.seqno = nd.seqno /\ nd1.rt = nd.rt /\ nd1.rqueue = nd.rqueue
  <2> DEFINE key == <<m.src, m.bid>>
             Keys == Nodes \X Nat
  <2>1. key \in Keys /\ Node = [seqno : Nat, bid : Nat, seen : SUBSET Keys, rqueue : SUBSET Packet,
                                lrtimer : SUBSET Packet, rt : [Nodes -> Route]]
    BY <1>2 DEF Node
  <2> HIDE DEF key, Keys
  <2>2. [nd EXCEPT !.seen = @ \cup {key}] \in Node
    BY <1>1, <2>1
  <2> QED  BY <1>1, <2>2 DEF key, Node
<1>4. CASE m.src = n \/ <<m.src, m.bid>> \in nd.seen
  <2>1. a = [nd |-> nd, out |-> {}]
    BY <1>4 DEF recvRequest
  <2> HIDE DEF a
  <2>2. Handled(N, n, a, ok)
    BY <1>1, <2>1, HandledPair, Zenon
  <2>3. Calm(nd, a.nd)
    BY <2>1 DEF Calm
  <2> QED  BY <2>2, <2>3 DEF a, nd
<1>5. ASSUME m.src # n, <<m.src, m.bid>> \notin nd.seen
      PROVE  Handled(N, n, a, ok) /\ Calm(nd, a.nd)
  <2>1. Moved(N, n, nd1, ok) /\ Calm(nd, nd1)
    BY <1>1, <1>3, SameRoutes DEF Calm
  <2> HIDE DEF nd1
  <2>2. /\ Moved(N, n, t, ok) /\ t.seqno = nd1.seqno /\ Calm(nd1, t)
        /\ \A x \in s.out : Data(x)
        /\ Ahead(t.rt[m.src], m.sseqno, m.hops + 1)
    BY <1>2, <2>1, LearnOK
  <2>3. Calm(nd, t)
    BY <2>1, <2>2, CalmTransitive
  <2>4. t \in Node /\ r0 \in Route /\ r \in Route /\ t.seqno \in Nat /\ Fresh(t.seqno)
    BY <1>2, <2>2, NodeTypes DEF Moved, NodeOK
  <2>5. /\ r0.nexthop \in Nodes /\ r.nexthop \in Nodes /\ r.seqno \in Nat /\ r.hops \in Nat
        /\ r.flags \in {"up", "down", "repair"}
    BY <2>4 DEF Route
  <2>6. RouteOK(N, m.dst, r, ok)
    BY <1>2, <2>2 DEF Moved, NodeOK
  <2>7. CASE m.dst = n
    <3> DEFINE u == [t EXCEPT !.seqno = seqno]
               M == [N EXCEPT ![n] = u]
               one == 1
               more == sendReply(n, r0, m.src, one, n, seqno)
    <3>1. a = [nd |-> u, out |-> s.out \cup more]
      BY <1>5, <2>7 DEF recvRequest, nd1
    <3>2. Fresh(seqno) /\ seqno \in Nat /\ t.seqno <= seqno /\ one \in Nat
      BY <1>2, <2>4, ReplySeqnoOK DEF Fresh
    <3> HIDE DEF a, s, r0, r, seqno, one
    <3>3. u \in Node /\ u.seqno = seqno /\ u.rt = t.rt /\ u.rqueue = t.rqueue
      BY <2>4, <3>2 DEF Node
    <3> HIDE DEF u
    <3>4. Moved(N, n, u, ok)
      <4>1. N[n].seqno \in Nat
        BY RouteTypes
      <4> QED  BY <2>2, <3>2, <3>3, <4>1, NewNumber
    <3>5. M[n] = u
      BY <3>4, MovedGrows
    <3> HIDE DEF M
    <3>6. Offered(M, n, n, seqno, one, ok)
      BY <3>2, <3>3, <3>5 DEF Offered
    <3>7. \A x \in more : MessageOK(M, x, ok)
      BY <1>2, <2>4, <3>6, ReplyOK
    <3> HIDE DEF more
    <3>8. Handled(N, n, a, ok)
      BY <2>2, <3>1, <3>4, <3>7, HandledPlus DEF M
    <3>9. Calm(nd, a.nd)
      BY <2>3, <3>1, <3>3 DEF Calm
    <3> QED  BY <3>8, <3>9
  <2>8. CASE m.dst # n /\ r.hops # INFINITY2 /\ r.seqno >= m.dseqno
    <3> DEFINE i0 == r0.nexthop
               i == r.nexthop
               v == pc_insert(t, m.dst, i0)
               u == pc_insert(v, m.src, i)
               M == [N EXCEPT ![n] = u]
               h == r.hops + 1
               q == r.seqno
               more == sendReply(n, r0, m.src, h, m.dst, q)
    <3>1. a = [nd |-> u, out |-> s.out \cup more]
      BY <1>5, <2>8 DEF recvRequest, nd1
    <3>2. h \in Nat /\ Fresh(q) /\ q <= N[m.dst].seqno
      <4>1. h \in Nat
        BY <2>5
      <4> HIDE DEF r
      <4>2. Fresh(r.seqno) /\ r.seqno <= N[m.dst].seqno
        BY <2>6, <2>8 DEF RouteOK
      <4> QED  BY <4>1, <4>2
    <3>3. /\ Moved(N, n, v, ok)
          /\ \A k \in Nodes : /\ v.rt[k].seqno = t.rt[k].seqno /\ v.rt[k].hops = t.rt[k].hops
                              /\ v.rt[k].flags = t.rt[k].flags
      <4>1. i0 \in Nodes /\ m.dst \in Nodes
        BY <1>2, <2>5
      <4>2. Moved(N, n, t, ok)
        BY <2>2
      <4> HIDE DEF t, i0
      <4> QED  BY <4>1, <4>2, AddPrecursor, SMTT(30)
    <3>4. /\ Moved(N, n, u, ok)
          /\ \A k \in Nodes : /\ u.rt[k].seqno = v.rt[k].seqno /\ u.rt[k].hops = v.rt[k].hops
                              /\ u.rt[k].flags = v.rt[k].flags
      <4>1. i \in Nodes
        BY <2>5
      <4> HIDE DEF v, i
      <4> QED  BY <1>2, <3>3, <4>1, AddPrecursor
    <3>5. M[n] = u /\ M[m.dst] = N[m.dst]
      BY <1>2, <2>8, <3>4, MovedGrows
    <3> HIDE DEF a, s, u, v, M
    <3>6. Ahead(M[n].rt[m.dst], q, h)
      <4>1. u.rt[m.dst].seqno = q /\ u.rt[m.dst].hops = r.hops
        BY <1>2, <3>3, <3>4
      <4> HIDE DEF r, q
      <4> QED  BY <2>5, <3>5, <4>1 DEF Ahead
    <3>7. Offered(M, n, m.dst, q, h, ok)
      BY <1>2, <3>2, <3>5, <3>6 DEF Offered
    <3> HIDE DEF h, q, r0, r, t
    <3>8. \A x \in more : MessageOK(M, x, ok)
      BY <1>2, <2>4, <3>7, ReplyOK
    <3> HIDE DEF more
    <3>9. Handled(N, n, a, ok)
      BY <2>2, <3>1, <3>4, <3>8, HandledPlus DEF M
    <3>10. Calm(nd, a.nd)
      BY <2>3, <3>1, <3>3, <3>4 DEF Calm
    <3> QED  BY <3>9, <3>10
  <2>9. CASE m.dst # n /\ ~(r.hops # INFINITY2 /\ r.seqno >= m.dseqno)
    <3> DEFINE M == [N EXCEPT ![n] = t]
               h == m.hops + 1
               more == rreq(n, m.src, m.bid, m.sseqno, m.dst, onward, h)
    <3>1. a = [nd |-> t, out |-> s.out \cup more]
      BY <1>5, <2>9 DEF recvRequest, nd1
    <3>2. onward \in Nat /\ onward <= N[m.dst].seqno + 1 /\ h \in Nat
      <4>1. r.seqno <= N[m.dst].seqno + 1
        BY <2>6 DEF RouteOK
      <4>2. onward = r.seqno \/ onward = m.dseqno
        BY <1>2, <2>5, MaxOfTwo, SMTT(30)
      <4> HIDE DEF onward
      <4> QED  BY <1>2, <2>5, <4>1, <4>2
    <3>3. M[n] = t /\ M[m.dst] = N[m.dst] /\ M[m.src] = N[m.src]
      BY <1>2, <1>5, <2>9, <2>2, MovedGrows
    <3>4. Ahead(M[n].rt[m.src], m.sseqno, h)
      BY <2>2, <3>3
    <3> HIDE DEF a, s, M, h, onward
    <3>5. Offered(M, n, m.src, m.sseqno, h, ok)
      BY <1>2, <3>2, <3>3, <3>4 DEF Offered
    <3>6. \A x \in more : MessageOK(M, x, ok)
      BY <1>2, <3>2, <3>3, <3>5, RequestOK
    <3> HIDE DEF more
    <3>7. Handled(N, n, a, ok)
      BY <2>2, <3>1, <3>6, HandledPlus DEF M
    <3>8. Calm(nd, a.nd)
      BY <2>3, <3>1 DEF Calm
    <3> QED  BY <3>7, <3>8
  <2> QED  BY <2>7, <2>8, <2>9
<1> QED  BY <1>4, <1>5 DEF nd

\* recvReply(): a better route is learnt and offered on.
LEMMA RecvReplyOK ==
    ASSUME NEW N \in [Nodes -> Node], NEW n \in Nodes, NEW ok, NodeOK(N, N[n], ok),
           NEW m, m.type = "rrep", MessageOK(N, m, ok)
    PROVE  /\ Handled(N, n, recvReply(n, N[n], m), ok)
           /\ Calm(N[n], recvReply(n, N[n], m).nd)
           /\ (\A d \in Nodes : N[n].rt[d].flags # "repair") => recvReplyAsserts(n, N[n], m)
<1> DEFINE nd == N[n]
           a == recvReply(n, nd, m)
           s == Learn(n, nd, m.dst, m.seqno, m.hops, m.from)
           t == s.nd
           r0 == t.rt[m.src]
           good == Better(nd.rt[m.dst], m.seqno, m.hops) /\ m.src # n /\ r0.hops # INFINITY2
<1>1. Moved(N, n, nd, ok) /\ nd \in Node
  BY StandsStill
<1>2. /\ Offered(N, m.from, m.dst, m.seqno, m.hops, ok)
      /\ m.src \in Nodes /\ m.dst \in Nodes /\ m.hops \in Nat /\ m.seqno \in Nat
      /\ Fresh(m.seqno) /\ m.seqno <= N[m.dst].seqno /\ N[m.dst].seqno \in Nat
  BY RouteTypes DEF MessageOK, Offered, Fresh
<1> HIDE DEF nd
<1>3. /\ Moved(N, n, t, ok) /\ Calm(nd, t)
      /\ \A x \in s.out : Data(x)
      /\ Ahead(t.rt[m.dst], m.seqno, m.hops + 1)
  BY <1>1, <1>2, LearnOK
<1>4. r0 \in Route /\ r0.nexthop \in Nodes /\ r0.flags \in {"up", "down", "repair"} /\ RouteOK(N, m.src, r0, ok)
  BY <1>2, <1>3, NodeTypes DEF Moved, NodeOK
<1>5. (\A d \in Nodes : nd.rt[d].flags # "repair") => recvReplyAsserts(n, nd, m)
  <2>1. (\A d \in Nodes : nd.rt[d].flags # "repair") => r0.flags # "repair"
    BY <1>2, <1>3 DEF Calm
  <2>2. r0.flags = "down" => r0.hops = INFINITY2
    BY <1>4 DEF RouteOK
  <2>3. recvReplyAsserts(n, nd, m) = (good => r0.flags = "up")
    BY DEF recvReplyAsserts
  <2> QED  BY <1>4, <2>1, <2>2, <2>3
<1>6. CASE good
  <2> DEFINE i0 == r0.nexthop
             u == pc_insert(t, m.dst, i0)
             M == [N EXCEPT ![n] = u]
             h == m.hops + 1
             more == sendReply(n, r0, m.src, h, m.dst, m.seqno)
  <2>1. a = [nd |-> u, out |-> s.out \cup more]
    BY <1>6 DEF recvReply
  <2>2. /\ Moved(N, n, u, ok)
        /\ \A k \in Nodes : /\ u.rt[k].seqno = t.rt[k].seqno /\ u.rt[k].hops = t.rt[k].hops
                            /\ u.rt[k].flags = t.rt[k].flags
    <3>1. i0 \in Nodes /\ m.dst \in Nodes
      BY <1>2, <1>4
    <3>2. Moved(N, n, t, ok)
      BY <1>3
    <3> HIDE DEF t, i0
    <3> QED  BY <3>1, <3>2, AddPrecursor, SMTT(30)
  <2> HIDE DEF a, u
  <2>3. M[n] = u /\ M \in [Nodes -> Node] /\ Grows(N, M, ok)
    BY <2>2, MovedGrows, ZenonT(30)
  <2> HIDE DEF M
  <2>4. m.seqno <= M[m.dst].seqno
    <3>1. N[m.dst].seqno <= M[m.dst].seqno /\ M[m.dst].seqno \in Nat
      BY <1>2, <2>3, RouteTypes DEF Grows
    <3> QED  BY <1>2, <3>1
  <2>5. Ahead(M[n].rt[m.dst], m.seqno, h)
    <3>1. Ahead(t.rt[m.dst], m.seqno, h)
      BY <1>3
    <3> HIDE DEF t, h
    <3> QED  BY <1>2, <2>2, <2>3, <3>1 DEF Ahead
  <2>6. Offered(M, n, m.dst, m.seqno, h, ok)
    BY <1>2, <2>4, <2>5 DEF Offered
  <2> HIDE DEF r0, t, s, h
  <2>7. \A x \in more : MessageOK(M, x, ok)
    BY <1>2, <1>4, <2>6, ReplyOK
  <2> HIDE DEF more
  <2>8. Handled(N, n, a, ok)
    BY <1>3, <2>1, <2>2, <2>7, HandledPlus DEF M
  <2>9. Calm(nd, a.nd)
    BY <1>3, <2>1, <2>2 DEF Calm
  <2> QED  BY <1>5, <2>8, <2>9 DEF a, nd
<1>7. CASE ~good
  <2>1. a = s /\ a = [nd |-> s.nd, out |-> s.out]
    BY <1>7 DEF recvReply, Learn
  <2> DEFINE none == {}
  <2>2. \A x \in none : MessageOK([N EXCEPT ![n] = t], x, ok)
    OBVIOUS
  <2>3. a = [nd |-> t, out |-> s.out \cup none]
    BY <2>1
  <2> HIDE DEF a, s, none
  <2>4. Handled(N, n, a, ok)
    BY <1>3, <2>2, <2>3, HandledPlus
  <2>5. Calm(nd, a.nd)
    BY <1>3, <2>1
  <2> QED  BY <1>5, <2>4, <2>5 DEF a, nd
<1> QED  BY <1>6, <1>7

\* rt_resolve(): a packet leaves, or waits for a route that is not up, or an
\* error tells of a route that is down.
LEMMA ResolveOK ==
    ASSUME NEW N \in [Nodes -> Node], NEW n \in Nodes, NEW ok, NodeOK(N, N[n], ok),
           NEW p \in Packet, NEW outcome
    PROVE  /\ Handled(N, n, rt_resolve(n, N[n], p, outcome), ok)
           /\ Calm(N[n], rt_resolve(n, N[n], p, outcome).nd)
<1> DEFINE nd == N[n]
           d == p.dst
           r == nd.rt[d]
           a == rt_resolve(n, nd, p, outcome)
           b == [nd EXCEPT !.rqueue = @ \cup {p}]
<1>1. Moved(N, n, nd, ok) /\ nd \in Node /\ d \in Nodes
  BY StandsStill DEF Packet
<1>2. r \in Route /\ r.flags \in {"up", "down", "repair"} /\ r.seqno \in Nat /\ RouteOK(N, d, r, ok)
  BY <1>1, NodeTypes DEF NodeOK
<1> HIDE DEF nd, d
<1>3. b \in Node /\ b.seqno = nd.seqno /\ b.rt = nd.rt /\ b.rqueue = nd.rqueue \cup {p}
  BY <1>1 DEF Node
<1>4. ASSUME r.flags # "up" PROVE Moved(N, n, b, ok) /\ Calm(nd, b)
  <2> HIDE DEF b
  <2>1. Moved(N, n, b, ok)
    BY <1>1, <1>3, <1>4, SameRoutes DEF d
  <2> QED  BY <1>3, <2>1 DEF Calm
<1>5. CASE r.flags = "up"
  <2> DEFINE out == forward(n, r, {p})
  <2>1. a = [nd |-> nd, out |-> out]
    BY <1>5 DEF rt_resolve, d
  <2>2. \A m \in out : Data(m)
    <3>1. {p} \in SUBSET Packet
      OBVIOUS
    <3> HIDE DEF r
    <3> QED  BY <1>2, <3>1, ForwardIsData
  <2> HIDE DEF a, out
  <2>3. \A m \in out : MessageOK([N EXCEPT ![n] = nd], m, ok)
    BY <2>2, DataOK
  <2>4. Handled(N, n, a, ok)
    BY <1>1, <2>1, <2>3, HandledPair
  <2> QED  BY <2>1, <2>4 DEF a, nd, Calm
<1>6. CASE r.flags # "up" /\ p.src = n
  <2>1. a = sendRequest(n, b, d, outcome)
    BY <1>6 DEF rt_resolve, d
  <2> HIDE DEF a, b
  <2>2. Handled(N, n, a, ok) /\ Calm(b, a.nd)
    BY <1>1, <1>4, <1>6, <2>1, SendRequestOK
  <2> QED  BY <1>4, <1>6, <2>2, CalmTransitive DEF a, nd
<1>7. CASE r.flags = "repair" /\ p.src # n
  <2>1. a = [nd |-> b, out |-> {}]
    BY <1>7 DEF rt_resolve, d
  <2> HIDE DEF a, b
  <2>2. Handled(N, n, a, ok)
    BY <1>4, <1>7, <2>1, HandledPair, Zenon
  <2>3. a.nd = b
    BY <2>1
  <2> QED  BY <1>4, <1>7, <2>2, <2>3 DEF a, nd
<1>8. CASE r.flags = "down" /\ p.src # n
  <2> DEFINE e == [dst |-> d, seqno |-> r.seqno]
             M == [N EXCEPT ![n] = nd]
             es == {e}
             out == sendError(n, es)
  <2>1. a = [nd |-> nd, out |-> out]
    BY <1>8 DEF rt_resolve, d
  <2>2. M \in [Nodes -> Node] /\ Grows(N, M, ok)
    BY <1>1, MovedGrows
  <2>3. N[d].seqno <= M[d].seqno /\ N[d].seqno \in Nat /\ M[d].seqno \in Nat
    BY <1>1, <2>2, RouteTypes DEF Grows
  <2>4. e.dst = d /\ e.seqno = r.seqno
    OBVIOUS
  <2> HIDE DEF a, e, r, M
  <2>5. LostOK(M, e, ok)
    BY <1>1, <1>2, <1>8, <2>3, <2>4 DEF LostOK, RouteOK
  <2>6. \A x \in es : LostOK(M, x, ok)
    BY <2>5
  <2> HIDE DEF es
  <2>7. \A m \in out : MessageOK(M, m, ok)
    BY <2>6, ErrorOK
  <2> HIDE DEF out
  <2>8. Handled(N, n, a, ok)
    BY <1>1, <2>1, <2>7, HandledPair DEF M
  <2> QED  BY <2>1, <2>8 DEF a, nd, Calm
<1> QED  BY <1>2, <1>5, <1>6, <1>7, <1>8

\* recv(): a packet that has come its way or comes back is dropped.
LEMMA RecvOK ==
    ASSUME NEW N \in [Nodes -> Node], NEW n \in Nodes, NEW ok, NodeOK(N, N[n], ok),
           NEW p \in [src : Nodes, dst : Nodes, id : Nat, forwards : 0 .. NETWORK_DIAMETER],
           NEW outcome
    PROVE  /\ Handled(N, n, recv(n, N[n], p, outcome), ok)
           /\ Calm(N[n], recv(n, N[n], p, outcome).nd)
<1>1. CASE p.forwards > 0 /\ (p.src = n \/ p.forwards = NETWORK_DIAMETER)
  <2> DEFINE a == recv(n, N[n], p, outcome)
             nd == N[n]
  <2>1. a = [nd |-> nd, out |-> {}]
    BY <1>1 DEF recv
  <2>2. Moved(N, n, nd, ok)
    BY StandsStill
  <2> HIDE DEF a, nd
  <2>3. Handled(N, n, a, ok)
    BY <2>1, <2>2, HandledPair, Zenon
  <2> QED  BY <2>1, <2>3 DEF a, nd, Calm
<1>2. CASE ~(p.forwards > 0 /\ (p.src = n \/ p.forwards = NETWORK_DIAMETER))
  <2>1. NETWORK_DIAMETER \in 1 .. 255
    BY AodvAssumption DEF INFINITY2
  <2>2. p.forwards \in 0 .. NETWORK_DIAMETER - 1
    BY <1>2, <2>1
  <2>3. p \in Packet
    BY <2>2 DEF Packet
  <2>4. recv(n, N[n], p, outcome) = rt_resolve(n, N[n], p, outcome)
    BY <1>2 DEF recv
  <2> QED  BY <2>3, <2>4, ResolveOK
<1> QED  BY <1>1, <1>2

\* What changes several routes and brings none up.
LEMMA ManyRoutes ==
    ASSUME NEW N \in [Nodes -> Node], NEW n \in Nodes, NEW ok, NEW nd, Moved(N, n, nd, ok), NEW t \in Node,
           t.seqno = nd.seqno, t.rqueue \subseteq nd.rqueue,
           \A d \in Nodes : /\ RouteOK(N, d, t.rt[d], ok)
                            /\ ok => Kept(nd.rt[d], t.rt[d])
                            /\ t.rt[d].flags = "up" => nd.rt[d].flags = "up"
    PROVE  Moved(N, n, t, ok)
<1>0. nd \in Node
  BY DEF Moved, NodeOK
<1>1. ASSUME NEW d \in Nodes, t.rt[d].flags = "up" PROVE Waiting(t, d) = {}
  BY <1>1 DEF Waiting, Moved, NodeOK
<1>2. ASSUME ok, NEW d \in Nodes PROVE Kept(N[n].rt[d], t.rt[d])
  <2> DEFINE r0 == N[n].rt[d]
             r1 == nd.rt[d]
             r2 == t.rt[d]
  <2>1. Kept(r0, r1) /\ Kept(r1, r2)
    BY <1>2 DEF Moved
  <2>2. r0 \in Route /\ r1 \in Route /\ r2 \in Route
    BY <1>0, NodeTypes, RouteTypes
  <2> HIDE DEF r0, r1, r2
  <2>3. Kept(r0, r2)
    BY <2>1, <2>2, KeptTransitive
  <2> QED  BY <2>3 DEF r0, r2
<1> QED  BY <1>1, <1>2 DEF Moved, NodeOK

\* A route that goes down with a newer number.
LEMMA GoesDown ==
    ASSUME NEW N \in [Nodes -> Node], NEW ok, NEW d \in Nodes, NEW r \in Route, NEW t \in Route,
           t.flags = "down", t.hops = INFINITY2, t.seqno <= N[d].seqno + 1,
           ok => Stale(t.seqno) /\ r.seqno < t.seqno
    PROVE  RouteOK(N, d, t, ok) /\ (ok => Kept(r, t))
BY DEF RouteOK, Kept

\* A live route's number is the destination's own, and the next one is free for
\* a route that has gone down.
LEMMA LiveRoute ==
    ASSUME NEW N \in [Nodes -> Node], NEW ok, NEW d \in Nodes, NEW r \in Route, RouteOK(N, d, r, ok),
           r.flags = "up"
    PROVE  /\ Fresh(r.seqno) /\ r.seqno \in Nat /\ r.seqno <= N[d].seqno
           /\ r.seqno + 1 \in Nat /\ Stale(r.seqno + 1)
           /\ r.seqno + 1 <= N[d].seqno + 1 /\ r.seqno < r.seqno + 1
<1>1. Fresh(r.seqno) /\ r.seqno \in Nat /\ r.seqno <= N[d].seqno /\ N[d].seqno \in Nat
  BY RouteTypes DEF RouteOK, Route
<1> QED  BY <1>1 DEF Fresh, Stale

\* handle_link_failure(): the lost routes go down, each with a newer number.
LEMMA LinkFailureOK ==
    ASSUME NEW N \in [Nodes -> Node], NEW n \in Nodes, NEW ok, NEW nd, Moved(N, n, nd, ok), NEW id,
           handle_link_failureAsserts(nd, id)
    PROVE  /\ Handled(N, n, handle_link_failure(n, nd, id), ok)
           /\ Calm(nd, handle_link_failure(n, nd, id).nd)
<1> DEFINE a == handle_link_failure(n, nd, id)
           lost == {d \in Nodes : Through(nd.rt[d], id)}
           old(d) == [nd.rt[d] EXCEPT !.pc = @ \ {id}]
           down(d) == rt_down([old(d) EXCEPT !.seqno = @ + 1])
           rt == [d \in Nodes |-> IF d \in lost THEN down(d) ELSE old(d)]
           t == [nd EXCEPT !.rt = rt]
           es == {[dst |-> d, seqno |-> nd.rt[d].seqno + 1] : d \in lost}
           M == [N EXCEPT ![n] = t]
           out == sendError(n, es)
<1>1. a = [nd |-> t, out |-> out]
  BY DEF handle_link_failure
<1>2. nd \in Node
  BY DEF Moved, NodeOK
<1>3. ASSUME NEW d \in Nodes
      PROVE  /\ old(d) \in Route /\ old(d).seqno = nd.rt[d].seqno /\ old(d).hops = nd.rt[d].hops
             /\ old(d).flags = nd.rt[d].flags /\ old(d).nexthop = nd.rt[d].nexthop
             /\ nd.rt[d] \in Route /\ RouteOK(N, d, nd.rt[d], ok)
  <2>1. nd.rt[d] \in Route
    BY <1>2, NodeTypes
  <2>2. RouteOK(N, d, nd.rt[d], ok)
    BY DEF Moved, NodeOK
  <2> QED  BY <2>1, <2>2 DEF Route
<1>4. ASSUME NEW d \in lost
      PROVE  /\ nd.rt[d].flags = "up" /\ Stale(nd.rt[d].seqno + 1) /\ nd.rt[d].seqno + 1 \in Nat
             /\ nd.rt[d].seqno + 1 <= N[d].seqno + 1 /\ nd.rt[d].seqno < nd.rt[d].seqno + 1
  <2>1. nd.rt[d].flags = "up"
    BY DEF handle_link_failureAsserts, LiveAndEven
  <2> QED  BY <1>3, <2>1, LiveRoute
<1>5. ASSUME NEW d \in lost
      PROVE  /\ down(d) \in Route /\ down(d).flags = "down" /\ down(d).hops = INFINITY2
             /\ down(d).seqno = nd.rt[d].seqno + 1
  <2>1. 0 \in Nodes /\ INFINITY2 \in Nat
    BY AodvAssumption DEF INFINITY2
  <2> DEFINE q == nd.rt[d].seqno + 1
  <2>2. q \in Nat /\ down(d) = rt_down([old(d) EXCEPT !.seqno = q]) /\ old(d) \in Route
    BY <1>3, <1>4
  <2> HIDE DEF old, q
  <2>3. /\ rt_down([old(d) EXCEPT !.seqno = q]) \in Route
        /\ rt_down([old(d) EXCEPT !.seqno = q]).flags = "down"
        /\ rt_down([old(d) EXCEPT !.seqno = q]).hops = INFINITY2
        /\ rt_down([old(d) EXCEPT !.seqno = q]).seqno = q
    BY <2>1, <2>2 DEF Route, rt_down
  <2> QED  BY <2>2, <2>3 DEF q
<1> HIDE DEF a, old, down
<1>6. ASSUME NEW d \in Nodes
      PROVE  /\ rt[d] \in Route /\ RouteOK(N, d, rt[d], ok)
             /\ ok => Kept(nd.rt[d], rt[d])
             /\ rt[d].flags \in {"down", nd.rt[d].flags}
  <2>1. CASE d \in lost
    <3>1. rt[d] = down(d)
      BY <2>1
    <3> HIDE DEF rt
    <3>2. down(d).seqno <= N[d].seqno + 1 /\ (ok => Stale(down(d).seqno) /\ nd.rt[d].seqno < down(d).seqno)
      BY <1>4, <1>5, <2>1
    <3>3. down(d) \in Route /\ nd.rt[d] \in Route /\ down(d).flags = "down" /\ down(d).hops = INFINITY2
      BY <1>3, <1>5, <2>1
    <3> DEFINE r == nd.rt[d]
               u == down(d)
    <3> HIDE DEF r, u, lost
    <3>4. RouteOK(N, d, u, ok) /\ (ok => Kept(r, u))
      BY <3>2, <3>3, GoesDown DEF r, u
    <3> QED  BY <3>1, <3>3, <3>4 DEF r, u
  <2>2. CASE d \notin lost
    <3>1. rt[d] = old(d)
      BY <2>2
    <3> HIDE DEF rt
    <3>2. nd.rt[d].seqno \in Nat /\ nd.rt[d].hops \in Nat
      BY <1>2, NodeTypes
    <3> QED  BY <1>3, <3>1, <3>2 DEF RouteOK, Kept
  <2> QED  BY <2>1, <2>2
<1>7. t \in Node /\ t.seqno = nd.seqno /\ t.rqueue = nd.rqueue /\ t.rt = rt
  <2>1. rt \in [Nodes -> Route]
    BY <1>6
  <2> HIDE DEF rt
  <2> QED  BY <1>2, <2>1 DEF Node
<1> HIDE DEF t, rt
<1>8. Moved(N, n, t, ok)
  BY <1>6, <1>7, ManyRoutes
<1>9. M \in [Nodes -> Node] /\ Grows(N, M, ok)
  BY <1>8, MovedGrows
<1> HIDE DEF M
<1>10. ASSUME NEW e \in es PROVE LostOK(M, e, ok)
  <2>1. PICK d \in lost : e = [dst |-> d, seqno |-> nd.rt[d].seqno + 1]
    OBVIOUS
  <2>2. e.dst = d /\ e.seqno = nd.rt[d].seqno + 1
    BY <2>1
  <2>3. /\ Stale(e.seqno) /\ e.seqno \in Nat /\ e.seqno <= N[d].seqno + 1 /\ d \in Nodes
    BY <1>4, <2>2
  <2>4. N[d].seqno <= M[d].seqno /\ N[d].seqno \in Nat /\ M[d].seqno \in Nat
    BY <1>9, <2>3, RouteTypes DEF Grows
  <2> QED  BY <2>2, <2>3, <2>4 DEF LostOK
<1> HIDE DEF es
<1>11. \A m \in out : MessageOK(M, m, ok)
  BY <1>10, ErrorOK
<1> HIDE DEF out
<1>12. Handled(N, n, a, ok)
  BY <1>1, <1>8, <1>11, HandledPair DEF M
<1>13. Calm(nd, a.nd)
  BY <1>1, <1>6, <1>7 DEF Calm
<1> QED  BY <1>12, <1>13 DEF a

\* Where no route is in repair, one that is not down is up, with an even number.
LEMMA NotDownIsLive ==
    ASSUME NEW N \in [Nodes -> Node], NEW ok, NEW nd, NodeOK(N, nd, ok), NEW d \in Nodes,
           nd.rt[d].flags # "repair", nd.rt[d].hops # INFINITY2 \/ nd.rt[d].flags = "up"
    PROVE  LiveAndEven(nd.rt[d])
<1> DEFINE r == nd.rt[d]
<1>1. r \in Route /\ r.flags \in {"up", "down", "repair"} /\ RouteOK(N, d, r, ok)
  BY NodeTypes DEF NodeOK
<1> HIDE DEF r
<1>2. r.flags = "up"
  BY <1>1 DEF RouteOK, r
<1>3. Fresh(r.seqno)
  BY <1>1, <1>2, LiveRoute
<1> QED  BY <1>2, <1>3 DEF LiveAndEven, Fresh, r

\* recvError(): a route that an error takes down gets the number the error
\* brings, which is newer.
LEMMA RecvErrorOK ==
    ASSUME NEW N \in [Nodes -> Node], NEW n \in Nodes, NEW ok, NodeOK(N, N[n], ok),
           NEW m, m.type = "rerr", MessageOK(N, m, ok), recvErrorAsserts(N[n], m)
    PROVE  /\ Handled(N, n, recvError(n, N[n], m), ok)
           /\ Calm(N[n], recvError(n, N[n], m).nd)
<1> DEFINE nd == N[n]
           a == recvError(n, nd, m)
           lost == Unreachable(nd, m)
           fate(d) == {e \in lost : e.dst = d}
           pick(d) == CHOOSE e \in fate(d) : TRUE
           down(d) == rt_down([nd.rt[d] EXCEPT !.seqno = pick(d).seqno, !.pc = {}])
           rt == [d \in Nodes |-> IF fate(d) = {} THEN nd.rt[d] ELSE down(d)]
           t == [nd EXCEPT !.rt = rt]
           es == {e \in lost : nd.rt[e.dst].pc # {}}
           M == [N EXCEPT ![n] = t]
           out == sendError(n, es)
<1>1. a = [nd |-> t, out |-> out]
  BY DEF recvError
<1>2. Moved(N, n, nd, ok) /\ nd \in Node
  BY StandsStill
<1>3. \A e \in lost : LiveAndEven(nd.rt[e.dst])
  BY DEF recvErrorAsserts
<1> HIDE DEF nd
<1>4. ASSUME NEW e \in lost
      PROVE  LostOK(N, e, ok) /\ e.dst \in Nodes /\ e.seqno \in Nat /\ nd.rt[e.dst].seqno <= e.seqno
  BY DEF Unreachable, MessageOK, LostOK
<1>5. ASSUME NEW d \in Nodes
      PROVE  nd.rt[d] \in Route /\ nd.rt[d].seqno \in Nat /\ nd.rt[d].hops \in Nat /\ RouteOK(N, d, nd.rt[d], ok)
  BY <1>2, NodeTypes DEF Moved, NodeOK
<1> HIDE DEF lost
<1>6. ASSUME NEW d \in Nodes, fate(d) # {}
      PROVE  /\ down(d) \in Route /\ down(d).flags = "down" /\ down(d).hops = INFINITY2
             /\ down(d).seqno <= N[d].seqno + 1
             /\ ok => Stale(down(d).seqno) /\ nd.rt[d].seqno < down(d).seqno
  <2> DEFINE q == pick(d).seqno
             r == nd.rt[d]
  <2>1. pick(d) \in lost /\ pick(d).dst = d
    BY <1>6
  <2> HIDE DEF pick
  <2>2. q \in Nat /\ r.seqno <= q /\ q <= N[d].seqno + 1 /\ (ok => Stale(q))
    BY <1>4, <2>1 DEF LostOK
  <2>3. r \in Route /\ RouteOK(N, d, r, ok) /\ r.flags = "up"
    BY <1>3, <1>5, <2>1 DEF LiveAndEven
  <2>4. 0 \in Nodes /\ INFINITY2 \in Nat
    BY AodvAssumption DEF INFINITY2
  <2> HIDE DEF q, r
  <2>5. Fresh(r.seqno)
    BY <2>3, LiveRoute
  <2>6. ok => r.seqno < q
    BY <2>2, <2>5 DEF Fresh, Stale
  <2>7. down(d) = rt_down([r EXCEPT !.seqno = q, !.pc = {}])
    BY DEF r, q
  <2> HIDE DEF down
  <2>8. down(d) \in Route /\ down(d).flags = "down" /\ down(d).hops = INFINITY2 /\ down(d).seqno = q
    BY <2>2, <2>3, <2>4, <2>7 DEF Route, rt_down
  <2> QED  BY <2>2, <2>6, <2>8 DEF r
<1> HIDE DEF a, down, fate
<1>7. ASSUME NEW d \in Nodes
      PROVE  /\ rt[d] \in Route /\ RouteOK(N, d, rt[d], ok)
             /\ ok => Kept(nd.rt[d], rt[d])
             /\ rt[d].flags \in {"down", nd.rt[d].flags}
  <2>1. CASE fate(d) # {}
    <3> DEFINE r == nd.rt[d]
               u == down(d)
    <3>1. rt[d] = u
      BY <2>1
    <3> HIDE DEF rt
    <3>2. /\ u \in Route /\ u.flags = "down" /\ u.hops = INFINITY2 /\ u.seqno <= N[d].seqno + 1
          /\ ok => Stale(u.seqno) /\ r.seqno < u.seqno
      BY <1>6, <2>1
    <3>3. r \in Route
      BY <1>5
    <3> HIDE DEF r, u
    <3>4. RouteOK(N, d, u, ok) /\ (ok => Kept(r, u))
      BY <3>2, <3>3, GoesDown
    <3> QED  BY <3>1, <3>2, <3>4 DEF r
  <2>2. CASE fate(d) = {}
    <3>1. rt[d] = nd.rt[d]
      BY <2>2
    <3> HIDE DEF rt
    <3> QED  BY <1>5, <3>1 DEF Kept
  <2> QED  BY <2>1, <2>2
<1>8. t \in Node /\ t.seqno = nd.seqno /\ t.rqueue = nd.rqueue /\ t.rt = rt
  <2>1. rt \in [Nodes -> Route]
    BY <1>7
  <2> HIDE DEF rt
  <2> QED  BY <1>2, <2>1 DEF Node
<1> HIDE DEF t, rt
<1>9. Moved(N, n, t, ok)
  BY <1>2, <1>7, <1>8, ManyRoutes
<1>10. M \in [Nodes -> Node] /\ Grows(N, M, ok)
  BY <1>9, MovedGrows
<1> HIDE DEF M
<1>11. ASSUME NEW e \in es PROVE LostOK(M, e, ok)
  <2>1. LostOK(N, e, ok) /\ e.dst \in Nodes
    BY <1>4
  <2>2. N[e.dst].seqno <= M[e.dst].seqno /\ N[e.dst].seqno \in Nat /\ M[e.dst].seqno \in Nat
    BY <1>10, <2>1, RouteTypes DEF Grows
  <2> QED  BY <2>1, <2>2 DEF LostOK
<1> HIDE DEF es
<1>12. \A x \in out : MessageOK(M, x, ok)
  BY <1>11, ErrorOK
<1> HIDE DEF out
<1>13. Handled(N, n, a, ok)
  BY <1>1, <1>9, <1>12, HandledPair DEF M
<1>14. Calm(nd, a.nd)
  BY <1>1, <1>7, <1>8 DEF Calm
<1> QED  BY <1>13, <1>14 DEF a, nd

-----------------------------------------------------------------------------
(* The steps *)

\* What the invariant says of a node and of a message.
LEMMA InvParts ==
    ASSUME AodvInv
    PROVE  /\ node \in [Nodes -> Node]
           /\ \A n \in Nodes : NodeOK(node, node[n], Whole) /\ node[n] \in Node
           /\ \A m \in net : MessageOK(node, m, Whole) /\ m.from \in Nodes /\ m.to \in Nodes
BY DEF AodvInv, MessageOK

\* One node handles something, and no repair begins or ends.
LEMMA CalmStep ==
    ASSUME AodvInv, NEW n \in Nodes, NEW s, Handled(node, n, s, Whole), Calm(node[n], s.nd),
           node' = [node EXCEPT ![n] = s.nd], net' \subseteq net \cup s.out,
           left' \in [data : Nat, changes : Nat, expiries : Nat],
           aborted' = aborted, repair' = repair
    PROVE  AodvInv'
<1>1. Whole' = Whole
  BY DEF Whole
<1>2. repair' = "none" => ~aborted' /\ Untouched'
  <2>1. SUFFICES ASSUME repair = "none" PROVE ~aborted' /\ Untouched'
    OBVIOUS
  <2>2. ~aborted /\ Untouched
    BY <2>1 DEF AodvInv
  <2> DEFINE nd == s.nd
  <2>3. nd \in Node /\ \A d \in Nodes : nd.rt[d].flags # "repair"
    BY <2>2 DEF Handled, Moved, NodeOK, Calm, Untouched
  <2>4. node' = [node EXCEPT ![n] = nd]
    OBVIOUS
  <2> HIDE DEF nd
  <2>5. Untouched'
    BY <2>2, <2>3, <2>4, StaysUntouched
  <2> QED  BY <2>2, <2>5
<1> QED  BY <1>1, <1>2, HandledStep

\* An assertion may fail once a repair has been tried.
LEMMA AbortStep ==
    ASSUME AodvInv, Aborts, repair # "none"
    PROVE  AodvInv'
<1>1. node' = node /\ net' = net /\ left' = left /\ repair' = repair
  BY DEF Aborts
<1> QED  BY <1>1 DEF AodvInv, Whole, Untouched

\* Traffic at a source keeps the invariant.
LEMMA SendStep ==
    ASSUME AodvInv, NEW f \in Flows, NEW o \in Outcomes, Send(f, o)
    PROVE  AodvInv'
<1> DEFINE p == [src |-> f[1], dst |-> f[2], id |-> left.data, forwards |-> 0]
           n == f[1]
           s == recv(n, node[n], p, o)
<1>1. n \in Nodes /\ f[2] \in Nodes /\ NETWORK_DIAMETER \in Nat
  BY AodvAssumption DEF INFINITY2
<1>2. left \in [data : Nat, changes : Nat, expiries : Nat] /\ left.data > 0
      /\ left' = [left EXCEPT !.data = @ - 1]
  BY DEF AodvInv, Send
<1>3. left' \in [data : Nat, changes : Nat, expiries : Nat] /\ left.data \in Nat
  BY <1>2
<1>4. p \in [src : Nodes, dst : Nodes, id : Nat, forwards : 0 .. NETWORK_DIAMETER]
  BY <1>1, <1>3
<1>5. /\ node' = [node EXCEPT ![n] = s.nd] /\ net' = net \cup s.out
      /\ aborted' = aborted /\ repair' = repair
  BY DEF Send, Leaves
<1> HIDE DEF p, n
<1>6. Handled(node, n, s, Whole) /\ Calm(node[n], s.nd)
  BY <1>1, <1>4, InvParts, RecvOK
<1> HIDE DEF s
<1> QED  BY <1>1, <1>3, <1>5, <1>6, CalmStep

\* So does the arrival of a data packet,
LEMMA DeliverDataStep ==
    ASSUME AodvInv, NEW m \in net, DeliverData(m)
    PROVE  AodvInv'
<1> DEFINE n == m.to
           p == [m.pkt EXCEPT !.forwards = @ + 1]
           s == IF p.dst = n THEN [nd |-> node[n], out |-> {}] ELSE recv(n, node[n], p, "limited")
<1>1. n \in Nodes /\ m.pkt \in Packet /\ NodeOK(node, node[n], Whole) /\ node \in [Nodes -> Node]
  BY InvParts DEF DeliverData, MessageOK
<1>2. p \in [src : Nodes, dst : Nodes, id : Nat, forwards : 0 .. NETWORK_DIAMETER]
  <2>1. NETWORK_DIAMETER \in Nat
    BY AodvAssumption DEF INFINITY2
  <2> QED  BY <1>1, <2>1 DEF Packet
<1>3. left' \in [data : Nat, changes : Nat, expiries : Nat]
  BY DEF AodvInv, DeliverData
<1>4. /\ node' = [node EXCEPT ![n] = s.nd] /\ net' = (net \ {m}) \cup s.out
      /\ aborted' = aborted /\ repair' = repair
  BY DEF DeliverData, Leaves
<1> HIDE DEF n
<1>5. Handled(node, n, s, Whole) /\ Calm(node[n], s.nd)
  <2> DEFINE nd == node[n]
             ok == Whole
  <2>1. CASE p.dst = n
    <3>1. s = [nd |-> nd, out |-> {}]
      BY <2>1
    <3>2. Moved(node, n, nd, ok)
      BY <1>1, StandsStill
    <3> HIDE DEF s, nd, ok
    <3>3. Handled(node, n, s, ok)
      BY <3>1, <3>2, HandledPair, Zenon
    <3> QED  BY <3>1, <3>3 DEF nd, ok, Calm
  <2>2. CASE p.dst # n
    <3> DEFINE o == "limited"
    <3>1. s = recv(n, node[n], p, o)
      BY <2>2
    <3> HIDE DEF s, p, ok, o
    <3>2. Handled(node, n, s, ok) /\ Calm(node[n], s.nd)
      BY <1>1, <1>2, <3>1, RecvOK DEF ok
    <3> QED  BY <3>2 DEF ok
  <2> QED  BY <2>1, <2>2
<1> HIDE DEF s
<1>6. net' \subseteq net \cup s.out
  BY <1>4
<1> QED  BY <1>1, <1>3, <1>4, <1>5, <1>6, CalmStep

\* of a request,
LEMMA DeliverRequestStep ==
    ASSUME AodvInv, NEW m \in net, DeliverRequest(m)
    PROVE  AodvInv'
<1> DEFINE n == m.to
           s == recvRequest(n, node[n], m)
<1>1. n \in Nodes /\ NodeOK(node, node[n], Whole) /\ node \in [Nodes -> Node]
      /\ MessageOK(node, m, Whole) /\ m.type = "rreq"
  BY InvParts DEF DeliverRequest
<1>2. left' \in [data : Nat, changes : Nat, expiries : Nat]
  BY DEF AodvInv, DeliverRequest
<1>3. /\ node' = [node EXCEPT ![n] = s.nd] /\ net' \subseteq net \cup s.out
      /\ aborted' = aborted /\ repair' = repair
  BY DEF DeliverRequest, Leaves
<1>4. Handled(node, n, s, Whole) /\ Calm(node[n], s.nd)
  BY <1>1, RecvRequestOK
<1> HIDE DEF n, s
<1> QED  BY <1>1, <1>2, <1>3, <1>4, CalmStep

\* of a reply,
LEMMA DeliverReplyStep ==
    ASSUME AodvInv, NEW m \in net, DeliverReply(m)
    PROVE  AodvInv'
<1> DEFINE n == m.to
           s == recvReply(n, node[n], m)
<1>1. n \in Nodes /\ NodeOK(node, node[n], Whole) /\ node \in [Nodes -> Node]
      /\ MessageOK(node, m, Whole) /\ m.type = "rrep"
  BY InvParts DEF DeliverReply
<1>2. /\ Handled(node, n, s, Whole) /\ Calm(node[n], s.nd)
      /\ (\A d \in Nodes : node[n].rt[d].flags # "repair") => recvReplyAsserts(n, node[n], m)
  BY <1>1, RecvReplyOK
<1>3. CASE recvReplyAsserts(n, node[n], m)
  <2>1. left' \in [data : Nat, changes : Nat, expiries : Nat]
    BY <1>3 DEF AodvInv, DeliverReply
  <2>2. /\ node' = [node EXCEPT ![n] = s.nd] /\ net' \subseteq net \cup s.out
        /\ aborted' = aborted /\ repair' = repair
    BY <1>3 DEF DeliverReply, Leaves
  <2> HIDE DEF n, s
  <2> QED  BY <1>1, <1>2, <2>1, <2>2, CalmStep
<1>4. CASE ~recvReplyAsserts(n, node[n], m)
  <2>1. Aborts
    BY <1>4 DEF DeliverReply
  <2>2. repair # "none"
    BY <1>1, <1>2, <1>4 DEF AodvInv, Untouched
  <2> QED  BY <2>1, <2>2, AbortStep
<1> QED  BY <1>3, <1>4

\* of an error,
LEMMA DeliverErrorStep ==
    ASSUME AodvInv, NEW m \in net, DeliverError(m)
    PROVE  AodvInv'
<1> DEFINE n == m.to
           s == recvError(n, node[n], m)
<1>1. n \in Nodes /\ NodeOK(node, node[n], Whole) /\ node \in [Nodes -> Node]
      /\ MessageOK(node, m, Whole) /\ m.type = "rerr"
  BY InvParts DEF DeliverError
<1>2. CASE recvErrorAsserts(node[n], m)
  <2>1. left' \in [data : Nat, changes : Nat, expiries : Nat]
    BY <1>2 DEF AodvInv, DeliverError
  <2>2. /\ node' = [node EXCEPT ![n] = s.nd] /\ net' \subseteq net \cup s.out
        /\ aborted' = aborted /\ repair' = repair
    BY <1>2 DEF DeliverError, Leaves
  <2>3. Handled(node, n, s, Whole) /\ Calm(node[n], s.nd)
    BY <1>1, <1>2, RecvErrorOK
  <2> HIDE DEF n, s
  <2> QED  BY <1>1, <2>1, <2>2, <2>3, CalmStep
<1>3. CASE ~recvErrorAsserts(node[n], m)
  <2>1. Aborts
    BY <1>3 DEF DeliverError
  <2>2. ASSUME repair = "none" PROVE recvErrorAsserts(node[n], m)
    <3>1. ASSUME NEW e \in Unreachable(node[n], m) PROVE LiveAndEven(node[n].rt[e.dst])
      <4> DEFINE nd == node[n]
                 d == e.dst
      <4>1. d \in Nodes /\ nd.rt[d].hops # INFINITY2
        BY <1>1 DEF Unreachable, Through, MessageOK, LostOK
      <4>2. nd.rt[d].flags # "repair"
        BY <1>1, <2>2, <4>1 DEF AodvInv, Untouched
      <4>3. NodeOK(node, nd, Whole)
        BY <1>1
      <4> HIDE DEF nd, d
      <4>4. LiveAndEven(nd.rt[d])
        BY <1>1, <4>1, <4>2, <4>3, NotDownIsLive
      <4> QED  BY <4>4 DEF nd, d
    <3> QED  BY <3>1 DEF recvErrorAsserts
  <2> QED  BY <1>3, <2>1, <2>2, AbortStep
<1> QED  BY <1>2, <1>3

\* the loss of a message,
LEMMA LoseStep ==
    ASSUME AodvInv, NEW m \in net, Lose(m)
    PROVE  AodvInv'
BY DEF AodvInv, Lose, Whole, Untouched

\* and a change of range.
LEMMA MoveStep ==
    ASSUME AodvInv, NEW l \in Breaks, Move(l)
    PROVE  AodvInv'
<1>1. left' \in [data : Nat, changes : Nat, expiries : Nat]
  BY DEF AodvInv, Move
<1>2. node' = node /\ net' = net /\ aborted' = aborted /\ repair' = repair
  BY DEF Move
<1> QED  BY <1>1, <1>2 DEF AodvInv, Whole, Untouched

\* A local repair, or the loss of a neighbour.
LEMMA LinkLayerFailedStep ==
    ASSUME AodvInv, NEW m \in net, NEW o \in Outcomes, rt_ll_failed(m, o)
    PROVE  AodvInv'
<1> DEFINE n == m.from
           nd == node[n]
           p == m.pkt
           d == p.dst
           ok == Whole
<1>1. n \in Nodes /\ NodeOK(node, nd, ok) /\ node \in [Nodes -> Node] /\ p \in Packet /\ d \in Nodes
  BY InvParts DEF rt_ll_failed, MessageOK, Packet
<1>2. Moved(node, n, nd, ok) /\ nd \in Node
  BY <1>1, StandsStill
<1>3. CASE p.forwards > nd.rt[d].hops
  <2> DEFINE r == [nd.rt[d] EXCEPT !.flags = "repair"]
             t == [nd EXCEPT !.rt = [nd.rt EXCEPT ![d] = r]]
             u == [nd EXCEPT !.rqueue = @ \cup {p}, !.rt[d].flags = "repair",
                             !.lrtimer = @ \cup {p}]
             s == sendRequest(n, u, d, o)
  <2>1. /\ node' = [node EXCEPT ![n] = s.nd] /\ net' \subseteq net \cup s.out
        /\ left' = left /\ repair' = IF repair = "none" THEN "started" ELSE repair
    BY <1>3 DEF rt_ll_failed, Leaves
  <2>2. /\ Whole' = Whole /\ repair' # "none"
        /\ left' \in [data : Nat, changes : Nat, expiries : Nat]
    BY <2>1 DEF Whole, AodvInv
  <2> HIDE DEF n, nd, d, p
  <2>3. /\ nd.rt \in [Nodes -> Route] /\ nd.rt[d] \in Route /\ RouteOK(node, d, nd.rt[d], ok)
        /\ nd.rt[d].hops \in Nat /\ nd.rt[d].seqno \in Nat
    BY <1>1, <1>2, NodeTypes DEF NodeOK
  <2>4. nd.rt[d].flags # "down"
    <3>1. p.forwards \in 0 .. NETWORK_DIAMETER - 1 /\ NETWORK_DIAMETER \in 1 .. INFINITY2
      BY <1>1, AodvAssumption DEF Packet
    <3>2. nd.rt[d].hops # INFINITY2
      BY <1>3, <2>3, <3>1 DEF INFINITY2
    <3> QED  BY <2>3, <3>2 DEF RouteOK
  <2>5. /\ r \in Route /\ r.seqno = nd.rt[d].seqno /\ r.hops = nd.rt[d].hops
        /\ r.flags = "repair" /\ r.nexthop = nd.rt[d].nexthop
    BY <2>3 DEF Route
  <2>6. u = [nd EXCEPT !.rqueue = @ \cup {p}, !.rt = [nd.rt EXCEPT ![d] = r],
                       !.lrtimer = @ \cup {p}]
    BY <1>1, <1>2, <2>3 DEF Node
  <2> HIDE DEF r
  <2>7. RouteOK(node, d, r, ok) /\ Kept(nd.rt[d], r)
    BY <2>3, <2>4, <2>5 DEF RouteOK, Kept
  <2>8. t \in Node /\ t.seqno = nd.seqno /\ t.rt = [nd.rt EXCEPT ![d] = r] /\ t.rqueue = nd.rqueue
    BY <1>2, <2>3, <2>5 DEF Node
  <2> HIDE DEF u
  <2>9. u \in Node /\ u.seqno = nd.seqno /\ u.rt = [nd.rt EXCEPT ![d] = r] /\ u.rqueue = nd.rqueue \cup {p}
    BY <1>1, <1>2, <2>3, <2>5, <2>6 DEF Node
  <2> HIDE DEF t, ok
  <2>10. Moved(node, n, t, ok)
    BY <1>1, <1>2, <2>5, <2>7, <2>8, OneRoute
  <2>11. t.rt[d] = r
    BY <1>1, <2>3, <2>8
  <2>12. Moved(node, n, u, ok)
    BY <2>5, <2>8, <2>9, <2>10, <2>11, SameRoutes DEF d
  <2>13. Handled(node, n, s, ok)
    BY <1>1, <2>12, SendRequestOK
  <2> HIDE DEF s
  <2> QED  BY <1>1, <2>1, <2>2, <2>13, HandledStep DEF ok
<1>4. CASE ~(p.forwards > nd.rt[d].hops) /\ handle_link_failureAsserts(nd, m.to)
  <2> DEFINE t == [nd EXCEPT !.seqno = @ + 2]
             s == handle_link_failure(n, t, m.to)
             id == m.to
  <2>1. /\ node' = [node EXCEPT ![n] = s.nd] /\ net' \subseteq net \cup s.out
        /\ left' = left /\ repair' = repair /\ aborted' = aborted
    BY <1>4 DEF rt_ll_failed, Leaves
  <2>2. left' \in [data : Nat, changes : Nat, expiries : Nat]
    BY <2>1 DEF AodvInv
  <2>3. handle_link_failureAsserts(nd, id)
    BY <1>4
  <2> HIDE DEF n, nd, ok, id
  <2>4. t \in Node /\ t.seqno = nd.seqno + 2 /\ t.rt = nd.rt /\ t.rqueue = nd.rqueue
        /\ Fresh(nd.seqno) /\ nd.seqno \in Nat
    <3> DEFINE q == nd.seqno + 2
    <3>1. t = [nd EXCEPT !.seqno = q]
      OBVIOUS
    <3>2. Fresh(nd.seqno) /\ nd.seqno \in Nat
      BY <1>1 DEF NodeOK, Fresh
    <3>3. q \in Nat
      BY <3>2
    <3> HIDE DEF q
    <3>4. [nd EXCEPT !.seqno = q] \in Node
      BY <1>2, <3>3 DEF Node
    <3>5. t.seqno = q /\ t.rt = nd.rt /\ t.rqueue = nd.rqueue
      BY <1>2, <3>1 DEF Node
    <3> QED  BY <3>1, <3>2, <3>4, <3>5 DEF q
  <2>5. Fresh(t.seqno) /\ nd.seqno <= t.seqno
    BY <2>4 DEF Fresh
  <2> HIDE DEF t
  <2>6. Moved(node, n, t, ok)
    <3>1. node[n].seqno \in Nat
      BY <1>1, RouteTypes
    <3> QED  BY <1>2, <2>4, <2>5, <3>1, NewNumber
  <2>7. handle_link_failureAsserts(t, id)
    BY <2>3, <2>4 DEF handle_link_failureAsserts
  <2>8. Handled(node, n, s, ok) /\ Calm(t, s.nd)
    BY <1>1, <2>6, <2>7, LinkFailureOK DEF id
  <2>9. Calm(nd, s.nd)
    BY <2>4, <2>8 DEF Calm
  <2> HIDE DEF s
  <2> QED  BY <1>1, <2>1, <2>2, <2>8, <2>9, CalmStep DEF nd, ok
<1>5. CASE ~(p.forwards > nd.rt[d].hops) /\ ~handle_link_failureAsserts(nd, m.to)
  <2>1. Aborts
    BY <1>5 DEF rt_ll_failed
  <2>2. ASSUME repair = "none" PROVE handle_link_failureAsserts(nd, m.to)
    <3>1. ASSUME NEW k \in Nodes, Through(nd.rt[k], m.to) PROVE LiveAndEven(nd.rt[k])
      <4>1. nd.rt[k].hops # INFINITY2
        BY <3>1 DEF Through
      <4>2. nd.rt[k].flags # "repair"
        BY <1>1, <2>2 DEF AodvInv, Untouched
      <4> HIDE DEF nd, ok
      <4> QED  BY <1>1, <4>1, <4>2, NotDownIsLive
    <3> QED  BY <3>1 DEF handle_link_failureAsserts
  <2> QED  BY <1>5, <2>1, <2>2, AbortStep
<1> QED  BY <1>3, <1>4, <1>5

\* LocalRepairTimer: what a failed repair takes down is no longer promised.
LEMMA LocalRepairTimerStep ==
    ASSUME AodvInv, NEW n \in Nodes, NEW p \in node[n].lrtimer, LocalRepairTimer(n, p)
    PROVE  AodvInv'
<1> DEFINE nd == node[n]
           d == p.dst
           r == nd.rt[d]
           q == IF r.flags = "up" THEN r ELSE rt_down(r)
           t == [nd EXCEPT !.lrtimer = @ \ {p}, !.rt[d] = q]
           go == Whole'
           s == [nd |-> t, out |-> {}]
<1>1. NodeOK(node, nd, Whole) /\ node \in [Nodes -> Node] /\ nd \in Node
  BY InvParts
<1>2. p \in Packet /\ d \in Nodes
  BY <1>1, NodeTypes DEF Packet
<1>3. /\ node' = [node EXCEPT ![n].lrtimer = @ \ {p}, ![n].rt[d] = q]
      /\ repair' = IF r.flags = "repair" THEN "failed" ELSE repair
      /\ net' = net /\ left' = left /\ aborted' = aborted
  BY DEF LocalRepairTimer
<1>4. node' = [node EXCEPT ![n] = t]
  BY <1>1, <1>3
<1>5. /\ go => Whole /\ r.flags # "repair"
      /\ left' \in [data : Nat, changes : Nat, expiries : Nat]
  BY <1>3 DEF Whole, AodvInv
<1> HIDE DEF nd, d, go
<1>6. r \in Route /\ RouteOK(node, d, r, Whole) /\ r.seqno \in Nat /\ r.hops \in Nat
      /\ r.flags \in {"up", "down", "repair"} /\ nd.rt \in [Nodes -> Route]
  BY <1>1, <1>2, NodeTypes DEF NodeOK
<1>7. NodeOK(node, nd, go)
  BY <1>1, <1>5 DEF NodeOK, RouteOK
<1>8. Moved(node, n, nd, go)
  BY <1>1, <1>7, StandsStill DEF nd
<1>9. 0 \in Nodes /\ INFINITY2 \in Nat
  BY AodvAssumption DEF INFINITY2
<1>10. /\ q \in Route /\ q.seqno = r.seqno
       /\ q.flags = (IF r.flags = "up" THEN "up" ELSE "down")
       /\ q.hops = (IF r.flags = "up" THEN r.hops ELSE INFINITY2)
       /\ q.nexthop = (IF r.flags = "up" THEN r.nexthop ELSE 0)
  BY <1>6, <1>9 DEF Route, rt_down
<1> HIDE DEF q
<1>11. RouteOK(node, d, q, go) /\ (go => Kept(r, q))
  <2>1. CASE r.flags = "up"
    BY <1>5, <1>6, <1>10, <2>1 DEF RouteOK, Kept
  <2>2. CASE r.flags # "up"
    <3>1. q.seqno <= node[d].seqno + 1 /\ q.hops = INFINITY2 /\ q.flags = "down"
      BY <1>6, <1>10, <2>2 DEF RouteOK
    <3>2. go => Stale(q.seqno) /\ r.hops = INFINITY2
      BY <1>5, <1>6, <1>10, <2>2 DEF RouteOK
    <3> QED  BY <1>6, <1>9, <1>10, <3>1, <3>2 DEF RouteOK, Kept
  <2> QED  BY <2>1, <2>2
<1>12. t \in Node /\ t.seqno = nd.seqno /\ t.rt = [nd.rt EXCEPT ![d] = q] /\ t.rqueue = nd.rqueue
  BY <1>1, <1>2, <1>6, <1>10 DEF Node
<1> HIDE DEF t
<1>13. Moved(node, n, t, go)
  BY <1>1, <1>2, <1>8, <1>10, <1>11, <1>12, OneRoute
<1>14. Handled(node, n, s, go) /\ s.nd = t /\ s.out = {}
  <2>1. Handled(node, n, s, go)
    BY <1>13, HandledPair, Zenon
  <2> QED  BY <2>1
<1> HIDE DEF s
<1>15. repair' = "none" => ~aborted' /\ Untouched'
  <2>1. SUFFICES ASSUME repair' = "none" PROVE ~aborted' /\ Untouched'
    OBVIOUS
  <2>2. repair = "none" /\ r.flags # "repair"
    BY <1>3, <2>1
  <2>3. ~aborted /\ Untouched
    BY <2>2 DEF AodvInv
  <2>4. \A k \in Nodes : t.rt[k].flags # "repair"
    <3>1. t.rt[d] = q /\ \A k \in Nodes : k # d => t.rt[k] = nd.rt[k]
      BY <1>2, <1>6, <1>12
    <3>2. \A k \in Nodes : nd.rt[k].flags # "repair"
      BY <2>3 DEF Untouched, nd
    <3> QED  BY <1>10, <2>2, <3>1, <3>2
  <2> QED  BY <1>3, <1>4, <1>12, <2>3, <2>4, StaysUntouched
<1>16. node' = [node EXCEPT ![n] = s.nd] /\ net' \subseteq net \cup s.out
  BY <1>3, <1>4, <1>14
<1> QED  BY <1>5, <1>14, <1>15, <1>16, HandledStep DEF go

\* A set of nodes is finite.
LEMMA SomeNodes ==
    ASSUME NEW S \in SUBSET Nodes
    PROVE  IsFiniteSet(S) /\ Cardinality(S) \in Nat
<1>1. IsFiniteSet(Nodes)
  BY AodvAssumption
<1>2. IsFiniteSet(S)
  BY <1>1, FS_Subset
<1> QED  BY <1>2, FS_CardinalityType

\* rt_purge(): routes expire, and new requests go out for the packets that wait.
LEMMA PurgeStep ==
    ASSUME AodvInv, NEW n \in Nodes,
           NEW expired \in SUBSET {d \in Nodes : node[n].rt[d].flags = "up"},
           NEW outcome, rt_purge(n, expired, outcome)
    PROVE  AodvInv'
<1> DEFINE nd == node[n]
           ok == Whole
           up == {d \in Nodes : nd.rt[d].flags = "up"}
           waiting == {p.dst : p \in nd.rqueue} \ up
           rt == [d \in Nodes |-> IF d \in expired
                                  THEN rt_down([nd.rt[d] EXCEPT !.seqno = @ + 1])
                                  ELSE nd.rt[d]]
           purged == [nd EXCEPT !.rt = rt, !.rqueue = {p \in @ : p.dst \notin up}]
           flushed == UNION {forward(n, nd.rt[d], Waiting(nd, d)) : d \in up \ expired}
           asked == {d \in waiting : outcome[d] = "sent"}
           dropped == {d \in waiting : outcome[d] = "given up"}
           after(i) == [purged EXCEPT !.bid = @ + i, !.seqno = @ + 2 * i,
                                      !.rqueue = {p \in @ : p.dst \notin dropped}]
           c == Cardinality(asked)
           out(turn) == flushed \cup UNION {sendRequest(n, after(turn[d]), d, "sent").out : d \in asked}
<1>1. NodeOK(node, nd, ok) /\ node \in [Nodes -> Node] /\ nd \in Node /\ expired \subseteq up
  BY InvParts
<1>2. asked \subseteq Nodes /\ c \in Nat /\ Cardinality(expired) \in Nat
  <2>1. asked \subseteq Nodes
    BY <1>1, NodeTypes DEF Packet
  <2> HIDE DEF asked
  <2> QED  BY <2>1, SomeNodes
<1>3. CASE ~\A d \in expired : LiveAndEven(nd.rt[d])
  <2>1. Aborts
    BY <1>3 DEF rt_purge
  <2>2. ASSUME repair = "none", NEW d \in expired PROVE LiveAndEven(nd.rt[d])
    <3>1. d \in Nodes /\ nd.rt[d].flags = "up" /\ nd.rt[d].flags # "repair"
      BY <1>1
    <3> HIDE DEF nd, ok
    <3> QED  BY <1>1, <3>1, NotDownIsLive
  <2> QED  BY <1>3, <2>1, <2>2, AbortStep
<1>4. CASE \A d \in expired : LiveAndEven(nd.rt[d])
  <2>1. PICK turn \in Bijection(asked, 0 .. c - 1) :
            /\ node' = [node EXCEPT ![n] = after(c)] /\ net' = net \cup out(turn)
            /\ left' = [left EXCEPT !.expiries = @ - Cardinality(expired)]
            /\ Cardinality(expired) <= left.expiries
            /\ aborted' = aborted /\ repair' = repair
    BY <1>4 DEF rt_purge, Leaves
  <2>2. left' \in [data : Nat, changes : Nat, expiries : Nat]
    <3> DEFINE x == Cardinality(expired)
               y == left.expiries - x
    <3>1. /\ x \in Nat /\ x <= left.expiries /\ left' = [left EXCEPT !.expiries = y]
          /\ left \in [data : Nat, changes : Nat, expiries : Nat]
      BY <1>2, <2>1 DEF AodvInv
    <3>2. left.expiries \in Nat
      BY <3>1
    <3> HIDE DEF x
    <3>3. y \in Nat
      BY <3>1, <3>2
    <3> HIDE DEF y
    <3> QED  BY <3>1, <3>3
  <2>3. \A d \in asked : turn[d] \in 0 .. c - 1
    <3> HIDE DEF asked, c
    <3> QED  BY <2>1 DEF Bijection, Injection
  <2>4. 0 \in Nodes /\ INFINITY2 \in Nat
    BY AodvAssumption DEF INFINITY2
  <2> HIDE DEF nd, ok
  <2>5. ASSUME NEW d \in Nodes
        PROVE  /\ rt[d] \in Route /\ RouteOK(node, d, rt[d], ok)
               /\ ok => Kept(nd.rt[d], rt[d])
               /\ d \notin expired => rt[d] = nd.rt[d]
               /\ d \in expired => rt[d].flags = "down"
    <3> DEFINE r == nd.rt[d]
               q == r.seqno + 1
               u == rt_down([r EXCEPT !.seqno = q])
    <3>1. r \in Route /\ RouteOK(node, d, r, ok) /\ r.seqno \in Nat /\ r.hops \in Nat
      BY <1>1, NodeTypes DEF NodeOK
    <3>2. CASE d \in expired
      <4>1. r.flags = "up"
        BY <1>1, <3>2
      <4>2. rt[d] = u
        BY <3>2
      <4> HIDE DEF rt, r
      <4>3. Stale(q) /\ q \in Nat /\ q <= node[d].seqno + 1 /\ r.seqno < q
        BY <1>1, <3>1, <4>1, LiveRoute
      <4> HIDE DEF q
      <4>4. u \in Route /\ u.flags = "down" /\ u.hops = INFINITY2 /\ u.seqno = q
        BY <2>4, <3>1, <4>3 DEF Route, rt_down
      <4> HIDE DEF u
      <4>5. RouteOK(node, d, u, ok) /\ (ok => Kept(r, u))
        BY <1>1, <3>1, <4>3, <4>4, GoesDown
      <4> QED  BY <3>2, <4>2, <4>4, <4>5 DEF r
    <3>3. CASE d \notin expired
      <4>1. rt[d] = r
        BY <3>3
      <4> HIDE DEF rt
      <4> QED  BY <3>1, <3>3, <4>1 DEF Kept
    <3> QED  BY <3>2, <3>3
  <2> DEFINE kept == {p \in nd.rqueue : p.dst \notin up /\ p.dst \notin dropped}
             t == [nd EXCEPT !.rt = rt, !.rqueue = kept]
  <2>6. Moved(node, n, nd, ok)
    BY <1>1, StandsStill DEF nd
  <2>7. t \in Node /\ t.seqno = nd.seqno /\ t.bid = nd.bid /\ t.rqueue \subseteq nd.rqueue /\ t.rt = rt
    <3>1. rt \in [Nodes -> Route] /\ kept \subseteq nd.rqueue
      BY <2>5
    <3> HIDE DEF rt, kept
    <3> QED  BY <1>1, <3>1 DEF Node
  <2>8. ASSUME NEW i
        PROVE  after(i) = [t EXCEPT !.bid = @ + i, !.seqno = @ + 2 * i]
    <3> QED  BY <1>1 DEF Node
  <2> HIDE DEF t, rt
  <2>9. Moved(node, n, t, ok)
    <3>1. ASSUME NEW d \in Nodes PROVE t.rt[d].flags = "up" => nd.rt[d].flags = "up"
      BY <2>5, <2>7
    <3> QED  BY <1>1, <2>5, <2>6, <2>7, <3>1, ManyRoutes
  <2> HIDE DEF after
  <2>10. /\ nd.seqno \in Nat /\ Fresh(nd.seqno) /\ nd.bid \in Nat /\ node[n].seqno \in Nat
    BY <1>1, NodeTypes, RouteTypes DEF NodeOK
  <2>11. ASSUME NEW i \in Nat
         PROVE  /\ after(i) \in Node /\ after(i).seqno = nd.seqno + 2 * i /\ after(i).bid = nd.bid + i
                /\ after(i).rt = rt /\ after(i).rqueue = t.rqueue
                /\ Fresh(nd.seqno + 2 * i)
    <3> DEFINE b == nd.bid + i
               q == nd.seqno + 2 * i
    <3>1. b \in Nat /\ q \in Nat /\ Fresh(q)
      BY <2>10 DEF Fresh
    <3>2. after(i) = [t EXCEPT !.bid = b, !.seqno = q]
      BY <2>7, <2>8
    <3> HIDE DEF b, q
    <3>3. /\ after(i) \in Node /\ after(i).seqno = q /\ after(i).bid = b
          /\ after(i).rt = rt /\ after(i).rqueue = t.rqueue
      BY <2>7, <3>1, <3>2 DEF Node
    <3> QED  BY <3>1, <3>3 DEF b, q
  <2> DEFINE z == after(c)
             M == [node EXCEPT ![n] = z]
  <2>12. Moved(node, n, z, ok)
    <3>1. /\ z \in Node /\ Fresh(z.seqno) /\ z.rt = t.rt /\ z.rqueue = t.rqueue
          /\ z.seqno = nd.seqno + 2 * c
      <4> HIDE DEF c
      <4> QED  BY <1>2, <2>7, <2>11
    <3> HIDE DEF z, c
    <3>2. t.seqno <= z.seqno
      BY <1>2, <2>7, <2>10, <3>1
    <3> QED  BY <2>9, <2>10, <3>1, <3>2, NewNumber
  <2>13. M \in [Nodes -> Node] /\ M[n] = z /\ Grows(node, M, ok)
    <3> HIDE DEF z
    <3> QED  BY <1>1, <2>12, MovedGrows
  <2>14. \A m \in flushed : Data(m)
    <3>1. ASSUME NEW d \in up \ expired, NEW m \in forward(n, nd.rt[d], Waiting(nd, d)) PROVE Data(m)
      <4>1. nd.rt[d] \in Route /\ Waiting(nd, d) \in SUBSET Packet
        BY <1>1, NodeTypes DEF Waiting
      <4> QED  BY <3>1, <4>1, ForwardIsData
    <3> QED  BY <3>1
  <2>15. ASSUME NEW d \in asked, NEW m \in sendRequest(n, after(turn[d]), d, "sent").out
         PROVE  MessageOK(M, m, ok)
    <3> DEFINE i == turn[d]
               w == after(i)
               b == w.bid
               q == w.seqno + 2
               x == w.rt[d].seqno
               one == 1
    <3>1. d \in Nodes /\ d \notin expired /\ nd.rt[d].flags # "up" /\ i \in 0 .. c - 1
      BY <1>1, <1>2, <2>3
    <3> HIDE DEF i, c, asked
    <3>2. /\ i \in Nat /\ i + 1 <= c /\ w.rt[d] = nd.rt[d] /\ w.bid = nd.bid + i
          /\ w.seqno = nd.seqno + 2 * i /\ Fresh(w.seqno)
      BY <1>2, <2>5, <2>11, <3>1
    <3> HIDE DEF w
    <3>3. m \in rreq(n, n, b, q, d, x, one)
      BY <2>15, <3>1, <3>2 DEF sendRequest, w, i
    <3>4. z.seqno = nd.seqno + 2 * c
      BY <1>2, <2>11
    <3> HIDE DEF z
    <3>5. Fresh(q) /\ q <= z.seqno /\ b \in Nat /\ one \in Nat
      <4>1. Fresh(w.seqno + 2)
        BY <2>10, <3>2 DEF Fresh
      <4>2. w.seqno + 2 <= nd.seqno + 2 * c
        BY <1>2, <2>10, <3>2
      <4> QED  BY <2>10, <3>2, <3>4, <4>1, <4>2
    <3>6. x \in Nat /\ x <= M[d].seqno + 1
      <4>1. nd.rt[d].seqno \in Nat /\ nd.rt[d].seqno <= node[d].seqno + 1
        BY <1>1, <3>1, NodeTypes DEF NodeOK, RouteOK
      <4>2. node[d].seqno <= M[d].seqno /\ node[d].seqno \in Nat /\ M[d].seqno \in Nat
        BY <1>1, <2>13, <3>1, RouteTypes DEF Grows
      <4> HIDE DEF M
      <4> QED  BY <3>2, <4>1, <4>2
    <3> HIDE DEF M, b, q, x, one
    <3>7. Offered(M, n, n, q, one, ok)
      BY <2>13, <3>5 DEF Offered
    <3> QED  BY <3>1, <3>3, <3>5, <3>6, <3>7, RequestOK
  <2>16. Handled(node, n, [nd |-> z, out |-> out(turn)], ok)
    <3>1. \A m \in out(turn) : MessageOK(M, m, ok)
      BY <2>14, <2>15, DataOK
    <3> HIDE DEF out, z
    <3> QED  BY <2>12, <3>1, HandledPair
  <2>17. Calm(nd, z)
    <3>1. z.rt = rt
      BY <1>2, <2>11
    <3> QED  BY <2>5, <3>1 DEF Calm
  <2> DEFINE s == [nd |-> z, out |-> out(turn)]
  <2>18. s.nd = z /\ s.out = out(turn)
    OBVIOUS
  <2> HIDE DEF s, z, out
  <2>19. node' = [node EXCEPT ![n] = s.nd] /\ net' \subseteq net \cup s.out
         /\ Handled(node, n, s, Whole) /\ Calm(node[n], s.nd)
    BY <2>1, <2>16, <2>17, <2>18 DEF s, z, ok, nd
  <2> QED  BY <2>1, <2>2, <2>19, CalmStep
<1> QED  BY <1>3, <1>4

-----------------------------------------------------------------------------
(* Theorems *)

\* The agents start without routes and without messages.
LEMMA InitInv ==
    ASSUME Init
    PROVE  AodvInv
<1> DEFINE nd == [seqno |-> 2, bid |-> 1, seen |-> {}, rqueue |-> {}, lrtimer |-> {},
                  rt |-> [d \in Nodes |-> rt_entry]]
<1>1. node = [n \in Nodes |-> nd] /\ net = {} /\ ~aborted /\ repair = "none"
      /\ left \in [data : Nat, changes : Nat, expiries : Nat]
  BY AodvAssumption DEF Init
<1>2. /\ rt_entry \in Route /\ rt_entry.flags = "down" /\ rt_entry.hops = INFINITY2
      /\ rt_entry.seqno = 0
  BY AodvAssumption DEF Route, rt_entry, INFINITY2
<1>3. nd \in Node /\ nd.seqno = 2 /\ nd.rqueue = {} /\ \A d \in Nodes : nd.rt[d] = rt_entry
  BY <1>2 DEF Node
<1> HIDE DEF nd
<1>4. node \in [Nodes -> Node] /\ \A n \in Nodes : node[n] = nd
  BY <1>1, <1>3
<1>5. Fresh(nd.seqno)
  BY <1>3 DEF Fresh
<1>6. ASSUME NEW d \in Nodes PROVE RouteOK(node, d, nd.rt[d], Whole)
  <2>1. nd.rt[d] = rt_entry /\ node[d].seqno = 2
    BY <1>3, <1>4
  <2>2. Stale(0)
    BY DEF Stale
  <2> QED  BY <1>2, <2>1, <2>2 DEF RouteOK
<1>7. NodeOK(node, nd, Whole)
  BY <1>2, <1>3, <1>5, <1>6 DEF NodeOK
<1>8. Untouched
  BY <1>2, <1>3, <1>4 DEF Untouched
<1> QED  BY <1>1, <1>4, <1>7, <1>8 DEF AodvInv

\* A step that changes nothing.
LEMMA StutteringStep ==
    ASSUME AodvInv, UNCHANGED vars
    PROVE  AodvInv'
BY DEF AodvInv, vars, Whole, Untouched

\* Theorem: whatever the nodes, the links that break and the order in which
\* messages, failures, expiries and repairs come, the agents' numbers and routes
\* keep AodvInv: a live route carries an even number its destination has given
\* out, a route or an offer is always behind what its next hop holds as long as
\* no repair has failed, and no packet waits for a route that is up.
THEOREM AodvInvariance == Spec => []AodvInv
<1>1. Init => AodvInv
  BY InitInv
<1>2. AodvInv /\ [Next]_vars => AodvInv'
  <2> SUFFICES ASSUME AodvInv, [Next]_vars PROVE AodvInv'
    OBVIOUS
  <2>1. CASE \E f \in Flows, o \in Outcomes : Send(f, o)
    BY <2>1, SendStep
  <2>2. CASE \E m \in net : DeliverData(m)
    BY <2>2, DeliverDataStep
  <2>3. CASE \E m \in net : DeliverRequest(m)
    BY <2>3, DeliverRequestStep
  <2>4. CASE \E m \in net : DeliverReply(m)
    BY <2>4, DeliverReplyStep
  <2>5. CASE \E m \in net : DeliverError(m)
    BY <2>5, DeliverErrorStep
  <2>6. CASE \E m \in net : Lose(m)
    BY <2>6, LoseStep
  <2>7. CASE \E m \in net : \E o \in Outcomes : rt_ll_failed(m, o)
    BY <2>7, LinkLayerFailedStep
  <2>8. CASE \E n \in Nodes : \E p \in node[n].lrtimer : LocalRepairTimer(n, p)
    BY <2>8, LocalRepairTimerStep
  <2>9. CASE \E n \in Nodes : RoutePurge(n)
    BY <2>9, PurgeStep DEF RoutePurge
  <2>10. CASE \E l \in Breaks : Move(l)
    BY <2>10, MoveStep
  <2>11. CASE UNCHANGED vars
    BY <2>11, StutteringStep
  <2> QED  BY <2>1, <2>2, <2>3, <2>4, <2>5, <2>6, <2>7, <2>8, <2>9, <2>10, <2>11 DEF Next
<1> QED  BY <1>1, <1>2, PTL DEF Spec

\* Theorem: until a local repair fails the routes form no loop, in a network of
\* any size: the sequence numbers never fall along the next hops, and where they
\* stay the same the hop counts do.
THEOREM RoutesLoopFree == Spec => []LoopFree
<1>1. AodvInv => LoopFree
  <2> SUFFICES ASSUME AodvInv, Whole, NEW n \in Nodes, NEW d \in Nodes,
                      node[n].rt[d].hops # INFINITY2, d \notin {n, node[n].rt[d].nexthop}
               PROVE  LET s == node[node[n].rt[d].nexthop].rt[d]
                      IN  \/ s.seqno > node[n].rt[d].seqno
                          \/ s.seqno = node[n].rt[d].seqno /\ s.hops < node[n].rt[d].hops
    BY DEF LoopFree, Whole
  <2> DEFINE r == node[n].rt[d]
             s == node[r.nexthop].rt[d]
  <2>1. node \in [Nodes -> Node] /\ NodeOK(node, node[n], Whole)
    BY InvParts
  <2>2. RouteOK(node, d, r, Whole) /\ r \in Route /\ r.nexthop \in Nodes /\ r.seqno \in Nat
    BY <2>1, NodeTypes DEF NodeOK
  <2>3. Ahead(s, r.seqno, r.hops)
    BY <2>2 DEF RouteOK
  <2>4. s.seqno \in Nat
    BY <2>1, <2>2, RouteTypes
  <2> HIDE DEF r, s
  <2>5. s.seqno > r.seqno \/ (s.seqno = r.seqno /\ s.hops < r.hops)
    BY <2>2, <2>3, <2>4 DEF Ahead
  <2> QED  BY <2>5 DEF r, s
<1> QED  BY <1>1, AodvInvariance, PTL

\* Theorem: no node ever believes in a route newer than what the destination
\* has given out.
THEOREM NumbersNotInvented == Spec => []NoFutureSeqno
<1>1. AodvInv => NoFutureSeqno
  <2> SUFFICES ASSUME AodvInv, NEW n \in Nodes, NEW d \in Nodes
               PROVE  /\ node[n].rt[d].seqno <= node[d].seqno + 1
                      /\ node[n].rt[d].flags = "up" => node[n].rt[d].seqno <= node[d].seqno
    BY DEF NoFutureSeqno
  <2>1. RouteOK(node, d, node[n].rt[d], Whole)
    BY InvParts DEF NodeOK
  <2> QED  BY <2>1 DEF RouteOK
<1> QED  BY <1>1, AodvInvariance, PTL

\* Theorem: no packet waits in a send buffer while its route is up.
THEOREM BufferServed == Spec => []NothingWaitsForALiveRoute
<1>1. AodvInv => NothingWaitsForALiveRoute
  BY InvParts DEF NothingWaitsForALiveRoute, NodeOK
<1> QED  BY <1>1, AodvInvariance, PTL

\* Theorem: the agents' assertions hold as long as no local repair has been tried.
THEOREM AssertionsHoldWithoutRepair == Spec => []AbortsOnlyInRepair
<1>1. AodvInv => AbortsOnlyInRepair
  BY DEF AodvInv, AbortsOnlyInRepair
<1> QED  BY <1>1, AodvInvariance, PTL
=============================================================================
