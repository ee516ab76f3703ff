-------------------------------- MODULE Aodv --------------------------------
(***************************************************************************)
(* The AODV routing agents of a wireless simulation (src/ns-2.35/aodv/     *)
(* aodv.cc, aodv_rtable.cc, aodv_rqueue.cc), as they are built: with       *)
(* link-layer detection, so that no hello messages are sent and a broken   *)
(* link is known from the MAC's callback, and with local repair.           *)
(*                                                                         *)
(* A node's state is a record.  A handler maps the node and what it        *)
(* received to the node it leaves and the messages it sends, as a record   *)
(* [nd, out]; the handlers that have assertions have an operator of their  *)
(* own that tells whether one fails.  Time is left out: routes expire,     *)
(* requests are rate-limited or given up, and repairs end, at any moment.  *)
(* A request is remembered for good (BCAST_ID_SAVE outlives its copies).   *)
(* A routing table entry that was never added is the one rt_add() makes.   *)
(* The TTL of a routing message exceeds the number of nodes, and no way is *)
(* as long as INFINITY2: rt_purge()'s assertion of that is left out.       *)
(***************************************************************************)
EXTENDS Integers, FiniteSets, FiniteSetsExt

CONSTANTS
    Nodes,          \* the nodes' addresses, 0 among them
    FirstLinks,     \* the pairs of nodes in range of each other at the start
    Breaks,         \* the links that may go out of range and come back
    Flows,          \* the pairs <<source, destination>> of the data
    NETWORK_DIAMETER,  \* the TTL of data packets
    MaxRequests,    \* bound: route requests
    Budgets         \* bounds: the data packets, the changes of range and the
                    \* expiries of routes that happen together

INFINITY2 == 255

ASSUME AodvAssumption ==
    /\ Nodes \subseteq Nat /\ 0 \in Nodes /\ IsFiniteSet(Nodes)
    /\ FirstLinks \cup Breaks \subseteq {{e[1], e[2]} : e \in Nodes \X Nodes}
    /\ Flows \subseteq Nodes \X Nodes
    /\ NETWORK_DIAMETER \in 1 .. INFINITY2 /\ MaxRequests \in Nat
    /\ Budgets \subseteq [data : Nat, changes : Nat, expiries : Nat]

VARIABLES
    node,           \* the nodes
    net,            \* the messages in interface queues and on the air
    links,          \* the links in range
    left,           \* what is left of the budget
    aborted,        \* an assertion has failed, and the simulation with it
    repair          \* how far any local repair has come

vars == <<node, net, links, left, aborted, repair>>

rt_entry == [seqno |-> 0, hops |-> INFINITY2, flags |-> "down", nexthop |-> 0, pc |-> {}]

Init ==
    /\ node = [n \in Nodes |-> [seqno |-> 2, bid |-> 1, seen |-> {}, rqueue |-> {},
                                lrtimer |-> {}, rt |-> [d \in Nodes |-> rt_entry]]]
    /\ net = {} /\ links = FirstLinks
    /\ left \in Budgets
    /\ aborted = FALSE /\ repair = "none"

-----------------------------------------------------------------------------
(* Sending *)

\* A broadcast reaches the nodes in range, each on its own; a route error lists
\* the destinations that cannot be reached any more.
InRange(n) == {o \in Nodes \ {n} : {n, o} \in links}
rreq(n, src, bid, sseqno, dst, dseqno, hops) ==
    {[type |-> "rreq", from |-> n, to |-> o, src |-> src, bid |-> bid, sseqno |-> sseqno,
      dst |-> dst, dseqno |-> dseqno, hops |-> hops] : o \in InRange(n)}
sendError(n, dests) ==
    IF dests = {} THEN {}
    ELSE {[type |-> "rerr", from |-> n, to |-> o, dests |-> dests] : o \in InRange(n)}

\* forward() of data packets along a route.
forward(n, r, ps) == {[type |-> "data", pkt |-> p, from |-> n, to |-> r.nexthop] : p \in ps}
Waiting(nd, d) == {p \in nd.rqueue : p.dst = d}

sendReply(n, r0, src, hops, dst, seqno) ==
    {[type |-> "rrep", from |-> n, to |-> r0.nexthop,
      src |-> src, dst |-> dst, seqno |-> seqno, hops |-> hops]}

\* What sendRequest() finds when it looks at the clock and the tries so far.
Outcomes == {"limited", "given up", "sent"}
\* Mutant: the new sequence number is sent, not kept.
sendRequestUnsaved(n, nd, d, outcome) ==
    IF outcome = "sent"
    THEN [nd |-> [nd EXCEPT !.bid = @ + 1],
          out |-> rreq(n, n, nd.bid, nd.seqno + 2, d, nd.rt[d].seqno, 1)]
    ELSE [nd |-> nd, out |-> {}]

\* sendRequest(): nothing where the route is up or the request comes too early,
\* the buffered packets dropped where there were too many, else a new request.
sendRequest(n, nd, d, outcome) ==
    CASE nd.rt[d].flags = "up" \/ outcome = "limited" -> [nd |-> nd, out |-> {}]
      [] nd.rt[d].flags # "up" /\ outcome = "given up" ->
            [nd |-> [nd EXCEPT !.rqueue = @ \ Waiting(nd, d)], out |-> {}]
      [] OTHER ->
            [nd |-> [nd EXCEPT !.bid = @ + 1, !.seqno = @ + 2],
             out |-> rreq(n, n, nd.bid, nd.seqno + 2, d, nd.rt[d].seqno, 1)]

-----------------------------------------------------------------------------
(* The routing table *)

rt_update(r, seqnum, metric, nexthop) ==
    [r EXCEPT !.seqno = seqnum, !.hops = metric, !.flags = "up", !.nexthop = nexthop]
rt_down(r) == [r EXCEPT !.hops = INFINITY2, !.flags = "down", !.nexthop = 0]

\* The neighbours a route to d is used by: its precursors.
pc_insert(nd, d, id) == [nd EXCEPT !.rt[d].pc = @ \cup {id}]

\* Mutant: as new is enough.
BetterOrAsNew(r, seqno, hops) == seqno >= r.seqno
\* Whether an offered route is newer, or as new and shorter.
Better(r, seqno, hops) == seqno > r.seqno \/ (seqno = r.seqno /\ hops < r.hops)

\* Mutant: the buffered packets are left where they are.
LearnOnly(n, nd, d, seqno, hops, nb) ==
    [nd |-> IF Better(nd.rt[d], seqno, hops)
            THEN [nd EXCEPT !.rt[d] = rt_update(@, seqno, hops, nb)] ELSE nd,
     out |-> {}]

\* A better route to d through neighbour nb, on which the buffered packets leave.
Learn(n, nd, d, seqno, hops, nb) ==
    LET r == rt_update(nd.rt[d], seqno, hops, nb)
    IN  IF Better(nd.rt[d], seqno, hops)
        THEN [nd |-> [nd EXCEPT !.rt[d] = r, !.rqueue = @ \ Waiting(nd, d)],
              out |-> forward(n, r, Waiting(nd, d))]
        ELSE [nd |-> nd, out |-> {}]

\* Whether a route in the table goes through neighbour nb.
Through(r, nb) == r.hops # INFINITY2 /\ r.nexthop = nb
LiveAndEven(r) == r.flags = "up" /\ r.seqno % 2 = 0

\* handle_link_failure(): every route through id goes down with a newer, odd
\* sequence number.
handle_link_failure(n, nd, id) ==
    LET lost == {d \in Nodes : Through(nd.rt[d], id)}
        old(d) == [nd.rt[d] EXCEPT !.pc = @ \ {id}]
    IN  [nd |-> [nd EXCEPT !.rt = [d \in Nodes |->
                    IF d \in lost THEN rt_down([old(d) EXCEPT !.seqno = @ + 1]) ELSE old(d)]],
         out |-> sendError(n, {[dst |-> d, seqno |-> nd.rt[d].seqno + 1] : d \in lost})]
handle_link_failureAsserts(nd, id) ==
    \A d \in Nodes : Through(nd.rt[d], id) => LiveAndEven(nd.rt[d])

-----------------------------------------------------------------------------
(* Receiving *)

rt_resolve(n, nd, p, outcome) ==
    LET r == nd.rt[p.dst]
        buffered == [nd EXCEPT !.rqueue = @ \cup {p}]
    IN  CASE r.flags = "up" -> [nd |-> nd, out |-> forward(n, r, {p})]
          [] r.flags # "up" /\ p.src = n -> sendRequest(n, buffered, p.dst, outcome)
          [] r.flags = "repair" /\ p.src # n -> [nd |-> buffered, out |-> {}]
          [] OTHER -> [nd |-> nd, out |-> sendError(n, {[dst |-> p.dst, seqno |-> r.seqno]})]

\* recv() of a data packet that the address classifier has not kept.
recv(n, nd, p, outcome) ==
    IF p.forwards > 0 /\ (p.src = n \/ p.forwards = NETWORK_DIAMETER)
    THEN [nd |-> nd, out |-> {}]
    ELSE rt_resolve(n, nd, p, outcome)

\* Mutant: it is not made even.
ReplySeqnoOdd(own, asked) == Max({own, asked}) + 1

\* The next even sequence number after the destination's own and the one asked for.
ReplySeqno(own, asked) ==
    LET newer == Max({own, asked}) + 1
    IN  newer + (newer % 2)

\* recvRequest(): the reverse route is learnt from the first copy; then the
\* destination or a node with a fresh enough route answers, others pass it on.
recvRequest(n, nd, m) ==
    LET s == Learn(n, [nd EXCEPT !.seen = @ \cup {<<m.src, m.bid>>}],
                   m.src, m.sseqno, m.hops, m.from)
        r0 == s.nd.rt[m.src]
        r == s.nd.rt[m.dst]
        seqno == ReplySeqno(s.nd.seqno, m.dseqno)
        onward == Max({r.seqno, m.dseqno})
    IN  IF m.src = n \/ <<m.src, m.bid>> \in nd.seen THEN [nd |-> nd, out |-> {}]
        ELSE CASE m.dst = n ->
                    [nd |-> [s.nd EXCEPT !.seqno = seqno],
                     out |-> s.out \cup sendReply(n, r0, m.src, 1, n, seqno)]
               [] m.dst # n /\ r.hops # INFINITY2 /\ r.seqno >= m.dseqno ->
                    [nd |-> pc_insert(pc_insert(s.nd, m.dst, r0.nexthop), m.src, r.nexthop),
                     out |-> s.out \cup sendReply(n, r0, m.src, r.hops + 1, m.dst, r.seqno)]
               [] OTHER ->
                    [nd |-> s.nd,
                     out |-> s.out \cup rreq(n, m.src, m.bid, m.sseqno, m.dst, onward, m.hops + 1)]

\* recvReply(): a reply that is no better than the known route goes no further.
recvReply(n, nd, m) ==
    LET s == Learn(n, nd, m.dst, m.seqno, m.hops, m.from)
        r0 == s.nd.rt[m.src]
    IN  IF Better(nd.rt[m.dst], m.seqno, m.hops) /\ m.src # n /\ r0.hops # INFINITY2
        THEN [nd |-> pc_insert(s.nd, m.dst, r0.nexthop),
              out |-> s.out \cup sendReply(n, r0, m.src, m.hops + 1, m.dst, m.seqno)]
        ELSE s
recvReplyAsserts(n, nd, m) ==
    LET r0 == Learn(n, nd, m.dst, m.seqno, m.hops, m.from).nd.rt[m.src]
    IN  Better(nd.rt[m.dst], m.seqno, m.hops) /\ m.src # n /\ r0.hops # INFINITY2
            => r0.flags = "up"

\* recvError(): the routes through its sender go down, and the error goes on to
\* where they are used.
Unreachable(nd, m) ==
    {e \in m.dests : Through(nd.rt[e.dst], m.from) /\ nd.rt[e.dst].seqno <= e.seqno}
recvError(n, nd, m) ==
    LET lost == Unreachable(nd, m)
        fate(d) == {e \in lost : e.dst = d}
    IN  [nd |-> [nd EXCEPT !.rt = [d \in Nodes |->
                    IF fate(d) = {} THEN nd.rt[d]
                    ELSE rt_down([nd.rt[d] EXCEPT !.seqno = (CHOOSE e \in fate(d) : TRUE).seqno,
                                                  !.pc = {}])]],
         out |-> sendError(n, {e \in lost : nd.rt[e.dst].pc # {}})]
recvErrorAsserts(nd, m) == \A e \in Unreachable(nd, m) : LiveAndEven(nd.rt[e.dst])

-----------------------------------------------------------------------------
(* Actions *)

Requests == MapThenSumSet(LAMBDA n : node[n].bid - 1, Nodes)
CanAsk(outcome) == outcome = "sent" => Requests < MaxRequests

\* What a handler of node n leaves, rest being the other messages that remain.
Leaves(n, s, rest) ==
    /\ node' = [node EXCEPT ![n] = s.nd]
    /\ net' = rest \cup s.out
Aborts == aborted' = TRUE /\ UNCHANGED <<node, net, links, left, repair>>

\* Traffic at a source.
Send(f, outcome) ==
    LET p == [src |-> f[1], dst |-> f[2], id |-> left.data, forwards |-> 0]
    IN  /\ left.data > 0 /\ CanAsk(outcome)
        /\ left' = [left EXCEPT !.data = @ - 1]
        /\ Leaves(f[1], recv(f[1], node[f[1]], p, outcome), net)
        /\ UNCHANGED <<links, aborted, repair>>

\* The packets of n for neighbour nb that may still be in its interface queue.
Queued(n, nb, ms) == {m \in ms : m.type \in {"data", "rrep"} /\ m.from = n /\ m.to = nb}

\* A message arrives; a data packet is counted as forwarded by the MAC.
DeliverData(m) ==
    LET n == m.to
        p == [m.pkt EXCEPT !.forwards = @ + 1]
    IN  /\ m.type = "data" /\ {m.from, n} \in links
        /\ IF p.dst = n
           THEN Leaves(n, [nd |-> node[n], out |-> {}], net \ {m})
           ELSE Leaves(n, recv(n, node[n], p, "limited"), net \ {m})
        /\ UNCHANGED <<links, left, aborted, repair>>

DeliverRequest(m) ==
    /\ m.type = "rreq" /\ {m.from, m.to} \in links
    /\ Leaves(m.to, recvRequest(m.to, node[m.to], m), net \ {m})
    /\ UNCHANGED <<links, left, aborted, repair>>

DeliverReply(m) ==
    /\ m.type = "rrep" /\ {m.from, m.to} \in links
    /\ IF recvReplyAsserts(m.to, node[m.to], m)
       THEN /\ Leaves(m.to, recvReply(m.to, node[m.to], m), net \ {m})
            /\ UNCHANGED <<links, left, aborted, repair>>
       ELSE Aborts

\* recvError() also takes the packets for its sender out of the interface queue.
DeliverError(m) ==
    /\ m.type = "rerr" /\ {m.from, m.to} \in links
    /\ IF recvErrorAsserts(node[m.to], m)
       THEN /\ \E q \in SUBSET (IF Unreachable(node[m.to], m) = {}
                                THEN {} ELSE Queued(m.to, m.from, net)) :
                  Leaves(m.to, recvError(m.to, node[m.to], m), net \ (q \cup {m}))
            /\ UNCHANGED <<links, left, aborted, repair>>
       ELSE Aborts

\* A routing message does not get across, which nobody is told of.
Lose(m) ==
    /\ m.type # "data" /\ {m.from, m.to} \notin links
    /\ net' = net \ {m}
    /\ UNCHANGED <<node, links, left, aborted, repair>>

\* The MAC gives up a data packet and calls rt_ll_failed(): local repair where
\* the packet has come further than it has to go, else the neighbour is gone.
rt_ll_failed(m, outcome) ==
    LET n == m.from
        nd == node[n]
        d == m.pkt.dst
        mending == [nd EXCEPT !.rqueue = @ \cup {m.pkt}, !.rt[d].flags = "repair",
                              !.lrtimer = @ \cup {m.pkt}]
    IN  /\ m.type = "data" /\ {n, m.to} \notin links /\ CanAsk(outcome)
        /\ IF m.pkt.forwards > nd.rt[d].hops
           THEN /\ Leaves(n, sendRequest(n, mending, d, outcome), net \ {m})
                /\ repair' = IF repair = "none" THEN "started" ELSE repair
                /\ UNCHANGED <<links, left, aborted>>
           ELSE /\ outcome = "limited"
                /\ IF handle_link_failureAsserts(nd, m.to)
                   THEN /\ \E q \in SUBSET Queued(n, m.to, net) :
                              Leaves(n, handle_link_failure(n, [nd EXCEPT !.seqno = @ + 2], m.to),
                                     net \ (q \cup {m}))
                        /\ UNCHANGED <<links, left, aborted, repair>>
                   ELSE Aborts

\* LocalRepairTimer::handle(): a route that is not up by now goes down, its
\* sequence number as it was.
LocalRepairTimer(n, p) ==
    LET r == node[n].rt[p.dst]
    IN  /\ p \in node[n].lrtimer
        /\ node' = [node EXCEPT ![n].lrtimer = @ \ {p},
                                ![n].rt[p.dst] = IF r.flags = "up" THEN r ELSE rt_down(r)]
        /\ repair' = IF r.flags = "repair" THEN "failed" ELSE repair
        /\ UNCHANGED <<net, links, left, aborted>>

\* rt_purge(): expired routes go down and their packets are dropped; for the
\* packets that wait for another route it is asked for again.  The order of
\* the table, in which that happens, is left open.
rt_purge(n, expired, outcome) ==
    LET nd == node[n]
        up == {d \in Nodes : nd.rt[d].flags = "up"}
        waiting == {p.dst : p \in nd.rqueue} \ up
        purged == [nd EXCEPT
                      !.rt = [d \in Nodes |-> IF d \in expired
                                              THEN rt_down([nd.rt[d] EXCEPT !.seqno = @ + 1])
                                              ELSE nd.rt[d]],
                      !.rqueue = {p \in @ : p.dst \notin up}]
        flushed == UNION {forward(n, nd.rt[d], Waiting(nd, d)) : d \in up \ expired}
        asked == {d \in waiting : outcome[d] = "sent"}
        dropped == {d \in waiting : outcome[d] = "given up"}
        \* The node when it has sent i requests.
        after(i) == [purged EXCEPT !.bid = @ + i, !.seqno = @ + 2 * i,
                                   !.rqueue = {p \in @ : p.dst \notin dropped}]
    IN  /\ Cardinality(expired) <= left.expiries
        /\ Requests + Cardinality(asked) <= MaxRequests
        /\ IF \A d \in expired : LiveAndEven(nd.rt[d])
           THEN /\ left' = [left EXCEPT !.expiries = @ - Cardinality(expired)]
                /\ \E turn \in Bijection(asked, 0 .. Cardinality(asked) - 1) :
                      Leaves(n, [nd |-> after(Cardinality(asked)),
                                 out |-> flushed \cup UNION {sendRequest(n, after(turn[d]), d, "sent").out
                                                            : d \in asked}], net)
                /\ UNCHANGED <<links, aborted, repair>>
           ELSE Aborts
RoutePurge(n) ==
    \E expired \in SUBSET {d \in Nodes : node[n].rt[d].flags = "up"} :
        \E outcome \in [{p.dst : p \in node[n].rqueue} -> Outcomes] :
            rt_purge(n, expired, outcome)

\* A node moves out of the range of another, or back.
Move(l) ==
    /\ left.changes > 0
    /\ left' = [left EXCEPT !.changes = @ - 1]
    /\ links' = IF l \in links THEN links \ {l} ELSE links \cup {l}
    /\ UNCHANGED <<node, net, aborted, repair>>

Next ==
    /\ ~aborted
    /\ \/ \E f \in Flows, o \in Outcomes : Send(f, o)
       \/ \E m \in net : \/ DeliverData(m) \/ DeliverRequest(m)
                         \/ DeliverReply(m) \/ DeliverError(m) \/ Lose(m)
                         \/ \E o \in Outcomes : rt_ll_failed(m, o)
       \/ \E n \in Nodes : \E p \in node[n].lrtimer : LocalRepairTimer(n, p)
       \/ \E n \in Nodes : RoutePurge(n)
       \/ \E l \in Breaks : Move(l)

Spec == Init /\ [][Next]_vars

-----------------------------------------------------------------------------
(* Properties *)

\* Along the next hops of the routes to a destination the sequence numbers
\* never fall, and where they stay the same the hop counts fall: no routes
\* form a loop.  The code loses this once a local repair fails, because
\* LocalRepairTimer::handle() takes the route down without a new sequence
\* number, so nothing is claimed after that.
LoopFree ==
    repair # "failed" =>
        \A n, d \in Nodes :
            LET r == node[n].rt[d]
                s == node[r.nexthop].rt[d]
            IN  r.hops # INFINITY2 /\ d \notin {n, r.nexthop} =>
                    \/ s.seqno > r.seqno
                    \/ s.seqno = r.seqno /\ s.hops < r.hops

\* No node believes in a route newer than what the destination has given out:
\* at most the one odd number after it, of a route that went down.  Otherwise
\* the destination's own next replies would be taken for old ones.
NoFutureSeqno ==
    \A n, d \in Nodes : n # d =>
        /\ node[n].rt[d].seqno <= node[d].seqno + 1
        /\ node[n].rt[d].flags = "up" => node[n].rt[d].seqno <= node[d].seqno

\* No packet stays in the send buffer while its route is up: every place that
\* brings a route up also empties the buffer.  rt_purge() has a check for it
\* that, as its comment says, should not be needed.
NothingWaitsForALiveRoute ==
    \A n, d \in Nodes : node[n].rt[d].flags = "up" => Waiting(node[n], d) = {}

\* The agents' assertions hold as long as no local repair has been tried.
AbortsOnlyInRepair == aborted => repair # "none"

\* The agents' assertions hold: a route that is not down is up, whenever a link
\* failure, a reply or a route error finds it.
AssertionsHold == ~aborted
=============================================================================
