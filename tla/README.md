# Verification of the CSE 322 networking code

The repository holds two programs of its own and the simulator they build on:

* an HTTP file server and an upload client in Java (`src/Socket Programming/src`);
* NARED, a variant of Random Early Detection, added to the RED queue of ns-2.35
  (`src/ns-2.35/queue/red.cc`, `red.h`, the lines marked "Changed") and measured by
  Tcl scripts (`src/NS2 Project`); a routing exercise with AODV (`src/NS2 Offline`);
* ns-2.35 itself, vendored, of which the experiments use the event scheduler, simplex
  links with RED or DropTail queues, TCP agents with FTP sources, and AODV.

This directory models the programs and the parts of the simulator on which every experiment
rests in TLA+, checks the models with TLC on small instances, and proves the safety
properties of the RED queue, the link, the event schedulers, TCP, AODV, the file server and
the upload client with TLAPS for all instances.

## Inventory

| Component | State | Operations | Interacts with |
|---|---|---|---|
| RED queue (`red.cc`) | parameters, thresholds, average, tally since the last drop, `max_p`, probabilities, `idle_` | `enque`, `deque`, `reset`, `link` command | packet list, `Queue`, link (bandwidth), scripts (bound parameters) |
| Queue base class (`queue.cc`) | `blocked_`, packet list with byte count | `recv`, `resume`, `reset` | hands packets to a target and waits for its callback |
| HTTP file server (`HttpFileServer.java`, `Server.java`) | per thread: position in `run()`, `httpResponse`; shared: `httpRequestCount`, log files, served files | answer GET (listing, text, image, download, 404), receive UPLOAD | browsers and clients over sockets, other threads over files and the counter |
| `NetworkUtil.java` | socket, buffered reader, print writer | read a line, send, receive a file, close | both sides use it |
| Upload client (`WriteClient.java`, `Client.java`) | fields `fileName` and `networkUtil` shared by all threads | enter a name, connect, send, close | server, console |
| Simplex link (`delay.cc`, `dynalink.cc`, `ns-link.tcl`) | packets in transit, one interrupt event, up or down | transmit, deliver, fail, recover, new bandwidth or delay | queue (callback), scheduler |
| DropTail (`drop-tail.cc`) | packet list, limit | `enque`, `deque`, `shrink_queue` | as RED |
| Event schedulers (`scheduler.cc`, `heap.h`) | clock, events in a calendar, a heap or a list | `schedule`, `cancel`, `deque`, look ahead; the calendar resizes itself | every handler of a simulation |
| TCP sender and sink (`tcp.cc`, `tcp-sink.cc`) | window, sequence numbers, timer, measurement; ring of packets seen, saved ACK | send, receive data and ACKs, time out | FTP source, links that lose and mark |
| AODV agent (`aodv/`) | sequence number, routing table, send buffer, requests seen, repairs | handle data, requests, replies, errors, link failures; purge | other agents, MAC, interface queue |
| Experiment scripts, parsers, plots | none that outlives a line | set-up, text processing | bind queue parameters, read traces |

The rest of ns-2.35 is listed under "Not modelled".

What is hard to test here: the console loop and all upload threads share one object;
two server threads share a counter and files; a buffered reader reads ahead of the code
that takes over the socket; peers hang up anywhere; a link failure resets a queue whose
target still holds a packet; the average lags behind the queue; several formulas divide
by quantities that approach zero; the calendar rebuilds itself between two events of equal
time; a failure cancels what is in transit but not the end of the transmission; time-outs race
with ACKs that are on the way; routing messages of different ages meet. `PROJECT.json` lists
these hazards line by line.

What makes each part correct:

* RED: no packet unaccounted for, never reordered or duplicated, hard limit kept, one
  packet at the target, probabilities in range, idle arrivals kept;
* server: every fragment of an upload is accounted for, responses are framed, each request ends and is logged;
* client: each thread sends its user's file on a connection of its own and ends;
* both: a file that is sent arrives and the connection is released;
* schedulers: time order, first come first served among equals, nothing lost or run twice;
* link: one callback per packet, delivery in order, each packet delivered once or dropped once,
  a queue that always opens again;
* TCP: what is acknowledged has arrived, windows hold, retransmissions are not timed, all data
  arrives;
* AODV: no routing loops, sequence numbers that only their owner raises, no packet left waiting
  for a route that is there, assertions that hold.

## Modules

| Module | What it is |
|---|---|
| `LossyFifo` | abstract specification: what any queue promises its link |
| `RedQueue` | the RED queue with all variants and NARED, on top of `Queue` |
| `PacketBytes` | how many bytes a sequence of packets has, counted as a set of bytes |
| `PacketBytesProofs` | what appending, removing and dropping the head do to that count |
| `RedQueueSafety` | types of the operators and actions; accounting, hand-off, limit, byte count; refinement of `LossyFifo`; average, idle arrivals, marking, NARED's forced drops, probabilities, unlinked queues |
| `DropTail` | the drop-tail discipline as operators on a sequence |
| `SimpleLink` | a DropTail queue, `LinkDelay` and `DynamicLink` composed |
| `SimpleLinkSafety` | lemmas on sequences and the discipline; types, order of delivery, each packet once, callback, limits, assertion; refinement of `LossyFifo` |
| `EventQueue` | abstract specification: what any scheduler promises |
| `CalendarQueue`, `HeapQueue` | the event lists as operators |
| `Schedulers` | class `Scheduler` over calendar, heap and list at once |
| `SchedulersProofs` | loops as functions on their states; the operations of list, heap and calendar; refinement of `EventQueue` by all three |
| `TcpAgent`, `TcpSink` | sender and receiver as operators on records |
| `TcpConnection` | both over a network that loses and marks, with an application |
| `TcpProofs` | acknowledged data, window, Karn's rule, timer |
| `Aodv` | the agents of all nodes, the network between them, and movement |
| `AodvProofs` | loop freedom, sequence numbers, send buffer, assertions |
| `FileServer` | server threads and the peers that talk to them |
| `FileServerProofs` | log files, framing, stored uploads |
| `UploadClient` | the client's threads on their shared object |
| `UploadSystem` | `FileServer` and `UploadClient` over common connections |
| `UploadSystemProofs` | what a client's thread sends and leaves open; what the server stores of it |
| `MC...` | constant values for TLC |

The layers meet at their promises: `Schedulers` implements `EventQueue`, which `SimpleLink`
assumes of its events; RED and DropTail both implement `LossyFifo`; `SimpleLink` shows that a
link delivers in order, which `TcpConnection` assumes of its network; the marks and losses there
are those of `RedQueue`.

### RedQueue

`Recv(p)` is `Queue::recv` with the whole of `REDQueue::enque`: idle correction and
`estimator`, the adaptation of `max_p`, the tally, then one of four branches of the drop
logic (`NoEarlyDrop`, `AverageTooHigh`, `JustCrossed`, `DropEarly`), each of which ends in
`Store`, `ForcedDrop` or `UnforcedDrop` and in `HandOff`, the second half of `recv`.
`Resume` is the handler's callback with `deque`. `Reset` is `REDQueue::reset` with
`Queue::reset`: it runs before the first packet and at every link failure (`ready` says it
has run). `edp` is what a script binds; `th` holds the thresholds, which `reset` rewrites.

Doubles are integers in units of 1/`One`, rounded down after each product and quotient.
`Keep[m]` tabulates the loop of `estimator`; the assumption `KeepAssumption` fixes it.
`gentle_p` stands for the pair `v_c`, `v_d`, which are functions of the `max_p` that `reset`
saw. Random draws are choices among the outcomes possible at that probability; the clock is
a choice of the idle time (at most `MaxIdle` packet times) and of whether the adaptation
interval is over. `status`, which the code never initialises, starts with any value.
`arrived`, `sent` and `dropped` are history variables. Parameters that are functions of
the link's bandwidth (`targetqueue`, `auto_bottom`, `fraction`, the weight) are constants
of a configuration.

### FileServer

A peer's bytes are units (request lines, the validity line, 1024-byte fragments); the
server's are tokens with a length. Each step of a thread makes at most one access to
something threads share, so `httpRequestCount++` is a load and a store, the counter is read
again for the log file's name, an image's `length()` is separate from its `read`, and
transfers go fragment by fragment. `ReadLine` lets the buffered reader take any number of
the units that are in the socket; `ReceiveFragment` reads the socket below it. Exceptions
that end a thread: a line of spaces, `UPLOAD` or `GET` without operand, the end of the
stream where the validity line is due. An upload ends at the end of the stream or, when the peer has
broken the connection, with the `IOException` of a read before it, whatever is left unread
(`NetworkUtil.java:158`); both leave the file as it is. A thread whose upload has ended is at `stored`, one that an
exception ends at `close`; `Close` is `closeConnection()` in the `finally` of both, and `closed`
says that it has run. Left out: an upload name consisting of dots only
(same effect as `UPLOAD` without operand), log files that cannot be created, and how a
fragment that is read as a line splits into lines. The `Content-Length` of a listing is the number
of its characters (`HttpFileServer.java:86`) and its body their bytes in the platform's default
charset; the model has one length for both, which is right for a single-byte charset, as on the
Windows set-up of the project with JDK 11, and for names in ASCII.

### UploadClient and UploadSystem

`Enter` is the console loop; `Connect` to `CloseField` are `run()` and `writeFromClient`.
The callee and the argument of `this.networkUtil.writeFromClient(fileName)` are read in two
steps. `wired[u]` is the connection under the streams a `NetworkUtil` was built with,
`socket[u]` the field that `writeFromClient` may replace, `out1[t]` the stream a thread has
taken from it. A connection is opened once: `FreshConn` is one that never was, and when the bound on
connections is reached only a refusal is left. A `PrintWriter` swallows the errors of a closed socket; other writes end the
transfer. In `UploadSystem` the client's connections are the server's: `stream` and `eof`
are common variables, and the server's peers of `FileServer` do not act.

### DropTail and SimpleLink

`Arrive` is `DynamicLink::recv`, `Queue::recv` and `DropTail::enque`, and, when the queue is open,
`deque` and `LinkDelay::recv`. `Recv` schedules the packet for the target and `intr_` for the queue.
`Resume` is the callback, `Deliver` the packet's event (on a dynamic link `LinkDelay::handle` with
its assertion, whose failure sets `aborted`), `Tick` lets time pass when nothing is due. Times are
kept relative to the clock, so no bound on time is needed. `Down` and `Up` are the link's procedures
in `ns-link.tcl` with both `reset()`s; `SetBandwidth`, `SetDelay` and `ShrinkQueue` are a script's
commands. `lowered` remembers that the delay was lowered with packets under way, and `lost` and
`delivered` are history variables. The unit of packet sizes is the queue's mean packet size.

### Schedulers

The calendar is a record of buckets, each a sequence where the code has a circular list.
`insert` and `deque` may trigger `resize`; which width `newwidth()`
computes is open (any of `Widths`), since it depends on averages and search counts. `resize` moves
the events bucket by bucket (`Moved`), each bucket from its end (`Emptied`). `HeadStep` is the unrolled
search of `head` (`CAL_DEQUEUE`) with its three distances and the fallback to the earliest event seen.
`Peek` is the real-time scheduler, which looks at the head, waits, and lets other events come in
first. All three lists get the same calls; each is mapped onto `EventQueue`. A script's events are
scheduled one by one before the run starts (`At`, from the times in `script`). The heap's loops are
functions from the state of a loop to the next, iterated by `Rounds` until nothing changes
(`Settled`). The clock is the list's: that heap and calendar dispatch the same events is part of
what is checked.

### TcpAgent, TcpSink and TcpConnection

Each method is an operator from the record it finds to the one it leaves; `Sends` puts what the
sender has output into the network. `cwnd_` counts in units of 1/`Unit`, rounded down, and grows by
at least one unit. The length of the retransmission time-out (`t_srtt_`, `t_backoff_`) is left out:
`Expire` may happen when nothing is under way, and `MaxEarly` times before that. What the
measurement of round trips is used for is left out, when it is active is kept. Also left out:
QuickStart, F-RTO, timestamps, `overhead_`, `maxburst_` (0 by default), and every variant other
than Tahoe. Losses are chosen packet by packet; reordering does not happen on one path.

### Aodv

A handler maps the node and the message to the node it leaves and the messages it sends; where the
code asserts, an operator of its own says whether an assertion fails (`aborted`). Broadcasts are
one message per neighbour in range. When `rt_purge` finds packets for several destinations waiting, it asks
for their routes in the order of the table, which the model leaves open. Time is left out: a route
may expire, a request may be rate-limited or given up (`Outcomes`), a repair may end at any moment. The MAC reports a failure only
for a packet to a neighbour that is out of range (in a real network also after collisions). A link may
break or appear at any moment; TLC's budget is one such change, so that a link which returns is covered
by the theorems only, whose number of changes is arbitrary. `repair` remembers whether a local repair was
started or has failed. Left out: the bound of the send buffer (`AODV_RTQ_MAX_LEN`) and the age of its
packets, the TTL of routing messages (larger than these networks), ARP delays, histories of route
discovery times, and hello messages, which are not built with link-layer detection.

## Runs

| Run | Bounds | Shows |
|---|---|---|
| `red` | 23 configurations in packets, limit 0 to 5, and 4 in bytes with packets of sizes 1 and 3 (mean 2); 7 arrivals, weight 1/2, resets any time | `Conservation`, `OneOutstanding`, `AverageBounded`, `ProbRange`, `UnlinkedDepth`, `ByteCount`, `WithinLimit`, `IdleArrivalKept`, `MarkInsteadOfDrop`, `NaredDropsAboveBuffer`, `ImplementsFifo`, `Drains` |
| `server` | 2 connections, 11 scripts, 5 files, peers hang up anywhere | `UploadAccounted`, `PagesFramed`, `SoleBrowserLogged`, `RequestsEnd` |
| `client_parallel` | 2 threads at once, 4 names, refused connections | `UploadsEnd` |
| `system_serial` | 2 uploads one after the other, 3 names, refused connections | `StoredOrHeld`, `ClientSendsAndCloses`, `UploadCompletes` |
| `schedulers` | 3 scripts of up to 8 events, 3 more by handlers with delays 0, 1 and 7, 1 cancellation, 1 look ahead, widths 1 and 3 | `CalendarInShape`, `ListAndHeapImplement`, `CalendarImplements` |
| `link` | all modes and disciplines, 4 packets of sizes 1 and 2, limits 1 and 3, 2 bandwidths, 2 delays, 2 commands at any moment | `HandlerOnce`, `LimitHolds`, `ByteLimitHolds`, `DeliveredInOrder`, `TransitAsserted`, `EachPacketOnce`, `QueueImplements`, `Settles` |
| `tcp` | 5 packets, window 3, 2 duplicate ACKs, ring of 4, 2 losses, 1 mark, 1 early time-out | `AckedHasArrived`, `WindowKept`, `KarnsRule`, `TimerRuns`, `DataArrives` |
| `aodv` | a chain of 4 nodes, 2 flows, 2 requests, 2 packets and a broken link, or 1 packet, a broken link and an expired route | `LoopFree`, `NoFutureSeqno`, `NothingWaitsForALiveRoute`, `AbortsOnlyInRepair` |

Why the bounds suffice: with weight 1/2 the average passes both thresholds within four
arrivals, so all four branches, forced drops from a full queue and the return below the
thresholds happen within seven; a queue of six bytes fills with two large packets. Two
connections are enough for every pair of threads to race on the counter or on one file;
nothing in the server relates three. Two client threads already share the object, and three
fragments make a first, a middle and a last one. A calendar of four buckets grows at the ninth
distinct time, which the third script is one short of, and shrinks while it empties; delay 7 is more
than a year of width 1. Two commands are a failure and a recovery, or a change before each of two
packets; four packets fill a queue of limit 3 behind one in transmission. A window of three is the
smallest in which a loss is followed by two duplicate ACKs, five packets make the ring of four wrap and
grow, and two losses are a packet and its retransmission or its ACK. A chain of four nodes is the
shortest in which local repair starts: a packet must have come further than it has to go.

Deadlock is checked in the RED run. In the others it is not: a server whose peers have
hung up spins without changing anything, a client whose user enters nothing stops, and a
simulation ends when no events are left or an assertion has failed.

### Fairness

* `Resume`: the link and the MAC schedule the callback of each packet they take, and the
  scheduler runs every event.
* server threads and client threads: the JVM schedules every runnable thread.
* `Tick`, `Resume` and `Deliver` of the link: the same scheduler; time passes while events are
  scheduled. Arrivals and commands are not fair.
* the four steps of `TcpConnection` that are events of the simulation (data and ACKs arrive, the
  two timers expire): one weak fairness for all of them, since any of them goes on until the
  connection is at rest. Sending, stopping, losing and marking are not fair; losses are bounded,
  as a network that loses everything transfers nothing.
* peers of the server either send what they mean to send or hang up. A peer that stays connected and
  silent blocks its thread for ever, since no socket has a time-out (`NetworkUtil.java:41`, `145`);
  the repository's own client always closes.

The console is not fair: a user need not enter anything.

### Violations

These runs state what a document, a comment or an assertion says and show that the code does
otherwise; `PROJECT.json` quotes the lines.

| Run | What happens |
|---|---|
| `finding_nared_prob` | `temp_p / (1 - count * temp_p)` turns negative; `modify_p` then returns 0 or a negative probability and nothing is dropped |
| `finding_parallel` | a thread sends the other thread's file, or its file is cut by the other's `closeConnection` |
| `finding_upload` | one upload to a server at rest: fragments that arrive with the request lines stay in the buffered reader, and the stored file lacks its beginning (`NetworkUtil.java:144`) |
| `finding_repair` | a route is under local repair when another packet for the lost neighbour fails, and `assert (rt->rt_flags == RTF_UP)` ends the simulation |

Also seen while modelling, without a run of their own.

RED and NARED:

* `reset` replaces `thresh_queue_` and `maxthresh_queue_`, so 10 and 40 of `wired.tcl` never apply
  (`red.cc:304`);
* the denominator of NARED's curve has `th_min` and `max_p` where equation (4) of the report has Qmax
  and Qmin (`red.cc:518`); NARED's `max_p` has no upper bound (`red.cc:508`);
* `drop_front_` removes the second packet (`red.cc:676` against `red.cc:140`);
* an adaptation step may end above `top` (`red.cc:381`); under adaptive
  RED the gentle part of the curve uses the `max_p` of the last reset (`red.cc:327`).

File server and client:

* two connections that ask at once may share a log number, and one log is lost
  (`HttpFileServer.java:39`);
* at the end of the stream the server's loop spins for ever and never closes
  (`HttpFileServer.java:28`);
* text pages and downloads are preceded by a line end that `Content-Length` does not count
  (`HttpFileServer.java:121`, `154`); the 404 page is announced and not sent, after a repetition of
  the previous head (`162`, `170`);
* a `jpeg` is declared valid, refused by the client and stored empty by the server
  (`NetworkUtil.java:97-101`).

Link and DropTail:

* `limit_` 1 refuses every packet, and a queue of limit n holds n - 1 (`drop-tail.cc:92`); in bytes
  with `drop_front_` a large packet may take the queue past its limit, since only one is dropped for
  it (`drop-tail.cc:95`);
* lowering `delay_` on a dynamic link with packets in transit makes the assertion of
  `delay.cc:134` fail; on a plain link packets overtake each other.

TCP:

* FTP's `stop` sets `curseq_` to `maxseq_`, so that the last packet sent is not sent again when it is
  lost (`tcp.cc:828`, `ns-source.tcl:55`);
* `newtimer` always finds `t_seqno_` above the ACK, so it never cancels the timer (`tcp.cc:1003`):
  a sender at rest times out once more;
* after a time-out of the SYN the echo of the SYN's answer is taken for congestion (`tcp.cc:1421`).

AODV:

* a local repair that fails takes the route down without a new sequence number and without a route
  error (`//rt->rt_seqno++` and "send RERR", `aodv.cc:204`), after which loops are not excluded;
  `aodv.cc:201` says of an assertion there "The following assert fails, not sure why": the route may
  have gone down otherwise since;
* a reply may be sent to next hop 0 when the reverse route is down;
* the first request is network-wide, since `rt_last_hop_count` starts at `INFINITY2`.

## Proofs

Type invariants are proved and have no run of their own. Every theorem holds for any values of the
constants that satisfy the named assumptions, which TLC evaluates in each run; the bounds of the
runs (`MaxArrivals`, `MaxPackets`, `MaxSeq`, `MaxRequests`...) are arbitrary there.

### RedQueue

For every `One`, `Weight`, `Configs`, `Packets` and
`MaxArrivals` that satisfy the four assumptions of the module. `ScaleAssumption` and
`KeepAssumption` say what the fixed-point numbers are, `ConfigAssumption` types the constants,
and `ThresholdAssumption` says that `linterm_` is at least 1, that thresholds are not inverted,
and that a gentle queue without a link has a positive upper threshold (otherwise `reset` divides
by zero).

* `TypeCorrect`: `TypeOK` is inductive. Each operator gets a type lemma, then each action.
* `Invariance`: `Inv`, the conjunction of `TypeOK`, `Conservation`, `OneOutstanding` and
  `WithinLimit`, is inductive; neither part is alone. `Conservation` needs that a hand-off only
  happens from a nonempty queue, `WithinLimit` needs the queue to be empty when it is open, which is
  `OneOutstanding`, and all need the types. `PacketsConserved`, `TargetHoldsOne` and `LimitHolds`
  are its parts.
* `BytesCounted`: `bytes` is the size of the queue. A count that is a sum over a sequence needs
  induction over data, so `PacketBytes` counts a set of bytes, one pair per byte of each packet;
  `PacketBytesProofs` shows with bijections what appending a packet, removing one from the middle
  and taking the first do to its cardinality. `WithinLimit` in bytes uses the same lemmas.
* `Refinement`: with `queue <- q` and `busy <- blocked`, every step of RED is a step of `LossyFifo`
  or a stutter. A marked packet is another member of `Queued`, so the arrival that marks is the
  arrival of the marked packet.
* `AverageNeverAboveLimit`: the average is bounded because the queue it samples is
  (`WithinLimit`); the invariant adds that it is not negative.
* `IdleArrivalsKept`: an idle queue is empty (`OneOutstanding`), so the early-drop zone, which
  needs two packets, is not entered. Stated for queues measured in packets.
* `MarksInsteadOfDropping`: from the probabilities' upper bound and the threshold `mark_p`.
* `NaredDropsAll`: once NARED's average has reached the buffer size, `drop_early` computes a
  probability of 1, which `modify_p` leaves at 1 or above (with `wait_`, too), so the draw cannot
  miss. Stated for queues in packets.
* `UnlinkedStaysShort`: a queue without a link has both thresholds at 0 after `reset`. `DepthInv`
  adds that the third packet is the one that crosses the lower threshold, after which `old` is set
  and each arrival costs a packet. This needs `bytes_` to be off, and the property says so:
  otherwise `modify_p` scales the probability by the packet's size and may spare a small packet.
* `ProbabilitiesInRange`: needs the invariant that a gentle queue has a positive upper threshold
  after `reset` and that `gentle_p` is at most 1, so that the gentle line does not fall below 0.

### SimpleLink

For every `Modes`, `Sizes`, `Slots`, `PropDelays`, `Limits`, `MaxPackets` and `MaxCommands` that
satisfy `LinkAssumption`, which only types them (sizes and limits are positive).

* `TypeCorrect`: `TypeOK` is inductive, given lemmas on what `enque`, `shrink_queue`, `RemoveAt` and
  `Tail` leave of a sequence.
* `Invariance`: `Inv` adds to the properties three facts. `HandlerOnce` makes the time left of the
  transmission meaningful; `Times` says that no packet in propagation is due later than the end of
  the transmission plus the delay (or, with `avoidReordering_`, later than `latest_time_`), so that
  the next packet is due last; `Numbers` orders the packets that wait after those in propagation and
  these after those delivered. Order of delivery alone is not inductive: it follows from the order of
  the due times, which holds only because one packet is transmitted at a time.
* `IntrScheduledOnce`, `PacketLimit`, `OrderKept` and `AssertionHolds` are its parts.
* `EachPacketKept`: `Placed` says that the numbers given out so far are parted into those that wait,
  propagate, were delivered and were lost, and that none was delivered twice. It needs `Numbers`:
  a packet that leaves a sequence leaves it for good only because the numbers in it differ.
* `ByteLimit`: `Fits` restates the limit as an inequality on the bytes of the queue. The step that
  matters is `shrink_queue`, whose loop ends with the longest prefix that fits (`ShrinkFits`).
* `QueueRefinement`: with the waiting packets as `queue` and the packet under transmission as `out`,
  every step is a step of `LossyFifo`, `Shrink` included, or a stutter.

### TcpConnection

For every `Wnd`, `Unit`, `numdupacks`, `RingSize` and every bound that `SenderAssumption`,
`RingAssumption` and `BoundAssumption` type; a ring has at least two slots.

* `TcpInvariance`: `TcpInv` is `SenderInv /\ GivenInv /\ StartOK /\ NetworkInv /\ SinkInv`. What is
  acknowledged has arrived only because of what the sink's ring of flags means: `RingOK` says that
  the slot of each packet from `next_` to `maxseen_ + 1` holds whether that packet has come, and that
  no two of them share a slot, through wrapping and through `resize_buffers`. That the ring's
  doubling ends, and that the search for the next missing packet stops at one, rests
  on the least member of a set of numbers, as the induction theorems cannot be instantiated.
* `AckedArrived`, `WindowIsKept` and `TimerAlwaysRuns` are its parts. `HandlerOK` is what holds
  in the middle of a handler, while what it has output is not in the network yet; each method gets a
  lemma that says it keeps `HandlerOK`, so that handlers are composed of them.
* `KarnsRuleHolds`: the packet measured lies below `t_seqno_`, and `output` only goes on from there;
  whatever sets `t_seqno_` back stops the measurement as well.

### Aodv

For every finite set of nodes, every set of links and flows, any number of messages and any
`NETWORK_DIAMETER` that a hop count below `INFINITY2` can hold (`AodvAssumption`).

* `AodvInvariance`: loop freedom says nothing of routes that are still messages, so `AodvInv` says
  the same of every request and reply: what it offers (`Offered`) is behind the route its sender
  holds, and its number was given out by its destination. An offer outlives all steps because no
  route ever falls behind what it was (`Grows`). That rests on parity: a route that works has an
  even number, one that went down an odd one, so that taking it down with the next number, or with
  the one an error brings, makes it newer. A failed local repair is the one step that breaks this,
  and what depends on it is claimed only until then (`Whole`).
* `RoutesLoopFree`, `NumbersNotInvented` (through failed repairs, too), `BufferServed` and
  `AssertionsHoldWithoutRepair` follow.

### FileServer

For any number of connections, any finite set of files and any sequences of lines and fragments
that peers send (`NamesAssumption`, `ContentAssumption`).

* Nothing is assumed of the peers but `Talks`: a step that is not the server's appends a unit to a
  connection or closes it. `FileServer`'s scripted peers do no more, and neither does the client, so
  `UploadSystemProofs` takes the server's part over.
* `ServerInvariance`: `ServerInv` is `TypeOK` and, for each thread, `ThreadOK`, `LinesOK`, `LogOK`,
  `PageOK` and `TailOK`. Threads disturb each other through the counter, the log files and the served files only.
  `ThreadOK` says that a thread touches those only after its peer has asked for it: without a GET it
  leaves the counter and the logs alone, and it writes only a file that its peer has named. The steps
  of one's own thread and of the others are separate lemmas; `OthersUntouched`, `StreamsGrow` and
  `FilesKept` say what another thread leaves alone.
* `RequestsLogged`: with one browser the counter does not change between its load and its store, so
  every number is above the names of all log files (`LogOK`), and no log is emptied again.
* `Framing`: a file that was there at the start is never absent again, so an image is never answered
  with 404, and the length sent is the length announced.
* `UploadStored`: `LinesOK` says that what the buffered reader holds are the units right after the
  lines it has delivered, `Lines` many, the last two of which are the request line and the validity
  line; `TailOK` that what the file holds are the units from the reader's last one up to `rpos`, and
  that the stream writes at the file's end. The three pieces, with what is still unread, are then
  adjacent pieces of one sequence (`PiecesJoin`), and nothing is missing or twice between them. That
  the first piece stays behind is what `finding_upload` shows.

### UploadSystem

For any uploads, connections, files and sizes that `SystemAssumption` and the server's assumptions
type, and for `MaxLive = 1`: the user enters a name when the previous thread has ended. With two
threads under way both properties are false, which `finding_parallel` shows, so the hypothesis
cannot be dropped. `EndToEnd` also assumes `~MayCrash`, connections that do not break before the
server has read them: after a reset the unread fragments are lost.

* `SystemInvariance`: `SysInv` is `ServerInv`, `ClientInv` and `FilesOK`. `ClientInv` says that
  connections belong to one thread each (`ConnsOK`), that the fields the threads share are those
  of the one under way (`FieldsOK`), and which lines and fragments it has written so far
  (`WrittenOK`). `FilesOK` says that a file that is not what it was at the start is being received by
  a thread of the server, or was. A step of the client is a
  peer's (`Talks`), so the server's part is kept by the lemmas of `FileServerProofs`.
* `ClientKeepsPromises`: a thread that ended has sent all of its user's file on its own connection,
  and has closed it.
* `EndToEnd`: from `WrittenOK` the units of the connection are the two lines and the client's file in
  order; from `LinesOK` and `TailOK` what the reader holds and what the server stored are those after
  the two lines (`TakenStored`). The file of an upload that was refused, for want of a connection, of
  a client's file or of an accepted name, was never received, so `FilesOK` has it as it was
  (`RefusedUntouched`).

### Schedulers

For any scripts, delays and bounds (`BoundAssumption` only types them), and any bucket widths
(`WidthAssumption`: positive, with the 1 that the constructor starts from).

* `SchedulerInvariance`: `SchedInv` says that the list is sorted by time and number, that the heap
  is ordered and holds the same events, each once, that no event is due before the clock or has a
  number not given out yet, and that the clock stands at 0 until the script is through.
* `ListAndHeapRefinement`: every step is a step of `EventQueue`, for the list and for the heap. The
  three loops of `heap.h` (rising, sinking, moving an entry to the root before it is deleted) share
  one lemma, `LoopEnds`: a loop whose rounds keep an invariant and lower a measure stops in a state
  with the invariant. What is left for each is one round. While a loop runs the heap order is
  broken at one place; `Bridged`, that the entries below it are not earlier than the one above,
  is what lets the next swap mend it. `RootIsEarliest` then takes the order from parents to all.
* `CalendarInvariance`: `CalInv` says that the calendar holds exactly the list's events (`SchedInv`
  gives their order) and that `CalOK` holds. The first part of `CalOK` is `GoodCal`: the buckets are
  sorted, each event is in the bucket its time hashes to (`Placed`), and `count_` and `stat_qsize_`
  are the numbers of distinct times in a bucket and in all (`Counted`). The rest is what the search
  relies on: the current bucket is that of the calendar's clock, which no event precedes, and
  there are not more distinct times than the threshold beyond which it grows.
  * One bucket changes at a time. `BucketReplaced` gets the counters from the sizes of the sets of
    times, which different buckets cannot share.
  * Rebuilding is two nested recursive functions, `Emptied` and `Moved`. Each is proved by
    induction on how far it has come: `EmptiedMoves` carries that what has gone over is later than
    what is left in the bucket, which is why `insert2`, which puts an event before those of its
    time, restores their order; `MovedAll` that the buckets done and those to come have no time in
    common. `Resized` concludes that nothing but the arrangement changed.
  * Searching: `ThisYear` shows that the code's test on one of three distances (`diff0_`, `diff1_`,
    `diff2_`, by the position of the bucket) is true exactly of the events of
    the current year, counted from the current bucket. With the fallback to the earliest front of a bucket, `HeadIsEarliest` follows:
    `head` stops at an event that no other precedes. `Deques` has this also after the rebuilding
    that `deque` itself starts, and `Inserts` after an event that turns the calendar back.
* `ShapeKept`: `CalendarInShape`, which the counters and thresholds are part of.
* `CalendarRefinement`: every step is a step of `EventQueue` for the calendar: the event it
  dispatches is the head of the sorted list that holds the same events.

### What stays with TLC

Liveness (`Drains`, `Settles`, `DataArrives`, `RequestsEnd`, `UploadsEnd`, `UploadCompletes`), which
TLAPS cannot do under fairness. The claims that the code refutes have no theorem. Every other
property of the passing runs is a theorem.

## Not modelled

Trace output, summary statistics and utilisation of the queues; commands that only redirect
drops or traces; text of responses and logs. The Java classes
`Client_2`, `ClientInitiate`, `HttpFileServer_2`, `ReadServer` and `ServerInitiate` are
commented out, and nothing creates a `ReadClient`. The Packet Tracer files, the recorded traces
and the tutorial scripts are no part of a program. The Tcl scripts and Python parsers of the
experiments are straight-line text processing.

Of ns-2.35, about 300,000 lines of third-party C++ are not modelled: the MAC and PHY layers (timing
and signal strength dominate, and the queue only sees a callback), DSDV, DSR and other routing
agents, other TCP variants, SCTP, multicast, satellite and sensor networks. Within the parts that are
modelled: the splay-tree scheduler, the waiting of the real-time scheduler, the options listed above
for TCP and AODV.

## Plan

Done, in this order: `LossyFifo`, `RedQueue` with its proofs, `FileServer`, `UploadClient`,
`UploadSystem`; then `DropTail`, `SimpleLink` with its proofs, `EventQueue` and the schedulers, TCP,
AODV; then the proofs about TCP, AODV, the file server, the client, and the schedulers. Next:

1. `PacketQueue`: the linked list with its head, tail, length, byte count and stale `next_`
   pointers, implementing the sequence that the queues use.
2. Reno's recovery in `TcpAgent`, and DSDV, which `wireless.tcl` uses.
