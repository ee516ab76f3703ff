----------------------------- MODULE Schedulers -----------------------------
(***************************************************************************)
(* Class Scheduler (src/ns-2.35/common/scheduler.cc) over its calendar, its *)
(* heap and its list.  The three event lists get the same calls, so that   *)
(* any simulation can run on any of them; the clock is the list's.         *)
(*                                                                         *)
(* A script schedules events before it starts the run.                     *)
(* The handlers an event calls are whatever they are: between two          *)
(* dispatches any events are scheduled and cancelled.  The real-time       *)
(* scheduler also looks at the head of the calendar without taking it,     *)
(* and then schedules events that are due earlier.                         *)
(***************************************************************************)
EXTENDS CalendarQueue, HeapQueue

CONSTANTS
    Delays,      \* the delays with which handlers schedule events
    Scripts,     \* times of the events a script schedules before the run
    Nobody,      \* no event
    MaxEvents,   \* bound: how many events handlers schedule
    MaxCancels,  \* bound: how many events they cancel
    MaxPeeks     \* bound: how often the real-time scheduler looks ahead

ASSUME BoundAssumption ==
    /\ Delays \subseteq Nat
    /\ \A s \in Scripts : s \in Seq(Nat)
    /\ {MaxEvents, MaxCancels, MaxPeeks} \subseteq Nat

VARIABLES
    clock,       \* clock_
    uid,         \* uid_
    script,      \* the times of the events the script still has to schedule
    queue,       \* queue_ of ListScheduler
    heap,        \* h_elems
    cal,         \* the calendar
    last,        \* the events dispatched last, from list, heap and calendar
    left         \* what is left of the bounds

vars == <<clock, uid, script, queue, heap, cal, last, left>>

\* ListScheduler::insert(): before the first event that is due later.
ListInsert(s, e) ==
    InsertAt(s, Min({j \in DOMAIN s : e.time < s[j].time} \cup {Len(s) + 1}), e)

\* The constructors: reinit(4, 1.0, clock_) is where every calendar begins.
Init ==
    /\ script \in Scripts
    /\ clock = 0
    /\ uid = 1
    /\ queue = <<>>
    /\ heap = <<>>
    /\ cal = reinit(4, 1, 0)
    /\ last = <<Nobody, Nobody, Nobody>>
    /\ left = [events |-> MaxEvents, cancels |-> MaxCancels, peeks |-> MaxPeeks]

\* Scheduler::schedule()
schedule(d) ==
    LET e == [time |-> clock + d, uid |-> uid]
    IN  /\ uid' = uid + 1
        /\ queue' = ListInsert(queue, e)
        /\ heap' = heap_insert(heap, e)
        /\ cal' \in insert(cal, e)
        /\ UNCHANGED <<clock, last>>

\* The script's command "at" schedules an event for a time of the clock.
At ==
    /\ script # <<>>
    /\ script' = Tail(script)
    /\ schedule(Head(script) - clock)
    /\ UNCHANGED left

\* A handler schedules an event.
Schedule(d) ==
    /\ script = <<>>
    /\ left.events > 0
    /\ left' = [left EXCEPT !.events = @ - 1]
    /\ schedule(d)
    /\ UNCHANGED script

\* A turn of run(): the event list's deque(), and dispatch().
Dispatch ==
    /\ script = <<>>
    /\ queue # <<>>
    /\ LET at == head(cal)
       IN  last' = <<queue[1], heap[1], at.list[at.lastbucket][1]>>
    /\ clock' = queue[1].time
    /\ queue' = Tail(queue)
    /\ heap' = heap_extract_min(heap)
    /\ cal' \in deque(cal)
    /\ UNCHANGED <<uid, script, left>>

\* cancel() of an event that is scheduled.
Cancel(e) ==
    /\ script = <<>>
    /\ left.cancels > 0
    /\ left' = [left EXCEPT !.cancels = @ - 1]
    /\ queue' = RemoveAt(queue, CHOOSE i \in DOMAIN queue : queue[i] = e)
    /\ heap' = heap_delete(heap, e)
    /\ cal' = cancel(cal, e)
    /\ UNCHANGED <<clock, uid, script, last>>

\* RealTimeScheduler::run() looks at the next event and lets time pass.
Peek ==
    /\ script = <<>>
    /\ left.peeks > 0
    /\ left' = [left EXCEPT !.peeks = @ - 1]
    /\ cal' = head(cal)
    /\ UNCHANGED <<clock, uid, script, queue, heap, last>>

Next ==
    \/ At
    \/ \E d \in Delays : Schedule(d)
    \/ Dispatch
    \/ \E e \in Range(queue) : Cancel(e)
    \/ Peek

Spec == Init /\ [][Next]_vars

-----------------------------------------------------------------------------
(* Properties *)

\* The delays with which events are scheduled, by the script or later.
AllDelays == Delays \cup UNION {Range(s) : s \in Scripts}

ListQueue == INSTANCE EventQueue WITH Delays <- AllDelays, pending <- Range(queue),
                                      last <- last[1]
Heap == INSTANCE EventQueue WITH Delays <- AllDelays, pending <- Range(heap),
                                 last <- last[2]
Calendar == INSTANCE EventQueue WITH Delays <- AllDelays, pending <- Events(cal),
                                     last <- last[3]

\* ListScheduler and HeapScheduler keep the promise of a scheduler: time order,
\* first come first served among equal times, nothing lost or dispatched twice;
\* the heap order and the secondary key survive deletions from the middle.
ListAndHeapImplement == ListQueue!Spec /\ Heap!Spec

\* CalendarScheduler keeps it: across years, rebuilt calendars, events of the
\* same time, and a calendar that head() has moved ahead of a new event.
CalendarImplements == Calendar!Spec

Times(s) == {s[i].time : i \in DOMAIN s}
\* What insert(), deque(), cancel() and newwidth() assume and assert: each
\* event is in the bucket of its time, buckets are sorted, count_ and
\* stat_qsize_ count the distinct times, and the calendar stands in the
\* bucket of its time, at no event's past.
CalendarInShape ==
    /\ \A i \in 0 .. cal.nbuckets - 1 :
           LET s == cal.list[i]
           IN  /\ \A k \in DOMAIN s : Hash(cal, s[k].time) = i
               /\ \A k \in 1 .. Len(s) - 1 : s[k].time <= s[k + 1].time
               /\ cal.count[i] = Cardinality(Times(s))
    /\ cal.stat_qsize = Cardinality({e.time : e \in Events(cal)})
    /\ cal.stat_qsize <= top_threshold(cal)
    /\ cal.lastbucket = Hash(cal, cal.cal_clock)
    /\ \A e \in Events(cal) : cal.cal_clock <= e.time
=============================================================================
