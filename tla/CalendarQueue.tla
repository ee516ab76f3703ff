--------------------------- MODULE CalendarQueue ---------------------------
(***************************************************************************)
(* The event list of class CalendarScheduler (src/ns-2.35/common/          *)
(* scheduler.cc), the scheduler every simulation of this project runs on:  *)
(* events are hashed by their time into buckets, one bucket per interval   *)
(* of a "year", and the search for the next event walks the buckets from   *)
(* the current one.                                                        *)
(*                                                                         *)
(* A bucket's circular list is a sequence; the calendar is a record.  The  *)
(* operators return the calendar, or the set of calendars, the method can  *)
(* leave.  How wide the buckets become when the calendar is rebuilt is     *)
(* left open: newwidth() and resize() compute it from averages, samples    *)
(* and search counts, and any of Widths may come out.                      *)
(***************************************************************************)
EXTENDS Integers, Sequences, SequencesExt, FiniteSets, FiniteSetsExt

CONSTANT Widths     \* the bucket widths newwidth() may compute

ASSUME WidthAssumption == Widths \subseteq Nat \ {0} /\ 1 \in Widths

\* CALENDAR_HASH
Hash(c, t) == (t \div c.width) % c.nbuckets

\* reinit(): an empty calendar of n buckets that stands at time start.
reinit(n, w, start) ==
    [nbuckets |-> n, width |-> w, cal_clock |-> start,
     lastbucket |-> (start \div w) % n, stat_qsize |-> 0,
     list |-> [i \in 0 .. n - 1 |-> <<>>], count |-> [i \in 0 .. n - 1 |-> 0]]

top_threshold(c) == 2 * c.nbuckets
bot_threshold(c) == (c.nbuckets \div 2) - 2

Events(c) == UNION {Range(c.list[i]) : i \in 0 .. c.nbuckets - 1}

-----------------------------------------------------------------------------
(* Putting an event into its bucket *)

\* e goes to position k of bucket i; fresh: no other event has its time.
Link(c, i, k, e, fresh) ==
    LET n == IF fresh THEN 1 ELSE 0
    IN  [c EXCEPT !.list[i] = InsertAt(@, k, e),
                  !.count[i] = @ + n,
                  !.stat_qsize = @ + n]

\* insert2(): before every event of the same time.
insert2(c, e) ==
    LET i == Hash(c, e.time)
        s == c.list[i]
        k == Min({j \in DOMAIN s : e.time <= s[j].time} \cup {Len(s) + 1})
    IN  Link(c, i, k, e, k > Len(s) \/ s[k].time # e.time)

\* Mutant: the events of a bucket are taken from its front.
EmptiedForwards(s, c) ==
    LET into[k \in 0 .. Len(s)] == IF k = 0 THEN c ELSE insert2(into[k - 1], s[k])
    IN  into[Len(s)]

\* The events of a bucket go to calendar c, from its end, which keeps events of
\* one time in their order.
Emptied(s, c) ==
    LET into[k \in 0 .. Len(s)] ==
            IF k = 0 THEN c ELSE insert2(into[k - 1], s[Len(s) - (k - 1)])
    IN  into[Len(s)]

\* The events of calendar c go to calendar d, bucket by bucket.
Moved(c, d) ==
    LET upto[b \in 0 .. c.nbuckets] ==
            IF b = 0 THEN d ELSE Emptied(c.list[b - 1], upto[b - 1])
    IN  upto[c.nbuckets]

\* resize(): rebuild the calendar.
resize(c, n) ==
    {Moved(c, reinit(IF n < 4 THEN 4 ELSE n, w, c.cal_clock)) : w \in Widths}

\* insert(): after every event of the same time.  An event before the
\* calendar's time (head() had moved it ahead) turns it back.
insert(c0, e) ==
    LET i == Hash(c0, e.time)
        c == IF c0.cal_clock > e.time
             THEN [c0 EXCEPT !.cal_clock = e.time, !.lastbucket = i] ELSE c0
        s == c.list[i]
        k == Max({0} \cup {j \in DOMAIN s : s[j].time <= e.time})
        d == Link(c, i, k + 1, e, k = 0 \/ s[k].time < e.time)
    IN  IF d.stat_qsize > top_threshold(d) THEN resize(d, 2 * d.nbuckets) ELSE {d}

-----------------------------------------------------------------------------
(* Finding and removing the next event *)

\* The bucket looked at in step j of the search.
Probe(c, j) == (c.lastbucket + j) % c.nbuckets
Front1(c, j) == c.list[Probe(c, j)][1]
Filled(c) == {j \in 0 .. c.nbuckets - 1 : c.list[Probe(c, j)] # <<>>}

\* diff0_, diff1_, diff2_: how far away the first event of the bucket of step
\* j may be to belong to this year.
Year(c, j) ==
    CASE j = 0 -> (c.width * c.nbuckets) \div 2
      [] j = 1 -> (c.width * c.nbuckets) \div 2 + c.width
      [] j > 1 -> c.width * c.nbuckets

\* The step at which head() finds its event: the first that sees an event of
\* this year, else the one that saw the earliest event of a later year.  The
\* last bucket is only compared.
HeadStep(c) ==
    LET near == {j \in Filled(c) : j < c.nbuckets - 1
                     /\ Front1(c, j).time < c.cal_clock + Year(c, j)}
    IN  IF near # {} THEN Min(near)
        ELSE CHOOSE j \in Filled(c) : \A k \in Filled(c) :
                 Front1(c, j).time <= Front1(c, k).time

\* head(): the calendar moves to the event, which stays in it.
head(c) ==
    IF Filled(c) = {} THEN c
    ELSE [c EXCEPT !.lastbucket = Probe(c, HeadStep(c)),
                   !.cal_clock = Front1(c, HeadStep(c)).time]

\* The first event of the bucket the calendar stands at leaves it.
Unlink(c) ==
    LET i == c.lastbucket
        s == c.list[i]
        n == IF Len(s) = 1 \/ s[2].time # s[1].time THEN 1 ELSE 0
    IN  [c EXCEPT !.list[i] = Tail(@), !.count[i] = @ - n, !.stat_qsize = @ - n]

\* deque(): it may find that the width should be adjusted, and shrinks a
\* calendar with few distinct times.
deque(c) ==
    LET at == head(c)
        out == {Unlink(d) : d \in {at} \cup resize(at, at.nbuckets)}
    IN  UNION {IF d.stat_qsize < bot_threshold(d)
               THEN resize(d, d.nbuckets \div 2) ELSE {d} : d \in out}

\* Mutant: only the event behind is compared.
cancelBehind(c, e) ==
    LET i == Hash(c, e.time)
        s == c.list[i]
        k == CHOOSE j \in DOMAIN s : s[j] = e
        behind == s[IF k = Len(s) THEN 1 ELSE k + 1]
        n == IF Len(s) = 1 \/ behind.time # e.time THEN 1 ELSE 0
    IN  [c EXCEPT !.list[i] = RemoveAt(@, k), !.count[i] = @ - n,
                  !.stat_qsize = @ - n]

\* cancel(): e is compared with its neighbours on the circular list.
cancel(c, e) ==
    LET i == Hash(c, e.time)
        s == c.list[i]
        k == CHOOSE j \in DOMAIN s : s[j] = e
        behind == s[IF k = Len(s) THEN 1 ELSE k + 1]
        ahead == s[IF k = 1 THEN Len(s) ELSE k - 1]
        n == IF Len(s) = 1 \/ (behind.time # e.time /\ ahead.time # e.time)
             THEN 1 ELSE 0
    IN  [c EXCEPT !.list[i] = RemoveAt(@, k), !.count[i] = @ - n,
                  !.stat_qsize = @ - n]
=============================================================================
