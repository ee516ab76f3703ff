----------------------------- MODULE EventQueue -----------------------------
(***************************************************************************)
(* What a scheduler promises to the simulation (class Scheduler,           *)
(* src/ns-2.35/common/scheduler.h): events are dispatched in the order of  *)
(* their times, events of the same time in the order in which they were    *)
(* scheduled, each one once, and a cancelled event never.  The clock never *)
(* goes backwards.                                                         *)
(***************************************************************************)
EXTENDS Naturals

CONSTANTS
    Delays,      \* the delays with which events are scheduled
    Nobody       \* no event has been dispatched yet

VARIABLES
    clock,       \* clock_
    uid,         \* uid_, the identifier the next event gets
    pending,     \* the events scheduled, neither dispatched nor cancelled
    last         \* the event dispatched last

vars == <<clock, uid, pending, last>>

Earlier(e, f) == e.time < f.time \/ (e.time = f.time /\ e.uid < f.uid)

Init ==
    /\ clock = 0
    /\ uid = 1
    /\ pending = {}
    /\ last = Nobody

Schedule(d) ==
    /\ uid' = uid + 1
    /\ pending' = pending \cup {[time |-> clock + d, uid |-> uid]}
    /\ UNCHANGED <<clock, last>>

Dispatch(e) ==
    /\ \A f \in pending \ {e} : Earlier(e, f)
    /\ clock <= e.time
    /\ clock' = e.time
    /\ pending' = pending \ {e}
    /\ last' = e
    /\ UNCHANGED uid

Cancel(e) ==
    /\ pending' = pending \ {e}
    /\ UNCHANGED <<clock, uid, last>>

Next ==
    \/ \E d \in Delays : Schedule(d)
    \/ \E e \in pending : Dispatch(e) \/ Cancel(e)

Spec == Init /\ [][Next]_vars
=============================================================================
