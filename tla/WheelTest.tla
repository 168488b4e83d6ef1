------------------------------ MODULE WheelTest ------------------------------
(***************************************************************************)
(* The timing wheel test (vpp-test/test_timing_wheel.c) in synthetic time, *)
(* with validate: events are put into the wheel, the wheel is advanced one *)
(* bin per iteration, what it reports is checked, expired events are set   *)
(* again while iterations are left, and the rest is drained.               *)
(*                                                                         *)
(* The wheel itself is a library.  It is modelled by what the test expects *)
(* of it, so that the properties are about the test's own bookkeeping: it  *)
(* must not reject a wheel that is right.  In synthetic time a bin is one  *)
(* clock.  The statistics of the error are left out.                       *)
(***************************************************************************)
EXTENDS Integers, FiniteSets, FiniteSetsExt

CONSTANTS NumEvents,   \* tm->n_events
          NumIter,     \* tm->n_iter
          MaxIter,     \* bound: iterations until iter-time is over
          MaxAhead     \* bound: bins that an event is set ahead if n_iter is ~0

ASSUME WheelAssumption ==
    /\ NumEvents \in Nat /\ NumIter \in Nat \ {0}
    /\ MaxIter \in Nat /\ MaxAhead \in Nat

Events == 0..(NumEvents - 1)
Ones   == -1                      \* ~0, larger than any number

VARIABLES
    pc,           \* "make", "advance", "check", "replace", "done"
    timed,        \* total_iterate_time is not 0
    n_iter,
    iter,
    i,            \* events made so far
    events,       \* tm->events: the time of each event
    wheel,        \* the events in the wheel
    current,      \* w->current_time_index
    expired,      \* the events the last advance reported and that are not
                  \* yet replaced
    bitmap,       \* expired_bitmap[1]
    min_next,     \* min_next_time[0]
    in_wheel      \* n_events_in_wheel

vars == <<pc, timed, n_iter, iter, i, events, wheel, current, expired, bitmap,
          min_next, in_wheel>>

Init ==
    /\ pc = "make" /\ timed \in BOOLEAN
    /\ n_iter = NumIter /\ iter = 0 /\ i = 0
    /\ events = [j \in Events |-> 0] /\ wheel = {} /\ current = 0
    /\ expired = {} /\ bitmap = {} /\ min_next = Ones /\ in_wheel = 0

-----------------------------------------------------------------------------
(* random_u32() % n_iter                                                   *)
Ahead == 0..(IF n_iter = Ones THEN MaxAhead ELSE n_iter - 1)

(* set_event: the event is put somewhere in the next n_iter bins, the      *)
(* current one included.                                                   *)
SetEvent(j) ==
    /\ \E r \in Ahead : events' = [events EXCEPT ![j] = current + r]
    /\ wheel' = wheel \cup {j}

(* The loop that makes the events.                                         *)
MakeEvent ==
    /\ pc = "make" /\ i < NumEvents
    /\ SetEvent(i)
    /\ i' = i + 1
    /\ UNCHANGED <<pc, timed, n_iter, iter, current, expired, bitmap, min_next,
                   in_wheel>>

(* The start of the iterations.                                            *)
MakeDone ==
    /\ pc = "make" /\ i = NumEvents
    /\ in_wheel' = NumEvents
    /\ n_iter' = IF timed THEN Ones ELSE n_iter
    /\ pc' = "advance"
    /\ UNCHANGED <<timed, iter, i, events, wheel, current, expired, bitmap,
                   min_next>>

IterLeft == n_iter = Ones \/ iter < n_iter

LoopMutant == IterLeft

(* The condition of the for loop.                                          *)
Loop == IterLeft \/ in_wheel > 0

(* The earliest of a set of events, ~0 without one.                        *)
Earliest(S) == IF S = {} THEN Ones ELSE Min({events[j] : j \in S})

(* timing_wheel_advance to cpu_time = iter: what is due is taken out.      *)
Advance ==
    /\ pc = "advance" /\ Loop
    /\ LET due == {j \in wheel : events[j] =< iter} IN
          /\ expired' = due
          /\ wheel' = wheel \ due
          /\ min_next' = Earliest(wheel \ due)
    /\ current' = iter
    /\ pc' = "check"
    /\ UNCHANGED <<timed, n_iter, iter, i, events, bitmap, in_wheel>>

(* clib_bitmap_ori for every event that has expired.                       *)
Marked == bitmap \cup expired

(* n_events_in_wheel -= vec_len(expired)                                   *)
InWheel == in_wheel - Cardinality(expired)

(* The rest of the iteration up to the replacement.  The time that         *)
(* iter-time gives may be over, and is by MaxIter.                         *)
Check ==
    /\ pc = "check"
    /\ bitmap' = Marked
    /\ n_iter' \in IF timed /\ n_iter = Ones
                     THEN {iter} \cup (IF iter < MaxIter THEN {Ones} ELSE {})
                     ELSE {n_iter}
    /\ in_wheel' = InWheel
    /\ pc' = "replace"
    /\ UNCHANGED <<timed, iter, i, events, wheel, current, expired, min_next>>

UnmarkedMutant(j) == bitmap

(* clib_bitmap_andnoti of an event that was set again.                     *)
Unmarked(j) == bitmap \ {j}

(* One turn of the loop that replaces expired events.                      *)
Replace(j) ==
    /\ pc = "replace" /\ IterLeft /\ j \in expired
    /\ SetEvent(j)
    /\ bitmap' = Unmarked(j)
    /\ expired' = expired \ {j}
    /\ in_wheel' = in_wheel + 1
    /\ UNCHANGED <<pc, timed, n_iter, iter, i, current, min_next>>

(* iter++                                                                  *)
IterAfter == iter + 1

EndIteration ==
    /\ pc = "replace" /\ (~IterLeft \/ expired = {})
    /\ expired' = {}
    /\ iter' = IterAfter
    /\ pc' = "advance"
    /\ UNCHANGED <<timed, n_iter, i, events, wheel, current, bitmap, min_next,
                   in_wheel>>

Finish ==
    /\ pc = "advance" /\ ~Loop
    /\ pc' = "done"
    /\ UNCHANGED <<timed, n_iter, iter, i, events, wheel, current, expired,
                   bitmap, min_next, in_wheel>>

-----------------------------------------------------------------------------
Next ==
    \/ MakeEvent \/ MakeDone \/ Advance \/ Check \/ EndIteration \/ Finish
    \/ \E j \in Events : Replace(j)

Spec == Init /\ [][Next]_vars

(* The program runs.                                                       *)
FairSpec == Spec /\ WF_vars(Next)

-----------------------------------------------------------------------------
(* Properties.                                                             *)

TypeOK ==
    /\ pc \in {"make", "advance", "check", "replace", "done"}
    /\ timed \in BOOLEAN /\ n_iter \in Nat \cup {Ones} /\ iter \in Nat
    /\ i \in 0..NumEvents /\ events \in [Events -> Nat]
    /\ wheel \subseteq Events /\ expired \subseteq Events
    /\ bitmap \subseteq Events /\ current \in Nat
    /\ min_next \in Nat \cup {Ones} /\ in_wheel \in 0..NumEvents

After(t, u) == t = Ones \/ t > u

(* The assertions after timing_wheel_advance, which look at all events the *)
(* test knows of, the ones that expired long ago and those set again in    *)
(* the current bin included, hold for a right wheel: min_next_time is past *)
(* every event that is due and not past any other, every event that has    *)
(* just expired did so within one bin, and the events that are due by      *)
(* their time are the ones in the bitmap; nor is "min next time wrong"     *)
(* reported, the minimum over the events not in the bitmap being that of   *)
(* the wheel.                                                              *)
AssertsHold ==
    pc = "check" =>
        LET due == {j \in Events : iter >= events[j]} IN
        /\ \A j \in due : After(min_next, events[j])
        /\ \A j \in Events \ due : ~After(min_next, events[j])
        /\ \A j \in expired : iter - events[j] \in 0..1
        /\ due = Marked
        /\ min_next = Earliest(Events \ Marked)

(* The test ends, and only when every event it has set has expired, also   *)
(* those set in the last iterations.                                       *)
WheelDrains == <>[](pc = "done" /\ wheel = {})
=============================================================================
