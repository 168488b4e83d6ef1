--------------------------- MODULE WheelTestProofs ---------------------------
(***************************************************************************)
(* Proofs about WheelTest, for any number of events and of iterations.     *)
(***************************************************************************)
EXTENDS WheelTest, FiniteSetTheorems, WellFoundedInduction, TLAPS

LEMMA OneBefore ==
    ASSUME NEW x \in Nat, NEW y \in Nat, y < x
    PROVE  <<y, x>> \in OpToRel(<, Nat)
BY DEF OpToRel

(* The earliest of some events is one of them and no later than any.       *)
LEMMA EarliestIs ==
    ASSUME events \in [Events -> Nat], NEW S \in SUBSET Events, S # {}
    PROVE  /\ Earliest(S) \in Nat
           /\ \E j \in S : Earliest(S) = events[j]
           /\ \A j \in S : Earliest(S) =< events[j]
<1> DEFINE T == {events[j] : j \in S}
<1>1. T \subseteq Nat /\ T # {}
  OBVIOUS
<1>2. PICK x \in T : \A y \in T : ~ (<<y, x>> \in OpToRel(<, Nat))
  BY <1>1, NatLessThanWellFounded, WFMin, Zenon
<1>3. \A y \in T : x =< y
  <2> SUFFICES ASSUME NEW y \in T, y < x PROVE FALSE
    BY <1>1
  <2>1. y \in Nat /\ x \in Nat
    BY <1>1
  <2>2. <<y, x>> \in OpToRel(<, Nat)
    BY <2>1, OneBefore
  <2> QED
    BY <1>2, <2>2, Zenon
<1>4. Min(T) \in T /\ \A y \in T : Min(T) =< y
  BY <1>3 DEF Min
<1>5. Earliest(S) = Min(T)
  BY DEF Earliest
<1> HIDE DEF T
<1>6. Earliest(S) \in T /\ \A y \in T : Earliest(S) =< y
  BY <1>4, <1>5
<1> QED
  BY <1>1, <1>6 DEF T

-----------------------------------------------------------------------------
(* The inductive invariant.                                                *)

(* While the events are made the wheel holds those made so far.            *)
Making ==
    pc = "make" =>
        /\ wheel = {j \in Events : j < i}
        /\ bitmap = {} /\ expired = {}
        /\ current = 0 /\ iter = 0 /\ in_wheel = 0

(* Before an advance the bitmap has the events that are not in the wheel,  *)
(* all of them due before; those in the wheel are at most a bin late.      *)
Advancing ==
    pc \in {"advance", "done"} =>
        /\ bitmap = Events \ wheel /\ expired = {}
        /\ \A j \in wheel : events[j] >= iter - 1
        /\ \A j \in bitmap : events[j] < iter
        /\ in_wheel = Cardinality(wheel)

(* After it the events due are not in the wheel; those that have just left *)
(* it are not yet in the bitmap, and still counted.                        *)
Checking ==
    pc = "check" =>
        /\ bitmap \cup expired = Events \ wheel
        /\ \A j \in wheel : events[j] > iter
        /\ \A j \in bitmap : events[j] =< iter
        /\ \A j \in expired : iter - events[j] \in 0..1
        /\ current = iter /\ min_next = Earliest(wheel)
        /\ in_wheel = Cardinality(wheel \cup expired)

(* While events are set again one of them may be due in the current bin,   *)
(* which the advance has left behind.                                      *)
Replacing ==
    pc = "replace" =>
        /\ bitmap = Events \ wheel /\ expired \subseteq bitmap
        /\ \A j \in wheel : events[j] >= iter
        /\ \A j \in bitmap : events[j] =< iter
        /\ current = iter /\ in_wheel = Cardinality(wheel)

(* The test ends only with nothing left in the wheel.                      *)
DoneDrained == pc = "done" => wheel = {}

IInv == TypeOK /\ Making /\ Advancing /\ Checking /\ Replacing /\ DoneDrained
-----------------------------------------------------------------------------
LEMMA Sizes ==
    /\ IsFiniteSet(Events) /\ Cardinality(Events) = NumEvents
    /\ \A S \in SUBSET Events :
          /\ IsFiniteSet(S) /\ Cardinality(S) \in 0..NumEvents
          /\ Cardinality(S) = 0 => S = {}
<1>1. 0 \in Int /\ NumEvents - 1 \in Int /\ NumEvents \in Nat
  BY WheelAssumption
<1>2. /\ IsFiniteSet(0..(NumEvents - 1))
      /\ Cardinality(0..(NumEvents - 1)) =
             IF 0 > NumEvents - 1 THEN 0 ELSE (NumEvents - 1) - 0 + 1
  BY <1>1, FS_Interval, Zenon
<1>3. IsFiniteSet(Events) /\ Cardinality(Events) = NumEvents
  BY <1>1, <1>2 DEF Events
<1>4. ASSUME NEW S \in SUBSET Events
      PROVE  /\ IsFiniteSet(S) /\ Cardinality(S) \in 0..NumEvents
             /\ Cardinality(S) = 0 => S = {}
  <2>1. IsFiniteSet(S) /\ Cardinality(S) =< Cardinality(Events)
    BY <1>3, FS_Subset
  <2>2. Cardinality(S) \in Nat
    BY <2>1, FS_CardinalityType
  <2>3. Cardinality(S) = 0 => S = {}
    BY <2>1, FS_EmptySet
  <2> QED
    BY <1>1, <1>3, <2>1, <2>2, <2>3
<1> QED
  BY <1>3, <1>4

LEMMA InitInv == Init => IInv
<1> SUFFICES ASSUME Init PROVE IInv
  OBVIOUS
<1> USE DEF Init
<1>1. TypeOK
  BY WheelAssumption DEF TypeOK, Ones
<1>2. Making
  BY DEF Making, Events
<1> QED
  BY <1>1, <1>2 DEF IInv, Advancing, Checking, Replacing, DoneDrained

(* An event is set no earlier than the current bin, and no other changes.  *)
LEMMA SetEventSets ==
    ASSUME TypeOK, NEW j \in Events, SetEvent(j)
    PROVE  /\ events' \in [Events -> Nat] /\ events'[j] >= current
           /\ \A k \in Events \ {j} : events'[k] = events[k]
           /\ wheel' = wheel \cup {j} /\ wheel' \subseteq Events
<1>1. PICK r \in Ahead : events' = [events EXCEPT ![j] = current + r]
  BY DEF SetEvent
<1>2. r \in Nat /\ current \in Nat /\ events \in [Events -> Nat]
  BY WheelAssumption DEF TypeOK, Ahead, Ones
<1>3. current + r \in Nat /\ current + r >= current
  BY <1>2
<1>4. wheel' = wheel \cup {j} /\ wheel \subseteq Events
  BY DEF SetEvent, TypeOK
<1> QED
  BY <1>1, <1>2, <1>3, <1>4

LEMMA MakeEventInv == ASSUME IInv, MakeEvent PROVE IInv'
<1> USE DEF MakeEvent
<1>1. i \in Events /\ TypeOK /\ SetEvent(i) /\ i \in Nat
  BY WheelAssumption DEF IInv, TypeOK, Events
<1>2. /\ events' \in [Events -> Nat]
      /\ wheel' = wheel \cup {i} /\ wheel' \subseteq Events
  BY <1>1, SetEventSets
<1>3. i' \in 0..NumEvents
  BY <1>1, WheelAssumption DEF Events
<1>4. TypeOK'
  BY <1>1, <1>2, <1>3 DEF TypeOK
<1>5. wheel' = {j \in Events : j < i'}
  BY <1>1, <1>2 DEF IInv, Making, Events
<1>6. Making'
  BY <1>5 DEF IInv, Making
<1> QED
  BY <1>4, <1>6 DEF IInv, Advancing, Checking, Replacing, DoneDrained

LEMMA MakeDoneInv == ASSUME IInv, MakeDone PROVE IInv'
<1> USE DEF MakeDone
<1>1. wheel = Events /\ bitmap = {} /\ expired = {} /\ iter = 0
  <2>1. \A j \in Events : j < i
    BY WheelAssumption DEF Events
  <2>2. wheel = {j \in Events : j < i} /\ bitmap = {} /\ expired = {} /\ iter = 0
    BY DEF IInv, Making
  <2> QED
    BY <2>1, <2>2
<1>2. TypeOK'
  BY WheelAssumption DEF IInv, TypeOK, Ones
<1>3. \A j \in wheel' : events'[j] >= iter' - 1
  BY <1>1 DEF IInv, TypeOK
<1>4. in_wheel' = Cardinality(wheel')
  BY <1>1, Sizes
<1>5. Advancing'
  BY <1>1, <1>3, <1>4 DEF Advancing
<1> QED
  BY <1>2, <1>5 DEF IInv, Making, Checking, Replacing, DoneDrained

(* What is due leaves the wheel for expired.                               *)
LEMMA AdvanceInv == ASSUME IInv, Advance PROVE IInv'
<1> USE DEF Advance
<1> DEFINE due == {j \in wheel : events[j] =< iter}
<1>1. /\ TypeOK /\ bitmap = Events \ wheel
      /\ \A j \in wheel : events[j] >= iter - 1
      /\ \A j \in bitmap : events[j] < iter
      /\ in_wheel = Cardinality(wheel)
  BY DEF IInv, Advancing
<1>2. /\ due \subseteq wheel /\ wheel \subseteq Events
      /\ expired' = due /\ wheel' = wheel \ due
      /\ min_next' = Earliest(wheel \ due)
  BY <1>1 DEF TypeOK
<1>3. \A j \in due : events[j] =< iter
  OBVIOUS
<1>4. \A j \in wheel \ due : events[j] > iter
  BY <1>1, <1>2 DEF TypeOK
<1> HIDE DEF due
<1>5. min_next' \in Nat \cup {Ones}
  <2>1. CASE wheel \ due = {}
    BY <1>2, <2>1 DEF Earliest
  <2>2. CASE wheel \ due # {}
    BY <1>1, <1>2, <2>2, EarliestIs DEF TypeOK
  <2> QED
    BY <2>1, <2>2
<1>6. TypeOK'
  BY <1>1, <1>2, <1>5 DEF TypeOK
<1>7. min_next' = Earliest(wheel)'
  BY <1>2 DEF Earliest
<1>8. wheel' \cup expired' = wheel
  BY <1>2
<1>9. bitmap' \cup expired' = Events \ wheel'
  BY <1>1, <1>2
<1>10. \A j \in expired' : iter' - events'[j] \in 0..1
  BY <1>1, <1>2, <1>3 DEF TypeOK
<1>11. \A j \in bitmap' : events'[j] =< iter'
  BY <1>1 DEF TypeOK
<1>12. Checking'
  BY <1>1, <1>2, <1>4, <1>7, <1>8, <1>9, <1>10, <1>11 DEF Checking
<1> QED
  BY <1>6, <1>12 DEF IInv, Making, Advancing, Replacing, DoneDrained

LEMMA CheckInv == ASSUME IInv, Check PROVE IInv'
<1> USE DEF Check
<1>1. /\ TypeOK /\ bitmap \cup expired = Events \ wheel
      /\ \A j \in wheel : events[j] > iter
      /\ \A j \in bitmap : events[j] =< iter
      /\ \A j \in expired : iter - events[j] \in 0..1
      /\ current = iter /\ in_wheel = Cardinality(wheel \cup expired)
  BY DEF IInv, Checking
<1>2. /\ events \in [Events -> Nat] /\ iter \in Nat
      /\ wheel \subseteq Events /\ expired \subseteq Events
      /\ bitmap \subseteq Events
  BY <1>1 DEF TypeOK
<1>3. in_wheel' = Cardinality(wheel)
  <2>1. /\ IsFiniteSet(wheel) /\ IsFiniteSet(expired)
        /\ Cardinality(wheel) \in 0..NumEvents
        /\ Cardinality(expired) \in 0..NumEvents
    BY <1>2, Sizes
  <2>2. wheel \cap expired = {}
    BY <1>1
  <2>3. Cardinality(wheel \cup expired) =
            Cardinality(wheel) + Cardinality(expired)
            - Cardinality(wheel \cap expired)
    BY <2>1, FS_Union
  <2>4. Cardinality(wheel \cap expired) = 0
    BY <2>2, FS_EmptySet, Zenon
  <2>5. in_wheel' = in_wheel - Cardinality(expired)
    BY DEF InWheel
  <2> QED
    BY <1>1, <2>1, <2>3, <2>4, <2>5, WheelAssumption
<1>4. in_wheel' \in 0..NumEvents
  BY <1>2, <1>3, Sizes
<1>5. n_iter' \in Nat \cup {Ones}
  BY <1>1 DEF TypeOK
<1>6. bitmap' = Events \ wheel /\ bitmap' = bitmap \cup expired
  BY <1>1 DEF Marked
<1>7. TypeOK'
  BY <1>1, <1>4, <1>5, <1>6 DEF TypeOK
<1>8. \A j \in wheel' : events'[j] >= iter'
  BY <1>1, <1>2
<1>9. \A j \in bitmap' : events'[j] =< iter'
  BY <1>1, <1>2, <1>6
<1>10. Replacing'
  BY <1>1, <1>3, <1>6, <1>8, <1>9 DEF Replacing
<1> QED
  BY <1>7, <1>10 DEF IInv, Making, Advancing, Checking, DoneDrained

LEMMA ReplaceInv == ASSUME IInv, NEW j \in Events, Replace(j) PROVE IInv'
<1> USE DEF Replace
<1>1. /\ TypeOK /\ bitmap = Events \ wheel /\ expired \subseteq bitmap
      /\ \A k \in wheel : events[k] >= iter
      /\ \A k \in bitmap : events[k] =< iter
      /\ current = iter /\ in_wheel = Cardinality(wheel)
  BY DEF IInv, Replacing
<1>2. /\ events \in [Events -> Nat] /\ iter \in Nat
      /\ wheel \subseteq Events
  BY <1>1 DEF TypeOK
<1>3. /\ events' \in [Events -> Nat] /\ events'[j] >= current
      /\ \A k \in Events \ {j} : events'[k] = events[k]
      /\ wheel' = wheel \cup {j} /\ wheel' \subseteq Events
  BY <1>1, SetEventSets
<1>4. j \notin wheel /\ bitmap' = bitmap \ {j} /\ expired' = expired \ {j}
  BY <1>1 DEF Unmarked
<1>5. in_wheel' = Cardinality(wheel')
  <2>1. IsFiniteSet(wheel)
    BY <1>2, Sizes
  <2>2. Cardinality(wheel \cup {j}) = Cardinality(wheel) + 1
    BY <1>4, <2>1, FS_AddElement
  <2> QED
    BY <1>1, <1>3, <2>2
<1>6. in_wheel' \in 0..NumEvents
  BY <1>3, <1>5, Sizes
<1>7. TypeOK'
  BY <1>1, <1>3, <1>4, <1>6 DEF TypeOK
<1>8. bitmap' = Events \ wheel' /\ expired' \subseteq bitmap'
  BY <1>1, <1>3, <1>4
<1>9. \A k \in wheel' : events'[k] >= iter'
  BY <1>1, <1>2, <1>3, <1>4
<1>10. \A k \in bitmap' : events'[k] =< iter'
  BY <1>1, <1>2, <1>3, <1>4
<1>11. Replacing'
  BY <1>1, <1>5, <1>8, <1>9, <1>10 DEF Replacing
<1> QED
  BY <1>7, <1>11 DEF IInv, Making, Advancing, Checking, DoneDrained

LEMMA EndIterationInv == ASSUME IInv, EndIteration PROVE IInv'
<1> USE DEF EndIteration, IterAfter
<1>1. /\ TypeOK /\ bitmap = Events \ wheel
      /\ \A k \in wheel : events[k] >= iter
      /\ \A k \in bitmap : events[k] =< iter
      /\ in_wheel = Cardinality(wheel)
  BY DEF IInv, Replacing
<1>2. TypeOK'
  BY <1>1 DEF TypeOK
<1>3. \A k \in wheel' : events'[k] >= iter' - 1
  BY <1>1 DEF TypeOK
<1>4. \A k \in bitmap' : events'[k] < iter'
  BY <1>1 DEF TypeOK
<1>5. Advancing'
  BY <1>1, <1>3, <1>4 DEF Advancing
<1> QED
  BY <1>2, <1>5 DEF IInv, Making, Checking, Replacing, DoneDrained

LEMMA FinishInv == ASSUME IInv, Finish PROVE IInv'
<1> USE DEF Finish
<1>1. TypeOK /\ Advancing
  BY DEF IInv
<1>2. in_wheel = 0 /\ in_wheel = Cardinality(wheel) /\ wheel \subseteq Events
  BY <1>1, WheelAssumption DEF Loop, TypeOK, Advancing
<1>3. wheel' = {}
  BY <1>2, Sizes
<1>4. TypeOK' /\ Advancing'
  BY <1>1 DEF TypeOK, Advancing
<1> QED
  BY <1>3, <1>4 DEF IInv, Making, Checking, Replacing, DoneDrained

THEOREM Invariance == Spec => []IInv
<1>1. IInv /\ [Next]_vars => IInv'
  <2> SUFFICES ASSUME IInv, [Next]_vars PROVE IInv'
    OBVIOUS
  <2>1. CASE UNCHANGED vars
    BY <2>1 DEF vars, IInv, TypeOK, Making, Advancing, Checking, Replacing,
                DoneDrained, Earliest
  <2> QED
    BY <2>1, MakeEventInv, MakeDoneInv, AdvanceInv, CheckInv, ReplaceInv,
       EndIterationInv, FinishInv DEF Next
<1> QED
  BY InitInv, <1>1, PTL DEF Spec

(* The variables keep their types; n_events_in_wheel never leaves the      *)
(* number of events there are.                                             *)
THEOREM TypeCorrect == Spec => []TypeOK
BY Invariance, PTL DEF IInv

(* The assertions the test makes after timing_wheel_advance hold in every  *)
(* iteration, for any number of events, and wherever they are set again.   *)
THEOREM AssertsCorrect == Spec => []AssertsHold
<1>1. IInv => AssertsHold
  <2> SUFFICES ASSUME IInv, pc = "check" PROVE AssertsHold
    BY DEF AssertsHold
  <2> DEFINE due == {j \in Events : iter >= events[j]}
  <2>1. /\ TypeOK /\ bitmap \cup expired = Events \ wheel
        /\ \A j \in wheel : events[j] > iter
        /\ \A j \in bitmap : events[j] =< iter
        /\ \A j \in expired : iter - events[j] \in 0..1
        /\ min_next = Earliest(wheel)
    BY DEF IInv, Checking
  <2>2. /\ events \in [Events -> Nat] /\ iter \in Nat
        /\ wheel \subseteq Events /\ expired \subseteq Events
    BY <2>1 DEF TypeOK
  <2>3. \A j \in Events : iter >= events[j] <=> j \notin wheel
    BY <2>1, <2>2
  <2>4. due = Events \ wheel
    BY <2>3
  <2>5. due = Marked /\ Events \ Marked = wheel
    BY <2>1, <2>2, <2>4 DEF Marked
  <2>6. \A j \in due : After(min_next, events[j])
    <3>1. CASE wheel = {}
      BY <2>1, <3>1 DEF After, Earliest
    <3>2. CASE wheel # {}
      <4>1. PICK k \in wheel : Earliest(wheel) = events[k]
        BY <2>2, <3>2, EarliestIs
      <4>2. events[k] \in Nat /\ events[k] > iter
        BY <2>1, <2>2
      <4> QED
        BY <2>1, <2>2, <4>1, <4>2 DEF After
    <3> QED
      BY <3>1, <3>2
  <2>7. \A j \in Events \ due : ~After(min_next, events[j])
    <3> SUFFICES ASSUME NEW j \in wheel PROVE ~After(min_next, events[j])
      BY <2>4
    <3>1. Earliest(wheel) \in Nat /\ Earliest(wheel) =< events[j]
      BY <2>2, EarliestIs
    <3> QED
      BY <2>1, <2>2, <3>1 DEF After, Ones
  <2> HIDE DEF due
  <2>8. min_next = Earliest(Events \ Marked)
    BY <2>1, <2>5
  <2> QED
    BY <2>1, <2>5, <2>6, <2>7, <2>8 DEF AssertsHold, due
<1> QED
  BY Invariance, <1>1, PTL

(* The test ends only with no event in the wheel: each one it has set has  *)
(* expired.                                                                *)
THEOREM DrainedCorrect == Spec => []DoneDrained
BY Invariance, PTL DEF IInv
=============================================================================
