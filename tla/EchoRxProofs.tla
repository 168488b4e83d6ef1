---------------------------- MODULE EchoRxProofs -----------------------------
(***************************************************************************)
(* Proofs about EchoRx, for every size of the fifos and of the buffer and  *)
(* for every number of bytes.                                              *)
(***************************************************************************)
EXTENDS EchoRx, TLAPS

(* The two fifos hold between none and FifoSize bytes.                     *)
FifoBounds ==
    /\ 0 =< RxUsed /\ RxUsed =< FifoSize
    /\ 0 =< TxUsed /\ TxUsed =< FifoSize

(* In the inner loop, rx_buf[offset .. offset+n_read-1] are the last bytes *)
(* read and the next to be echoed; a server that drops sends nothing.      *)
Buffer ==
    /\ pc = "send" => /\ n_read > 0
                      /\ offset + n_read =< RxBufLen
                      /\ rx_buf + offset = tx_in
    /\ pc \in {"send", "txevt"} => have_return
    /\ ~have_return => tx_in = 0

(* Bytes beyond those the handler still means to read.                     *)
Beyond == IF pc = "wait" THEN RxUsed ELSE RxUsed - max_dequeue

(* Such bytes without a notification under way or an event on the queue    *)
(* were notified in the window.                                            *)
Window == ~vpp_notify /\ mq = 0 /\ pc # "peek" /\ Beyond > 0 => missed = rx_in

(* The inductive invariant.                                                *)
IInv ==
    /\ TypeOK /\ FifoBounds /\ Buffer /\ Window
    /\ EchoExact /\ EchoComplete /\ SnapshotSound /\ OneRxEvent /\ TxAnnounced

USE SizesAssumption

(* The initial states satisfy the invariant.                               *)
LEMMA InitInv == Init => IInv
<1> SUFFICES ASSUME Init PROVE IInv
  OBVIOUS
<1>1. TypeOK
  <2>1. 0..(0 - 1) = {}
    OBVIOUS
  <2>2. tx_data \in [0..(tx_in - 1) -> Nat]
    BY <2>1 DEF Init
  <2>3. /\ have_return \in BOOLEAN /\ rx_event \in BOOLEAN
        /\ vpp_notify \in BOOLEAN /\ tx_event \in BOOLEAN
    BY Zenon DEF Init
  <2>4. /\ pc \in {"wait", "peek", "unset", "recv", "send", "txevt"}
        /\ rx_in \in Nat /\ rx_out \in Nat /\ missed \in Nat /\ mq \in Nat
        /\ max_dequeue \in Nat /\ n_read \in Int /\ offset \in Nat
        /\ rx_buf \in Nat /\ tx_in \in Nat /\ tx_out \in Nat
    BY DEF Init
  <2> QED BY <2>2, <2>3, <2>4, Zenon DEF TypeOK
<1>2. EchoExact /\ EchoComplete
  BY DEF Init, EchoExact, EchoComplete
<1>3. OneRxEvent
  BY DEF Init, OneRxEvent
<1>4. FifoBounds /\ Buffer /\ Window
  BY DEF Init, FifoBounds, Buffer, Window, Beyond, RxUsed, TxUsed
<1>5. SnapshotSound /\ TxAnnounced
  BY DEF Init, SnapshotSound, TxAnnounced, RxUsed, TxUsed
<1> QED BY <1>1, <1>2, <1>3, <1>4, <1>5 DEF IInv

(* Every step of the server and of VPP preserves it.                       *)
LEMMA NextInv == IInv /\ [Next]_vars => IInv'
<1> SUFFICES ASSUME IInv, [Next]_vars PROVE IInv'
  OBVIOUS
<1> USE DEF IInv, TypeOK, FifoBounds, Buffer, Window, Beyond, EchoExact,
            EchoComplete, SnapshotSound, OneRxEvent, TxAnnounced, RxUsed,
            TxUsed, rxFifo, event, locals, txFifo
<1>1. CASE SubMsg
  BY <1>1 DEF SubMsg
<1>2. CASE PeekMaxDequeue
  BY <1>2 DEF PeekMaxDequeue
<1>3. CASE UnsetEvent
  <2>1. OneRxEvent'
    BY <1>3 DEF UnsetEvent
  <2>2. TypeOK'
    BY <1>3 DEF UnsetEvent
  <2>3. (Buffer /\ Window /\ FifoBounds)'
    BY <1>3 DEF UnsetEvent
  <2>4. (EchoExact /\ EchoComplete)'
    BY <1>3 DEF UnsetEvent
  <2>5. (SnapshotSound /\ TxAnnounced)'
    BY <1>3 DEF UnsetEvent
  <2> QED BY <2>1, <2>2, <2>3, <2>4, <2>5
<1>4. CASE Recv
  <2> PICK n \in RecvResults(clib_min(RxBufLen, max_dequeue)) :
          /\ n_read' = n
          /\ rx_out' = IF n > 0 THEN rx_out + n ELSE rx_out
          /\ max_dequeue' = LeftToRead(n)
          /\ pc' = IF have_return /\ n > 0
                     THEN "send" ELSE OuterLoop(n, LeftToRead(n))
    BY <1>4 DEF Recv
  <2>1. n \in Nat /\ n > 0 /\ n =< RxBufLen /\ n =< max_dequeue
    BY <1>4 DEF Recv, RecvResults, clib_min
  <2>2. /\ n_read' = n /\ rx_out' = rx_out + n /\ max_dequeue' = max_dequeue - n
        /\ pc' = IF have_return THEN "send"
                 ELSE IF max_dequeue - n > 0 THEN "recv" ELSE "wait"
    BY <2>1 DEF LeftToRead, OuterLoop
  <2> QED
    BY <1>4, <2>1, <2>2 DEF Recv
<1>5. CASE AppSend
  <2> PICK rv \in SendResults(n_read) :
          /\ tx_data' = IF rv > 0 THEN Enqueued(rv) ELSE tx_data
          /\ tx_in' = IF rv > 0 THEN tx_in + rv ELSE tx_in
          /\ tx_event' = (tx_event \/ SentEvent(rv))
          /\ n_read' = LeftToSend(rv)
          /\ offset' = Advanced(rv)
          /\ pc' = InnerLoop(rv, LeftToSend(rv))
    BY <1>5 DEF AppSend
  <2>1. CASE rv > 0
    <3>1. rv \in Nat /\ rv =< n_read /\ TxUsed + rv =< FifoSize
      BY <1>5, <2>1 DEF AppSend, SendResults, TxSpace, clib_min
    <3>2. /\ tx_data' = Enqueued(rv) /\ tx_in' = tx_in + rv
          /\ n_read' = n_read - rv /\ offset' = offset + rv
          /\ pc' = IF n_read - rv > 0 THEN "send" ELSE "txevt"
      BY <2>1, <3>1 DEF LeftToSend, Advanced, InnerLoop
    <3>3. /\ tx_data' \in [0..(tx_in' - 1) -> Nat]
          /\ \A p \in 0..(tx_in' - 1) : tx_data'[p] = p
      BY <1>5, <3>1, <3>2 DEF AppSend, Enqueued
    <3>4. tx_event' = TRUE
      BY <2>1, Zenon DEF SentEvent
    <3> QED
      BY <1>5, <3>1, <3>2, <3>3, <3>4 DEF AppSend
  <2>2. CASE ~(rv > 0)
    <3>1. /\ tx_data' = tx_data /\ tx_in' = tx_in /\ tx_event' = tx_event
          /\ n_read' = n_read /\ offset' = offset /\ pc' = "send"
      BY <1>5, <2>2 DEF AppSend, SendResults, TxSpace, clib_min, SentEvent,
                         LeftToSend, Advanced, InnerLoop
    <3> QED
      BY <1>5, <3>1 DEF AppSend
  <2> QED
    BY <2>1, <2>2
<1>6. CASE TxEvent
  BY <1>6 DEF TxEvent, OuterLoop
<1>7. CASE \E n \in 1..FifoSize : VppEnqueue(n)
  BY <1>7 DEF VppEnqueue
<1>8. CASE VppNotify
  <2>1. OneRxEvent'
    BY <1>8 DEF VppNotify
  <2>2. TypeOK'
    <3>1. (vpp_notify \in BOOLEAN /\ rx_event \in BOOLEAN)'
      BY <1>8, Zenon DEF VppNotify
    <3>2. (mq \in Nat /\ missed \in Nat)'
      BY <1>8 DEF VppNotify
    <3> QED BY <1>8, <3>1, <3>2 DEF VppNotify
  <2>3. Window'
    BY <1>8 DEF VppNotify
  <2>4. (Buffer /\ FifoBounds /\ EchoExact /\ EchoComplete)'
    BY <1>8 DEF VppNotify
  <2>5. (SnapshotSound /\ TxAnnounced)'
    BY <1>8 DEF VppNotify
  <2> QED BY <2>1, <2>2, <2>3, <2>4, <2>5
<1>9. CASE Drain
  BY <1>9 DEF Drain, VppDrain
<1>10. CASE UNCHANGED vars
  BY <1>10 DEF vars
<1> QED
  BY <1>1, <1>2, <1>3, <1>4, <1>5, <1>6, <1>7, <1>8, <1>9, <1>10
     DEF Next, Server, Vpp

(* The invariant holds in every reachable state.                           *)
THEOREM Invariance == Spec => []IInv
BY InitInv, NextInv, PTL DEF Spec

(* The variables keep their types, max_dequeue without going below zero.   *)
THEOREM TypeCorrect == Spec => []TypeOK
<1>1. IInv => TypeOK
  BY DEF IInv
<1> QED
  BY Invariance, <1>1, PTL

(* server_handle_fifo_event_rx reflects exactly the bytes it reads, in     *)
(* order, none twice and none left out.                                    *)
THEOREM EchoCorrect == Spec => [](EchoExact /\ EchoComplete)
<1>1. IInv => EchoExact /\ EchoComplete
  BY DEF IInv
<1> QED
  BY Invariance, <1>1, PTL

(* The stale snapshot max_dequeue is never larger than the fifo's content. *)
THEOREM SnapshotCorrect == Spec => []SnapshotSound
<1>1. IInv => SnapshotSound
  BY DEF IInv
<1> QED
  BY Invariance, <1>1, PTL

(* The queue holds at most one event of the session, and bytes to transmit *)
(* always have theirs.                                                     *)
THEOREM EventsCorrect == Spec => [](OneRxEvent /\ TxAnnounced)
<1>1. IInv => OneRxEvent /\ TxAnnounced
  BY DEF IInv
<1> QED
  BY Invariance, <1>1, PTL

(* A wakeup is lost only between svm_fifo_max_dequeue and                  *)
(* svm_fifo_unset_event.                                                   *)
THEOREM WindowOnly == Spec => []LostOnlyInWindow
<1>1. IInv => LostOnlyInWindow
  BY DEF IInv, Window, Beyond, LostOnlyInWindow, Asleep
<1> QED
  BY Invariance, <1>1, PTL

-----------------------------------------------------------------------------
(* The server implements the echo service: bytes leave in order, none      *)
(* before it arrived, and it holds at most two fifos and a buffer of them. *)
THEOREM Refinement == Spec => ServiceSpec
<1> DEFINE Cap == 2 * FifoSize + RxBufLen
           left == IF have_return THEN tx_out ELSE rx_out
<1>1. Init => Service!Init
  BY DEF Init, Service!Init
<1>2. IInv /\ IInv' /\ [Next]_vars => [Service!Next]_(Service!vars)
  <2> SUFFICES ASSUME IInv, IInv', [Next]_vars
               PROVE  \/ Service!Next
                      \/ rx_in' = rx_in /\ left' = left
    BY DEF Service!vars
  <2> USE DEF rxFifo, event, locals, txFifo
  <2>0. /\ have_return \in BOOLEAN /\ rx_in \in Nat /\ rx_out \in Nat
        /\ tx_in \in Nat /\ tx_out \in Nat /\ n_read \in Int
        /\ rx_in - rx_out \in 0..FifoSize /\ tx_in - tx_out \in 0..FifoSize
    BY DEF IInv, TypeOK, FifoBounds, RxUsed, TxUsed
  <2>1. ASSUME have_return PROVE rx_out - tx_in \in 0..RxBufLen
    <3>1. tx_in = IF pc = "send" THEN rx_out - n_read ELSE rx_out
      BY <2>1 DEF IInv, EchoComplete
    <3>2. offset \in Nat /\ (pc = "send" => n_read > 0 /\ offset + n_read =< RxBufLen)
      BY DEF IInv, Buffer, TypeOK
    <3> QED BY <3>1, <3>2, <2>0
  <2>2. /\ rx_in - left \in 0..Cap /\ left \in Nat
        /\ left =< rx_in
    BY <2>0, <2>1
  <2>3. CASE SubMsg \/ PeekMaxDequeue \/ UnsetEvent \/ AppSend \/ TxEvent
             \/ VppNotify \/ UNCHANGED vars
    <3>1. UNCHANGED <<have_return, rx_in, rx_out, tx_out>>
      BY <2>3 DEF SubMsg, PeekMaxDequeue, UnsetEvent, AppSend, TxEvent,
                  VppNotify, vars
    <3> QED
      BY <3>1
  <2>4. CASE Recv
    <3>1. CASE have_return
      BY <2>4, <3>1 DEF Recv
    <3>2. CASE ~have_return
      <4> PICK n \in RecvResults(clib_min(RxBufLen, max_dequeue)) :
             rx_out' = IF n > 0 THEN rx_out + n ELSE rx_out
        BY <2>4 DEF Recv
      <4>1. n \in 1..RxUsed
        BY <2>4, <2>0 DEF Recv, RecvResults, clib_min, RxUsed, IInv, TypeOK,
                          SnapshotSound
      <4>2. n \in 1..Cap /\ left + n =< rx_in
        BY <4>1, <2>0, <3>2 DEF RxUsed
      <4>3. left' = left + n /\ rx_in' = rx_in
        BY <4>1, <2>0, <3>2, <2>4 DEF Recv, RxUsed
      <4>4. Service!Leave(n)
        BY <4>2, <4>3 DEF Service!Leave
      <4> QED
        BY <4>2, <4>4 DEF Service!Next
    <3> QED
      BY <3>1, <3>2, <2>0
  <2>5. ASSUME NEW n \in 1..FifoSize, VppEnqueue(n)
        PROVE  Service!Next
    <3>1. rx_in' = rx_in + n /\ left' = left
      BY <2>5 DEF VppEnqueue
    <3>2. n \in 1..Cap
      BY <2>5
    <3>3. have_return => rx_in - tx_out + n =< Cap
      BY <2>1, <2>0, <2>5 DEF VppEnqueue, RxUsed
    <3>4. ~have_return => rx_in - rx_out + n =< Cap
      BY <2>0, <2>5 DEF VppEnqueue, RxUsed
    <3>5. Service!Arrive(n)
      BY <3>1, <3>3, <3>4, <2>0, <2>5 DEF Service!Arrive
    <3> QED
      BY <3>2, <3>5 DEF Service!Next
  <2>6. ASSUME NEW n \in 0..FifoSize, VppDrain(n)
        PROVE  Service!Next \/ (rx_in' = rx_in /\ left' = left)
    <3>1. CASE have_return /\ n > 0
      <4>1. n \in 1..Cap
        BY <3>1, <2>6
      <4>2. left' = left + n /\ rx_in' = rx_in /\ left + n =< rx_in
        BY <3>1, <2>6, <2>1, <2>0 DEF VppDrain, TxUsed
      <4>3. Service!Leave(n)
        BY <4>2 DEF Service!Leave
      <4> QED
        BY <4>1, <4>3 DEF Service!Next
    <3>2. CASE ~(have_return /\ n > 0)
      BY <3>2, <2>6, <2>0 DEF VppDrain
    <3> QED
      BY <3>1, <3>2
  <2> QED
    BY <2>3, <2>4, <2>5, <2>6 DEF Next, Server, Vpp, Drain
<1> QED
  BY <1>1, <1>2, Invariance, PTL DEF Spec, ServiceSpec, Service!Spec
=============================================================================
