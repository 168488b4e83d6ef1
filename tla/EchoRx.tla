------------------------------- MODULE EchoRx --------------------------------
(***************************************************************************)
(* The data path of the UDP echo server (udp-echo/main.c): the event loop  *)
(* server_handle_event_queue and the handler server_handle_fifo_event_rx,  *)
(* for one bound session, against VPP, which fills the session's rx fifo,  *)
(* posts events on the application's message queue and drains the tx fifo, *)
(* all through shared memory and concurrently with the handler.            *)
(*                                                                         *)
(* A byte is named by its position in the received stream, and each end of *)
(* a fifo by the number of bytes that passed it.  time_to_stop is never    *)
(* set (main leaves setup_signal_handlers commented out), so the loops of  *)
(* the handler end only by their other conditions.                         *)
(***************************************************************************)
EXTENDS Integers

CONSTANTS FifoSize,   \* size of the rx and of the tx fifo
          RxBufLen,   \* vec_len(utm->rx_buf)
          MaxBytes    \* bound: bytes VPP delivers in a behaviour

ASSUME SizesAssumption ==
    /\ FifoSize \in Nat \ {0}
    /\ RxBufLen \in Nat \ {0}
    /\ MaxBytes \in Nat

VARIABLES
    have_return,  \* utm->have_return: reflect what is read, or drop it
    pc,           \* where the server thread is
    rx_in,        \* bytes VPP has enqueued in the rx fifo
    rx_out,       \* bytes the server has dequeued from it
    rx_event,     \* has_event flag of the rx fifo
    vpp_notify,   \* VPP has enqueued bytes it has not yet notified
    mq,           \* SESSION_IO_EVT_RX messages on our_event_queue
    max_dequeue,  \* the handler's local variables
    n_read,
    offset,
    rx_buf,       \* stream position of the byte in rx_buf[0]
    tx_data,      \* tx_data[p]: stream position of the p-th byte enqueued
    tx_in,        \* bytes the server has enqueued in the tx fifo
    tx_out,       \* bytes VPP has dequeued from it
    tx_event,     \* has_event flag of the tx fifo: VPP has a TX event
    missed        \* history: rx_in when VPP last found rx_event set between
                  \* the handler's svm_fifo_max_dequeue and unset_event

rxFifo  == <<rx_in, rx_out>>
event   == <<rx_event, vpp_notify, mq, missed>>
locals  == <<max_dequeue, n_read, offset, rx_buf>>
txFifo  == <<tx_data, tx_in, tx_out, tx_event>>
vars    == <<have_return, pc, rxFifo, event, locals, txFifo>>

clib_min(a, b) == IF a < b THEN a ELSE b

(* svm_fifo_max_dequeue of the rx fifo, and the room left in the tx fifo.  *)
RxUsed  == rx_in - rx_out
TxUsed  == tx_in - tx_out
TxSpace == FifoSize - TxUsed

-----------------------------------------------------------------------------
(* main runs the server with an empty bound session; have_return is 0      *)
(* after the no-return argument.                                           *)
Init ==
    /\ have_return \in BOOLEAN
    /\ pc = "wait"
    /\ rx_in = 0 /\ rx_out = 0
    /\ rx_event = FALSE /\ vpp_notify = FALSE /\ mq = 0 /\ missed = 0
    /\ max_dequeue = 0 /\ n_read = 0 /\ offset = 0 /\ rx_buf = 0
    /\ tx_data = [p \in {} |-> 0]
    /\ tx_in = 0 /\ tx_out = 0 /\ tx_event = FALSE

-----------------------------------------------------------------------------
(* The server thread.                                                      *)

(* svm_msg_q_sub(mq, &msg, SVM_Q_WAIT, 0) returns an RX event.             *)
SubMsg ==
    /\ pc = "wait" /\ mq > 0
    /\ mq' = mq - 1
    /\ pc' = "peek"
    /\ UNCHANGED <<have_return, rxFifo, rx_event, vpp_notify, missed, locals,
                   txFifo>>

(* max_dequeue = svm_fifo_max_dequeue(rx_fifo)                             *)
PeekMaxDequeue ==
    /\ pc = "peek"
    /\ max_dequeue' = RxUsed
    /\ pc' = "unset"
    /\ UNCHANGED <<have_return, rxFifo, event, n_read, offset, rx_buf, txFifo>>

UnsetEventMutant ==  \* the flag is never cleared
    /\ pc = "unset"
    /\ pc' = IF max_dequeue = 0 THEN "wait" ELSE "recv"
    /\ UNCHANGED <<have_return, rxFifo, event, locals, txFifo>>

(* svm_fifo_unset_event(rx_fifo), then the early return on an empty fifo;  *)
(* returning frees the message and goes back to the queue.                 *)
UnsetEvent ==
    /\ pc = "unset"
    /\ rx_event' = FALSE
    /\ pc' = IF max_dequeue = 0 THEN "wait" ELSE "recv"
    /\ UNCHANGED <<have_return, rxFifo, vpp_notify, mq, missed, locals, txFifo>>

(* What app_recv_stream_raw(rx_fifo, rx_buf, len) may return: a negative   *)
(* value on an empty fifo, else a number of bytes it has copied.           *)
RecvResults(len) == IF RxUsed = 0 THEN {-2} ELSE 1..clib_min(len, RxUsed)

OuterLoopOnceMutant(n, max_deq) == "wait"
OuterLoopLateMutant(n, max_deq) ==
    IF n < 0 \/ max_deq >= 0 THEN "recv" ELSE "wait"

(* The condition of the outer do-while loop.                               *)
OuterLoop(n, max_deq) == IF n < 0 \/ max_deq > 0 THEN "recv" ELSE "wait"

(* max_dequeue after app_recv_stream_raw returned n.                       *)
LeftToRead(n) == IF n > 0 THEN max_dequeue - n ELSE max_dequeue

(* One app_recv_stream_raw: the bytes at the head of the rx fifo go to the *)
(* start of rx_buf.                                                        *)
Recv ==
    /\ pc = "recv"
    /\ \E n \in RecvResults(clib_min(RxBufLen, max_dequeue)) :
          /\ n_read' = n
          /\ rx_out' = IF n > 0 THEN rx_out + n ELSE rx_out
          /\ max_dequeue' = LeftToRead(n)
          /\ pc' = IF have_return /\ n > 0
                     THEN "send" ELSE OuterLoop(n, LeftToRead(n))
    /\ rx_buf' = rx_out
    /\ offset' = 0
    /\ UNCHANGED <<have_return, rx_in, event, txFifo>>

(* What app_send may return for n bytes: a negative value on a full fifo,  *)
(* else a number of bytes it has enqueued, possibly fewer than asked for.  *)
SendResults(n) == IF TxSpace = 0 THEN {-2} ELSE 1..clib_min(n, TxSpace)

(* The tx fifo's log after the bytes rx_buf[offset .. offset+rv-1].        *)
Enqueued(rv) ==
    [p \in 0..(tx_in + rv - 1) |->
        IF p < tx_in THEN tx_data[p] ELSE rx_buf + offset + (p - tx_in)]

(* app_send also raises the fifo's event when it has enqueued something:   *)
(* send_test_chunk relies on that alone.                                   *)
SentEvent(rv) == rv > 0

LeftToSendMutant(rv) == n_read

(* n_read after app_send returned rv.                                      *)
LeftToSend(rv) == IF rv > 0 THEN n_read - rv ELSE n_read

AdvancedMutant(rv) == offset

(* offset after app_send returned rv.                                      *)
Advanced(rv) == IF rv > 0 THEN offset + rv ELSE offset

InnerLoopMutant(rv, n) == IF rv =< 0 THEN "send" ELSE "txevt"

(* The condition of the inner do-while loop.                               *)
InnerLoop(rv, n) == IF rv =< 0 \/ n > 0 THEN "send" ELSE "txevt"

(* One turn of the inner do-while loop, that sends rx_buf[offset..].       *)
AppSend ==
    /\ pc = "send"
    /\ \E rv \in SendResults(n_read) :
          /\ tx_data' = IF rv > 0 THEN Enqueued(rv) ELSE tx_data
          /\ tx_in' = IF rv > 0 THEN tx_in + rv ELSE tx_in
          /\ tx_event' = (tx_event \/ SentEvent(rv))
          /\ n_read' = LeftToSend(rv)
          /\ offset' = Advanced(rv)
          /\ pc' = InnerLoop(rv, LeftToSend(rv))
    /\ UNCHANGED <<have_return, rxFifo, event, max_dequeue, rx_buf, tx_out>>

(* svm_fifo_set_event(tx_fifo), and the outer loop's condition.            *)
TxEvent ==
    /\ pc = "txevt"
    /\ tx_event' = TRUE
    /\ pc' = OuterLoop(n_read, max_dequeue)
    /\ UNCHANGED <<have_return, rxFifo, event, locals, tx_data, tx_in, tx_out>>

-----------------------------------------------------------------------------
(* VPP, modelled from the way the server uses it.                          *)

(* VPP enqueues n bytes; it notifies at the end of a frame, so it may      *)
(* enqueue again before it does.                                           *)
VppEnqueue(n) ==
    /\ RxUsed + n =< FifoSize /\ rx_in + n =< MaxBytes
    /\ rx_in' = rx_in + n
    /\ vpp_notify' = TRUE
    /\ UNCHANGED <<have_return, pc, rx_out, rx_event, mq, missed, locals, txFifo>>

(* VPP posts an RX event unless the fifo's flag says that one is pending.  *)
VppNotify ==
    /\ vpp_notify
    /\ vpp_notify' = FALSE
    /\ rx_event' = TRUE
    /\ mq' = IF rx_event THEN mq ELSE mq + 1
    /\ missed' = IF rx_event /\ pc = "unset" THEN rx_in ELSE missed
    /\ UNCHANGED <<have_return, pc, rxFifo, locals, txFifo>>

(* VPP serves the TX event: it dequeues n bytes and keeps the event while  *)
(* the fifo is not empty.                                                  *)
VppDrain(n) ==
    /\ tx_event /\ n =< TxUsed
    /\ (n = 0) => (TxUsed = 0)
    /\ tx_out' = tx_out + n
    /\ tx_event' = (n < TxUsed)
    /\ UNCHANGED <<have_return, pc, rxFifo, event, locals, tx_data, tx_in>>

-----------------------------------------------------------------------------
Server == SubMsg \/ PeekMaxDequeue \/ UnsetEvent \/ Recv \/ AppSend \/ TxEvent

Drain == \E n \in 0..FifoSize : VppDrain(n)

Vpp == (\E n \in 1..FifoSize : VppEnqueue(n)) \/ VppNotify \/ Drain

Next == Server \/ Vpp

Spec == Init /\ [][Next]_vars

(* The server thread runs; VPP's frame ends, and VPP keeps transmitting    *)
(* what the server has announced.                                          *)
FairSpec == Spec /\ WF_vars(Server) /\ WF_vars(VppNotify) /\ WF_vars(Drain)

-----------------------------------------------------------------------------
(* Properties.                                                             *)

TypeOK ==
    /\ have_return \in BOOLEAN
    /\ pc \in {"wait", "peek", "unset", "recv", "send", "txevt"}
    /\ rx_in \in Nat /\ rx_out \in Nat /\ missed \in Nat
    /\ rx_event \in BOOLEAN /\ vpp_notify \in BOOLEAN /\ mq \in Nat
    /\ max_dequeue \in Nat /\ n_read \in Int /\ offset \in Nat /\ rx_buf \in Nat
    /\ tx_in \in Nat /\ tx_out \in Nat /\ tx_event \in BOOLEAN
    /\ tx_data \in [0..(tx_in - 1) -> Nat]

(* Every byte in the tx stream is the byte at the same place of the rx     *)
(* stream, whatever partial reads, partial writes and full-fifo retries    *)
(* the two loops of server_handle_fifo_event_rx went through.              *)
EchoExact == \A p \in 0..(tx_in - 1) : tx_data[p] = p

(* Where the reflected bytes are: when the handler is outside its inner    *)
(* loop every byte it has read is in the tx stream, inside it all but the  *)
(* n_read last ones are.                                                   *)
EchoComplete ==
    have_return => tx_in = IF pc = "send" THEN rx_out - n_read ELSE rx_out

(* The snapshot max_dequeue, taken before the flag was cleared and used in *)
(* every later turn of the loop, never promises more than the fifo holds,  *)
(* so app_recv_stream_raw never fails and n_read < 0 never repeats the     *)
(* loop.                                                                   *)
SnapshotSound ==
    /\ pc \in {"unset", "recv", "send", "txevt"} => max_dequeue =< RxUsed
    /\ pc = "recv" => max_dequeue > 0
    /\ n_read >= 0

(* An RX event is on the queue or being handled exactly while the fifo's   *)
(* flag is set: the queue never holds two events of a session.             *)
OneRxEvent ==
    /\ mq =< 1
    /\ rx_event <=> (mq = 1 \/ pc \in {"peek", "unset"})
    /\ mq = 1 => pc \notin {"peek", "unset"}

(* Bytes in the tx fifo always have an event that makes VPP send them.     *)
TxAnnounced == TxUsed > 0 => tx_event

(* When the server sleeps on the queue with unread bytes in its fifo and   *)
(* no event to wake it, then VPP's last notification fell between the      *)
(* handler's svm_fifo_max_dequeue and svm_fifo_unset_event: this is the    *)
(* only window in which a wakeup is lost.                                  *)
Asleep == pc = "wait" /\ mq = 0 /\ ~vpp_notify

LostOnlyInWindow == Asleep /\ RxUsed > 0 => missed = rx_in

(* The comment on svm_fifo_unset_event, "Allow enqueuing of a new event",  *)
(* read as the promise it makes: no bytes wait in the fifo without an      *)
(* event.  It does not hold (see LostOnlyInWindow).                        *)
NoUnreadWithoutEvent == Asleep => RxUsed = 0

(* The server refines the echo service, also when it drops what it reads.  *)
Service == INSTANCE EchoService WITH
               Capacity <- 2 * FifoSize + RxBufLen,
               arrived  <- rx_in,
               left     <- IF have_return THEN tx_out ELSE rx_out

ServiceSpec == Service!Spec

(* Every byte in the fifo when an event is taken off the queue is read: an *)
(* event serves all bytes that precede it, those of lost wakeups included. *)
EventServed ==
    \A p \in 1..MaxBytes : (mq > 0 /\ rx_in >= p) ~> (rx_out >= p)

(* Every byte read is in the end transmitted: the handler gets out of its  *)
(* inner loop, however often the tx fifo was full.                         *)
AllEchoed ==
    \A p \in 1..MaxBytes : (have_return /\ rx_out >= p) ~> (tx_out >= p)
=============================================================================
