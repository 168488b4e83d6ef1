----------------------------- MODULE EchoClient ------------------------------
(***************************************************************************)
(* The data path of the udp-echo client (udp-echo/main.c): client_send_data*)
(* with send_test_chunk and recv_test_chunk, on a cut-through session,     *)
(* whose fifos the client shares with the echoing peer.  UdpEchoControl    *)
(* calls it once the session is there.                                     *)
(*                                                                         *)
(* The client spins: neither loop waits for anything but the clock.  The   *)
(* peer, external, reads what it has room for, and when it reflects puts   *)
(* all of it back before it reads again, as EchoRx does.                   *)
(***************************************************************************)
EXTENDS Integers, Sequences

CONSTANTS
    BufLen,       \* vec_len(utm->connect_test_data), and of rx_buf
    CtFifoSize,   \* size of each of the two fifos
    PeerBuf,      \* bytes the peer reads at once
    Totals        \* values of utm->bytes_to_send tried

ASSUME ClientAssumption ==
    {BufLen, CtFifoSize, PeerBuf} \subseteq Nat \ {0} /\ Totals \subseteq Nat

VARIABLES
    have_return,    \* utm->have_return
    reflects,       \* the peer sends back what it reads
    cpc,            \* where client_send_data is
    bytes_to_send, bytes_sent,
    log,            \* indices into test_data of the bytes enqueued so far
    tx_used, rx_used,    \* bytes in the two fifos
    held            \* bytes the peer has read and not yet put back

option   == <<have_return, reflects>>
fifos    == <<tx_used, rx_used, held>>
progress == <<bytes_to_send, bytes_sent, log>>
client   == <<option, cpc, progress, fifos>>

Least(a, b) == IF a < b THEN a ELSE b

InitClient ==
    /\ have_return \in BOOLEAN /\ reflects \in BOOLEAN
    /\ cpc = "idle"
    /\ bytes_to_send \in Totals /\ bytes_sent = 0 /\ log = <<>>
    /\ tx_used = 0 /\ rx_used = 0 /\ held = 0

(* The condition of the first loop; past it, the five seconds, if any.     *)
AtLoop(left) ==
    IF left > 0 THEN "chunk" ELSE IF have_return THEN "drain" ELSE "done"

BeginSend ==
    /\ cpc = "idle"
    /\ cpc' = AtLoop(bytes_to_send)
    /\ UNCHANGED <<option, progress, fifos>>

ChunkMutant ==  \* not cut at the end of test_data
    Least(bytes_to_send, CtFifoSize - tx_used)

(* bytes_this_chunk                                                        *)
Chunk ==
    Least(Least(BufLen - (bytes_sent % BufLen), bytes_to_send),
          CtFifoSize - tx_used)

(* app_send of a chunk: nothing on a full fifo.                            *)
Written == IF Chunk = 0 THEN {0} ELSE 1..Chunk

(* send_test_chunk                                                         *)
SendTestChunk ==
    /\ cpc = "chunk"
    /\ \E written \in Written :
          /\ bytes_to_send' = bytes_to_send - written
          /\ bytes_sent' = bytes_sent + written
          /\ log' = log \o [k \in 1..written |-> (bytes_sent % BufLen) + k - 1]
          /\ tx_used' = tx_used + written
          /\ cpc' = IF have_return THEN "recv" ELSE AtLoop(bytes_to_send')
    /\ UNCHANGED <<option, rx_used, held>>

(* What app_recv of n bytes leaves in the fifo.                            *)
Received(n) == rx_used - n

(* recv_test_chunk, in the first loop and in the second: what is there is  *)
(* dropped.                                                                *)
RecvTestChunk ==
    /\ cpc \in {"recv", "drain"}
    /\ rx_used' = Received(Least(BufLen, rx_used))
    /\ cpc' = IF cpc = "recv" THEN AtLoop(bytes_to_send) ELSE cpc
    /\ UNCHANGED <<option, progress, tx_used, held>>

(* Five seconds have passed, whatever has come back.                       *)
DrainOver ==
    /\ cpc = "drain"
    /\ cpc' = "done"
    /\ UNCHANGED <<option, progress, fifos>>

-----------------------------------------------------------------------------
(* The peer.                                                               *)

PeerRead ==
    /\ tx_used > 0 /\ held = 0
    /\ LET n == Least(PeerBuf, tx_used) IN
          /\ tx_used' = tx_used - n
          /\ held' = IF reflects THEN n ELSE 0
    /\ UNCHANGED <<option, cpc, progress, rx_used>>

PeerWrite ==
    /\ held > 0 /\ rx_used < CtFifoSize
    /\ LET n == Least(held, CtFifoSize - rx_used) IN
          /\ held' = held - n
          /\ rx_used' = rx_used + n
    /\ UNCHANGED <<option, cpc, progress, tx_used>>

Peer == PeerRead \/ PeerWrite

-----------------------------------------------------------------------------
(* Properties.                                                             *)

(* The byte at position k of the stream is test_data[k % test_buf_len],    *)
(* and none lies past the end of test_data, however the chunks were cut by *)
(* the buffer's end, the fifo's room and the bytes left.                   *)
PatternSent ==
    /\ Len(log) = bytes_sent
    /\ \A k \in 1..Len(log) : log[k] = (k - 1) % BufLen

(* A client that asked for no return while its peer reflects everything    *)
(* can send what the fifos and the peer hold, and no more: nobody reads    *)
(* what comes back.                                                        *)
Choked ==
    /\ ~have_return /\ reflects
    /\ bytes_sent + bytes_to_send > 2 * CtFifoSize + PeerBuf
=============================================================================
