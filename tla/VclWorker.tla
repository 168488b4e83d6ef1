------------------------------ MODULE VclWorker ------------------------------
(***************************************************************************)
(* One worker of the VCL test server (vcl-test-server/main.c) on a stream  *)
(* protocol: the event loop vts_worker_loop with the handlers it calls,    *)
(* the worker's connection pool, its epoll set and its count nfds, against *)
(* clients that connect, configure a test, send data, read or do not read  *)
(* what is sent back, ask to exit, close or reset, at any time.            *)
(*                                                                         *)
(* Bytes are counted in units of one configuration message.  Buffers, the  *)
(* clock, the printed statistics and the proto == UDP branch are left out. *)
(***************************************************************************)
EXTENDS Integers, FiniteSets, Sequences

CONSTANTS
    Fds,         \* the session handles VCL hands out
    NoFd,        \* conn->fd of a slot that is zeroed
    InitSlots,   \* VCL_TEST_CFG_MAX_TEST_SESS + 1
    MaxSlots,    \* bound: realloc fails for a larger pool
    MaxEvents,   \* VCL_TEST_CFG_MAX_EPOLL_EVENTS
    ExpectMin,   \* the 128 of vts_conn_expect_config, in units
    Total,       \* cfg.total_bytes, in units
    Cfgs,        \* kinds of configuration messages that clients send
    StreamUnits, \* units of data that follow a stream configuration
    TxRoom,      \* units VCL takes for a client that does not read them
    MaxConns     \* bound: connections made in a behaviour

ASSUME VclAssumption ==
    /\ IsFiniteSet(Fds) /\ NoFd \notin Fds
    /\ InitSlots \in Nat \ {0} /\ MaxSlots \in Nat /\ InitSlots =< MaxSlots
    /\ MaxEvents \in Nat \ {0} /\ ExpectMin \in Nat /\ Total \in Nat \ {0}
    /\ ExpectMin =< Total + 1 /\ MaxConns \in Nat
    /\ Cfgs \subseteq {"UNI", "BI", "ECHO", "NONE", "EXIT", "OTHER", "BAD"}
    /\ StreamUnits \subseteq 0..Total /\ TxRoom \in Nat \ {0}

(* A configuration message is shorter than the 128 bytes, and the client   *)
(* of a stream test sends all of total_bytes, or no data (on its control   *)
(* session).                                                               *)
ASSUME StreamAssumption == ExpectMin > 1 /\ StreamUnits \subseteq {0, Total}

VARIABLES
    use_ds,     \* vsm->use_ds, option -s: read segments in place
    pc,         \* "loop": in the for loop, "read": at read_again,
                \* "write": in a vcl_test_write of data, "done"
    failed,     \* the worker went through the label fail
    batch,      \* the entries of wait_events not yet handled
    cur,        \* the slot conn points to at "read" and "write"
    size,       \* wrk->conn_pool_size
    alloc,      \* the slots with is_alloc = 1
    slot_fd,    \* conn->fd of each slot
    test,       \* conn->cfg.test
    rx,         \* conn->stats.rx_bytes, in units, up to Total + 1
    nfds,       \* wrk->nfds
    ep,         \* the epoll set: slot registered as data of a handle
    peer,       \* what VCL knows of the client behind a handle
    inbox,      \* messages of the client that are not yet read
    to_send,    \* data units the client has still to send
    tx,         \* units written back that the client has not read
    awaits,     \* the client waits for the reply to a configuration
    backlog,    \* connections waiting to be accepted
    conns,      \* connections made so far
    leaked,     \* history: slots abandoned with is_alloc = 1
    tainted,    \* history: slots allocated again after conn_pool_free, or
                \* that had a configuration which clears no statistics
    swallowed   \* history: clients whose configuration was taken for data

pool    == <<size, alloc, slot_fd>>
conn    == <<test, rx>>
clients == <<peer, inbox, to_send, tx, awaits, backlog, conns>>
history == <<leaked, tainted, swallowed>>
vars    == <<use_ds, pc, failed, batch, cur, pool, conn, nfds, ep, clients, history>>

Slots  == 0..(MaxSlots - 1)
LISTEN == -1                       \* data.u32 = ~0
NoSlot == -2                       \* not in the epoll set
Msgs   == Cfgs \cup {"DATA"}
Streams == {"UNI", "BI"}           \* the stream tests

Registered == {f \in Fds : ep[f] # NoSlot}

-----------------------------------------------------------------------------
(* vts_worker_init: the pool expanded from nothing, the listener in epoll. *)
Init ==
    /\ use_ds \in BOOLEAN
    /\ pc = "loop" /\ failed = FALSE /\ batch = {} /\ cur = 0
    /\ size = InitSlots /\ alloc = {}
    /\ slot_fd = [i \in Slots |-> NoFd]
    /\ test = [i \in Slots |-> "NONE"] /\ rx = [i \in Slots |-> 0]
    /\ nfds = 0 /\ ep = [f \in Fds |-> NoSlot]
    /\ peer = [f \in Fds |-> "none"] /\ inbox = [f \in Fds |-> <<>>]
    /\ to_send = [f \in Fds |-> 0] /\ tx = [f \in Fds |-> 0]
    /\ awaits = [f \in Fds |-> FALSE]
    /\ backlog = 0 /\ conns = 0
    /\ leaked = {} /\ tainted = {} /\ swallowed = {}

-----------------------------------------------------------------------------
(* VCL's epoll, external: level-triggered, one entry per session.          *)

(* The events VCL may report for a session: HUP once the peer is gone (an  *)
(* aborted session may show as an error alone), IN while data is unread.   *)
Events(f) ==
    CASE peer[f] = "reset"  -> {"HUP", "ERR"}
      [] peer[f] = "closed" -> {"HUP"}
      [] OTHER              -> IF inbox[f] # <<>> THEN {"IN"} ELSE {}

(* An entry for each source that has something to report.                  *)
ReadyFds == {f \in Registered : Events(f) # {}}
Ready(choice) ==
    {[data |-> ep[f], events |-> choice[f]] : f \in ReadyFds}
        \cup (IF backlog > 0 THEN {[data |-> LISTEN, events |-> "IN"]} ELSE {})

(* vppcom_epoll_wait fills wait_events with at most MaxEvents entries.  Its *)
(* timeout, num_ev = 0, changes nothing.                                   *)
EpollWait ==
    /\ pc = "loop" /\ batch = {}
    /\ \E choice \in [ReadyFds -> {"HUP", "ERR", "IN"}] :
          /\ \A f \in ReadyFds : choice[f] \in Events(f)
          /\ \E b \in SUBSET Ready(choice) :
                /\ b # {}
                /\ \/ b = Ready(choice) /\ Cardinality(b) =< MaxEvents
                   \/ Cardinality(b) = MaxEvents
                /\ batch' = b
    /\ UNCHANGED <<pc, failed, cur, pool, conn, nfds, ep, clients, history>>

(* num_ev < 0                                                              *)
EpollFail ==
    /\ pc = "loop" /\ batch = {}
    /\ pc' = "done" /\ failed' = TRUE
    /\ UNCHANGED <<batch, cur, pool, conn, nfds, ep, clients, history>>

-----------------------------------------------------------------------------
(* vppcom_session_close(f): the session leaves VCL and its epoll set.      *)
SessionClose(f) ==
    /\ ep' = [ep EXCEPT ![f] = NoSlot]
    /\ peer' = [peer EXCEPT ![f] = "none"]
    /\ inbox' = [inbox EXCEPT ![f] = <<>>]
    /\ to_send' = [to_send EXCEPT ![f] = 0] /\ tx' = [tx EXCEPT ![f] = 0]
    /\ awaits' = [awaits EXCEPT ![f] = FALSE]
    /\ swallowed' = swallowed \ {f}
    /\ UNCHANGED <<backlog, conns>>

NfdsAfterCloseMutant == nfds

NfdsAfterClose == nfds - 1

AfterCloseEarlyMutant == IF nfds = 0 THEN "done" ELSE "loop"

(* The test of !wrk->nfds after a connection was closed.                   *)
AfterClose == IF NfdsAfterClose = 0 THEN "done" ELSE "loop"

HupSessionMutant(e) == slot_fd[cur]

(* conn->fd for the entry e.                                               *)
HupSession(e) == slot_fd[e.data]

(* EPOLLHUP or EPOLLRDHUP: the session is closed, its slot stays allocated.*)
HandleHup(e) ==
    /\ pc = "loop" /\ e \in batch /\ e.events = "HUP"
    /\ SessionClose(HupSession(e))
    /\ nfds' = NfdsAfterClose
    /\ pc' = AfterClose
    /\ batch' = batch \ {e}
    /\ leaked' = leaked \cup {e.data}
    /\ UNCHANGED <<failed, cur, pool, conn, tainted>>

(* conn_pool_expand by twice the size, up to the bound.                    *)
Expanded == IF 3 * size =< MaxSlots THEN 3 * size ELSE size

(* conn_pool_size when conn_pool_alloc returns.                            *)
SizeAfterAlloc ==
    IF \E i \in Slots : i < size /\ i \notin alloc THEN size ELSE Expanded

(* Slot i is the first one with is_alloc = 0.                              *)
FirstFree(i) ==
    /\ i < SizeAfterAlloc /\ i \notin alloc
    /\ \A j \in Slots : j < i => j \in alloc

(* vts_new_client without a slot to give, because realloc failed: the      *)
(* connection stays pending.                                               *)
NewClientNoSlot(e) ==
    /\ pc = "loop" /\ e \in batch /\ e.data = LISTEN
    /\ \A i \in Slots : i < size => i \in alloc
    /\ batch' = batch \ {e}
    /\ UNCHANGED <<pc, failed, cur, pool, conn, nfds, ep, clients, history>>

(* conn_pool_alloc of slot i.                                              *)
ConnPoolAlloc(i) ==
    /\ FirstFree(i)
    /\ size' = SizeAfterAlloc
    /\ alloc' = alloc \cup {i}
    /\ tainted' = IF rx[i] = 0 THEN tainted ELSE tainted \cup {i}

(* vppcom_session_accept fails, the pending connection is gone.            *)
NewClientNoAccept(e, i) ==
    /\ pc = "loop" /\ e \in batch /\ e.data = LISTEN
    /\ ConnPoolAlloc(i)
    /\ backlog > 0 /\ backlog' = backlog - 1
    /\ batch' = batch \ {e}
    /\ leaked' = leaked \cup {i}
    /\ UNCHANGED <<pc, failed, cur, slot_fd, conn, nfds, ep, peer, inbox,
                   to_send, tx, awaits, conns, swallowed>>

(* vppcom_session_accept returns the handle f.                             *)
Accept(f) ==
    /\ backlog > 0 /\ backlog' = backlog - 1
    /\ peer[f] = "none"
    /\ peer' = [peer EXCEPT ![f] = "up"]
    /\ UNCHANGED <<inbox, to_send, tx, awaits, conns>>

ConnFdMutant(i, f) == slot_fd

(* conn->fd = client_fd                                                    *)
ConnFd(i, f) == [slot_fd EXCEPT ![i] = f]

(* vppcom_epoll_ctl fails: the session stays open, in no epoll set.        *)
NewClientNoEpoll(e, i, f) ==
    /\ pc = "loop" /\ e \in batch /\ e.data = LISTEN
    /\ ConnPoolAlloc(i) /\ Accept(f)
    /\ slot_fd' = ConnFd(i, f)
    /\ batch' = batch \ {e}
    /\ leaked' = leaked \cup {i}
    /\ UNCHANGED <<pc, failed, cur, conn, nfds, ep, swallowed>>

(* vts_new_client                                                          *)
NewClient(e, i, f) ==
    /\ pc = "loop" /\ e \in batch /\ e.data = LISTEN
    /\ ConnPoolAlloc(i) /\ Accept(f)
    /\ slot_fd' = ConnFd(i, f)
    /\ ep' = [ep EXCEPT ![f] = i]
    /\ nfds' = nfds + 1
    /\ batch' = batch \ {e}
    /\ UNCHANGED <<pc, failed, cur, conn, leaked, swallowed>>

(* An entry with EPOLLIN for a connection.                                 *)
HandleIn(e) ==
    /\ pc = "loop" /\ e \in batch /\ e.data # LISTEN /\ e.events = "IN"
    /\ cur' = e.data
    /\ pc' = "read"
    /\ batch' = batch \ {e}
    /\ UNCHANGED <<failed, pool, conn, nfds, ep, clients, history>>

(* An entry with neither: "Unhandled event".                               *)
HandleOther(e) ==
    /\ pc = "loop" /\ e \in batch /\ e.events = "ERR"
    /\ pc' = "done" /\ failed' = TRUE
    /\ UNCHANGED <<batch, cur, pool, conn, nfds, ep, clients, history>>

-----------------------------------------------------------------------------
(* At the label read_again.                                                *)

(* vts_conn_read fails with ECONNRESET: the whole worker fails.            *)
ReadReset ==
    /\ pc = "read" /\ peer[slot_fd[cur]] = "reset"
    /\ pc' = "done" /\ failed' = TRUE
    /\ UNCHANGED <<batch, cur, pool, conn, nfds, ep, clients, history>>

(* It fails otherwise (VCL may refuse a read once the peer has closed).    *)
ReadError ==
    /\ pc = "read" /\ peer[slot_fd[cur]] = "closed"
    /\ pc' = "loop"
    /\ UNCHANGED <<failed, batch, cur, pool, conn, nfds, ep, clients, history>>

(* stats.rx_bytes after a read, which counts before it is looked at.       *)
Counted(n) == IF n > Total THEN n ELSE n + 1

ExpectConfigMutant(t, n) == t = "ECHO" \/ n > Total

(* vts_conn_expect_config                                                  *)
ExpectConfig(t, n) == t = "ECHO" \/ n < ExpectMin \/ n > Total

(* The next message of the connection at slot cur is m.                    *)
Reads(f, m) ==
    /\ pc = "read" /\ f = slot_fd[cur] /\ peer[f] \in {"up", "closed"}
    /\ inbox[f] # <<>> /\ m = Head(inbox[f])

(* It is a configuration message where one is expected.                    *)
IsConfig(m) == ExpectConfig(test[cur], Counted(rx[cur])) /\ m \in Cfgs

(* Configurations that leave conn->cfg alone: of the wrong size, or of an  *)
(* unknown test type.                                                      *)
Refused == {"BAD", "OTHER"}

(* conn->cfg.test after vts_handle_cfg.                                    *)
TestAfter(m) == IF m \in Refused THEN test[cur] ELSE m

(* stats.rx_bytes after it: only vts_server_start_stop clears them.        *)
RxAfter(m) == IF m \in Streams THEN 0 ELSE Counted(rx[cur])

(* An unknown test type gets a warning and no reply.                       *)
Replies(m) == m # "OTHER"

(* After these the count goes on, though a test may not have begun.        *)
KeepsCount == Refused \cup {"NONE"}

(* vts_handle_cfg for all messages but EXIT.  The reply does not block: a  *)
(* client that waits for it reads.                                         *)
HandleCfg(f, m) ==
    /\ Reads(f, m) /\ IsConfig(m) /\ m # "EXIT"
    /\ inbox' = [inbox EXCEPT ![f] = Tail(inbox[f])]
    /\ test' = [test EXCEPT ![cur] = TestAfter(m)]
    /\ rx' = [rx EXCEPT ![cur] = RxAfter(m)]
    /\ awaits' = [awaits EXCEPT ![f] = ~Replies(m)]
    /\ pc' = "loop"
    /\ tainted' = IF m \in KeepsCount THEN tainted \cup {cur} ELSE tainted
    /\ UNCHANGED <<failed, batch, cur, pool, nfds, ep, peer, to_send, tx,
                   backlog, conns, leaked, swallowed>>

FreedMutant == alloc

(* The allocated slots after conn_pool_free.                               *)
Freed == alloc \ {cur}

(* vts_handle_cfg for EXIT: close, conn_pool_free; cfg and stats stay.     *)
HandleExit(f) ==
    /\ Reads(f, "EXIT") /\ IsConfig("EXIT")
    /\ SessionClose(f)
    /\ alloc' = Freed
    /\ slot_fd' = [slot_fd EXCEPT ![cur] = NoFd]
    /\ nfds' = NfdsAfterClose
    /\ rx' = [rx EXCEPT ![cur] = Counted(rx[cur])]
    /\ pc' = AfterClose
    /\ UNCHANGED <<failed, batch, cur, size, test, leaked, tainted>>

ConsumedMutant(f) ==  \* no vppcom_session_free_segments in vts_server_rx
    IF use_ds THEN inbox[f] ELSE Tail(inbox[f])

(* What data leaves to be read: vts_server_rx frees the segments that were *)
(* read in place, vts_server_echo and the warning do not.                  *)
Consumed(f) ==
    IF use_ds /\ test[cur] \notin Streams THEN inbox[f] ELSE Tail(inbox[f])

(* A stream test is read again while VPPCOM_ATTR_GET_NREAD is positive.    *)
AfterData(unread) ==
    IF test[cur] \in Streams /\ unread # <<>> THEN "read" ELSE "loop"

(* vts_server_rx sends back the data of a bidirectional test; outside of   *)
(* stream tests vts_server_echo does, if vts_conn_has_ascii.               *)
WritesBack(ascii) == test[cur] = "BI" \/ (test[cur] \notin Streams /\ ascii)

(* Any other message is data: vts_server_rx, up to its write, in a stream  *)
(* test; vts_server_echo, up to its write, or a warning otherwise.         *)
HandleData(f, m) ==
    /\ Reads(f, m) /\ ~IsConfig(m)
    /\ inbox' = [inbox EXCEPT ![f] = Consumed(f)]
    /\ rx' = [rx EXCEPT ![cur] = Counted(rx[cur])]
    /\ \E ascii \in BOOLEAN :
          pc' = IF WritesBack(ascii) THEN "write" ELSE AfterData(Consumed(f))
    /\ swallowed' = IF m \in Cfgs THEN swallowed \cup {f} ELSE swallowed
    /\ UNCHANGED <<failed, batch, cur, pool, test, nfds, ep, peer, to_send, tx,
                   awaits, backlog, conns, leaked, tainted>>

(* The session takes a write from a client that is up while it has room,   *)
(* or while the client waits for a reply, which it does by reading.        *)
HasRoom(f) == awaits[f] \/ tx[f] < TxRoom

(* vcl_test_write of the data and the rest of vts_server_rx or             *)
(* vts_server_echo.  The session is blocking: the worker waits for room.   *)
(* To a client that is gone the write fails, which is ignored.             *)
WriteBack(f) ==
    /\ pc = "write" /\ f = slot_fd[cur]
    /\ peer[f] = "up" => HasRoom(f)
    /\ tx' = [tx EXCEPT ![f] = IF peer[f] = "up" /\ ~awaits[f] THEN tx[f] + 1
                               ELSE tx[f]]
    /\ pc' = AfterData(inbox[f])
    /\ UNCHANGED <<failed, batch, cur, pool, conn, nfds, ep, peer, inbox,
                   to_send, awaits, backlog, conns, history>>

-----------------------------------------------------------------------------
(* The clients, external.                                                  *)

(* A client connects.                                                      *)
Connect ==
    /\ conns < MaxConns
    /\ conns' = conns + 1
    /\ backlog' = backlog + 1
    /\ UNCHANGED <<pc, failed, batch, cur, pool, conn, nfds, ep, peer, inbox,
                   to_send, tx, awaits, history>>

UnitsAfter(m) ==
    IF m \in Streams THEN StreamUnits ELSE IF m = "ECHO" THEN {1} ELSE {0}

(* A client with nothing under way sends a configuration and waits for the *)
(* reply, reading on the way all that was sent back before; a stream test  *)
(* may be followed by data, an echo test is by one unit.                   *)
SendCfg(f, m) ==
    /\ peer[f] = "up" /\ ~awaits[f] /\ to_send[f] = 0 /\ inbox[f] = <<>>
    /\ inbox' = [inbox EXCEPT ![f] = <<m>>]
    /\ awaits' = [awaits EXCEPT ![f] = TRUE] /\ tx' = [tx EXCEPT ![f] = 0]
    /\ \E n \in UnitsAfter(m) :
          to_send' = [to_send EXCEPT ![f] = n]
    /\ UNCHANGED <<pc, failed, batch, cur, pool, conn, nfds, ep, peer, backlog,
                   conns, history>>

SendData(f) ==
    /\ peer[f] = "up" /\ ~awaits[f] /\ to_send[f] > 0 /\ Len(inbox[f]) < 2
    /\ inbox' = [inbox EXCEPT ![f] = Append(inbox[f], "DATA")]
    /\ to_send' = [to_send EXCEPT ![f] = to_send[f] - 1]
    /\ UNCHANGED <<pc, failed, batch, cur, pool, conn, nfds, ep, peer, tx,
                   awaits, backlog, conns, history>>

(* A client reads what the worker sent back; it may as well never do so.   *)
ClientRead(f) ==
    /\ peer[f] = "up" /\ tx[f] > 0
    /\ tx' = [tx EXCEPT ![f] = tx[f] - 1]
    /\ UNCHANGED <<pc, failed, batch, cur, pool, conn, nfds, ep, peer, inbox,
                   to_send, awaits, backlog, conns, history>>

(* A client closes its session, or the session is reset and what was not   *)
(* read is lost.                                                           *)
ClientGone(f, how) ==
    /\ peer[f] = "up"
    /\ peer' = [peer EXCEPT ![f] = how]
    /\ inbox' = [inbox EXCEPT ![f] = IF how = "reset" THEN <<>> ELSE inbox[f]]
    /\ UNCHANGED <<pc, failed, batch, cur, pool, conn, nfds, ep, to_send, tx,
                   awaits, backlog, conns, history>>

-----------------------------------------------------------------------------
Read(f) ==
    \/ \E m \in Msgs : HandleCfg(f, m) \/ HandleData(f, m)
    \/ HandleExit(f)
    \/ WriteBack(f)

Dispatch(e) ==
    \/ HandleHup(e) \/ HandleIn(e) \/ HandleOther(e) \/ NewClientNoSlot(e)
    \/ \E i \in Slots : NewClientNoAccept(e, i)
    \/ \E i \in Slots, f \in Fds : NewClient(e, i, f) \/ NewClientNoEpoll(e, i, f)

Serve ==
    /\ UNCHANGED use_ds
    /\ \/ EpollWait \/ ReadReset \/ ReadError
       \/ \E e \in batch : Dispatch(e)
       \/ \E f \in Fds : Read(f)

Worker == Serve \/ (EpollFail /\ UNCHANGED use_ds)

Client(f) ==
    \/ \E m \in Cfgs : SendCfg(f, m)
    \/ SendData(f)
    \/ ClientRead(f)
    \/ \E how \in {"closed", "reset"} : ClientGone(f, how)

(* What clients do after the worker has stopped is not followed.           *)
Clients ==
    pc # "done" /\ UNCHANGED use_ds /\ (Connect \/ \E f \in Fds : Client(f))

Next == Worker \/ Clients

Spec == Init /\ [][Next]_vars

(* The worker's thread runs; that vppcom_epoll_wait fails is not needed.   *)
FairSpec == Spec /\ WF_vars(Serve)

-----------------------------------------------------------------------------
(* Properties.                                                             *)

Entries == [data : Slots \cup {LISTEN}, events : {"IN", "HUP", "ERR"}]

TypeOK ==
    /\ pc \in {"loop", "read", "write", "done"} /\ failed \in BOOLEAN
    /\ batch \subseteq Entries /\ cur \in Slots
    /\ size \in 1..MaxSlots /\ alloc \subseteq 0..(size - 1)
    /\ slot_fd \in [Slots -> Fds \cup {NoFd}]
    /\ test \in [Slots -> {"NONE", "UNI", "BI", "ECHO"}]
    /\ rx \in [Slots -> 0..(Total + 1)]
    /\ nfds \in Int /\ ep \in [Fds -> Slots \cup {NoSlot}]
    /\ peer \in [Fds -> {"none", "up", "closed", "reset"}]
    /\ inbox \in [Fds -> Seq(Msgs)]
    /\ to_send \in [Fds -> 0..Total] /\ tx \in [Fds -> 0..TxRoom]
    /\ awaits \in [Fds -> BOOLEAN]
    /\ backlog \in Nat /\ conns \in 0..MaxConns
    /\ leaked \subseteq Slots /\ tainted \subseteq Slots
    /\ swallowed \subseteq Fds

(* The epoll data of a session, an index into conn_pool, always leads to   *)
(* an allocated slot that holds this very session, though slots are freed, *)
(* abandoned and given out again, and handles are too.                     *)
SlotOwnsSession ==
    \A f \in Registered : ep[f] \in alloc \ leaked /\ slot_fd[ep[f]] = f

(* nfds, which decides when the worker stops, counts the sessions that     *)
(* epoll watches: no path closes a session twice or forgets to count it.   *)
NfdsExact == nfds = Cardinality(Registered)

(* An entry of wait_events still to be handled refers to a session that is *)
(* still open: handling the earlier ones has not closed it or given its    *)
(* slot away, and no two entries refer to one slot.                        *)
BatchValid ==
    /\ \A e \in batch : e.data # LISTEN => \E f \in Registered : ep[f] = e.data
    /\ \A e1, e2 \in batch : e1.data = e2.data => e1 = e2
    /\ pc \in {"read", "write"} => /\ \E f \in Registered : ep[f] = cur
                                   /\ \A e \in batch : e.data # cur

(* "All client connections closed": a worker that stops without failing    *)
(* has no session left that it watches.                                    *)
StopsWhenAllClosed == pc = "done" /\ ~failed => Registered = {}

(* A slot is in use or abandoned, nothing else: the slots of sessions that *)
(* were hung up, or that accept or epoll_ctl refused, are never given      *)
(* back, and only those.                                                   *)
SlotsAccounted == alloc = {ep[f] : f \in Registered} \cup leaked

(* A configuration message of a client that waits for replies is taken for *)
(* data only on a slot whose count is stale: one that an earlier client    *)
(* gave back, with cfg and stats still those of that client, or one that   *)
(* had a configuration after which vts_handle_cfg clears no statistics: of *)
(* the wrong size, of test type none, or of an unknown test type.          *)
SwallowedOnlyIfStale == \A f \in swallowed \cap Registered : ep[f] \in tainted

(* The worker keeps its promises to its clients, though it finds their     *)
(* sessions through slots, epoll data and batches of events that may be    *)
(* stale, and stops by a count.                                            *)
Service == INSTANCE WorkerService WITH
               Sessions <- Fds, Questions <- Cfgs, Exit <- "EXIT",
               served   <- Registered,
               gone     <- {f \in Fds : peer[f] \in {"closed", "reset"}},
               unread   <- inbox,
               waiting  <- {f \in Fds : awaits[f]},
               status   <- IF pc # "done" THEN "serving"
                           ELSE IF failed THEN "failed" ELSE "finished"

WorkerServiceSpec == Service!Spec

(* The worker waits in vcl_test_write for a client that does not read.     *)
Stalled ==
    /\ pc = "write" /\ peer[slot_fd[cur]] = "up"
    /\ ~HasRoom(slot_fd[cur])

(* Every message a client sent is read and done with, as long as the       *)
(* worker goes on, with two exceptions: with -s what arrives outside a     *)
(* stream test is read in place and never freed, so that it is read, and   *)
(* echoed, again and again; and one client that never again reads what is  *)
(* sent back to it stops the service for all.                              *)
MessagesRead ==
    \/ \A f \in Fds : (inbox[f] # <<>> /\ f \in Registered)
           ~> \/ inbox[f] = <<>> \/ pc = "done"
              \/ use_ds /\ f \in Registered /\ test[ep[f]] \notin Streams
    \/ <>[]Stalled

(* The worker stops once it had clients, all are gone and none is waiting. *)
StopsInTheEnd ==
    (Registered # {} /\ backlog = 0 /\ \A f \in Registered : peer[f] # "up")
        ~> (pc = "done" \/ backlog > 0)
=============================================================================
