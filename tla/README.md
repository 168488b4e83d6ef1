# TLA+ models of dpdk-perf

The repository is a collection of programs and scripts for measuring DPDK/VPP
data planes: test applications (a UDP echo application and a test server on
VPP's session layer, a TCP/UDP echo on ODP/OFP), experiments with VPP's library
(coroutines, timing wheel), a script that moves network cards between drivers,
and configurations for test beds. The programs do not call each other; each has
its own state and its own environment (VPP, the kernel, clients), so there is
one group of modules per program and each model contains that environment as
far as the program can observe it. Paths below are relative to the repository.

## 1. Inventory

| Part | State | Operations | Interacts with | What is hard |
|---|---|---|---|---|
| udp-echo, server data path (`src/udp-echo/main.c`) | rx/tx fifo ends, event flags, message queue, locals of the handler | take an event, measure, clear the flag, read, send, announce | VPP through shared memory, without a lock | interleaving with VPP; partial reads and writes; a snapshot used over several turns; loops that must end |
| udp-echo, control path (same file) | `state`, `our_event_queue`, session pool, hash of handles | attach, bind, connect, accept, disconnect, detach, wait for a state, client loop | API RX thread (handlers), main thread, VPP's two queues | two threads share one state variable; pipelined requests; a refused request; early events; timers |
| udp-echo, client data path | bytes to send and sent, the two fifos of a cut-through session | send chunks, drop what comes back, drain for five seconds | an echoing peer | chunks cut by three limits; a loop that waits for nothing; who reads what is reflected |
| udp-echo, URI parsing | none | parse `proto://ip/port` | – | `::` at either end, counters at their limits |
| vcl-test-server, worker (`src/vcl-test-server/main.c`) | connection pool, epoll set, `nfds`, per-connection test and statistics | epoll wait, accept, hang-up, read, configure, echo, exit, fail | VCL sessions, remote clients | clients that vanish at any time; slots re-used and abandoned; stale batch entries; pool growth; a blocking write to a client that does not read; shut-down |
| vcl-test-server, start and stop | `active_workers`, `worker_fails`, worker array | initialize, create threads, run, count down, spin, free | threads without a lock | lost updates, late threads, exit status |
| vcl-test-server, UDP branch | one `status` for all workers | count a datagram, report every second | threads without a lock | lost counts, an index of ~0 |
| vcl-test-server, options and statistics | `cfg`, statistics of each connection | `-w`, `-s`; sum up a test | the pool of the worker | a number of workers in eight bits; a sum built up in one of its summands |
| dpdk-bind (`src/dpdk-bind/dpdk-bind.sh`) | driver and override of each card (in the kernel), table of the script | look up, unbind, override, bind | sysfs, `lspci` | failure or interruption between two commands, then another run |
| vpp-test coroutines (`src/vpp-test/test_process.c`) | jump buffers, stacks, counters | start, suspend, resume, return | `setjmp`, `longjmp`, `calljmp` | jumping only to live, latest activations |
| vpp-test timing wheel (`src/vpp-test/test_timing_wheel.c`) | events, bitmaps, counters | insert, advance, check, replace, drain | vppinfra's wheel | the test's own bookkeeping; ending |
| fp-sock (`src/fp-sock/`) | layers of ODP/OFP, threads, one record `ss` shared by all workers, packets | initialize, create, join, terminate; hook a socket; notify; stop on a signal | ODP, OFP, signals | failure of each stage; packet ownership; memory of a stack frame; ending |
| status counters (`src/status.h`) | counters of one thread | record, print rates | – | nothing reads them: not modelled |
| others (node-test, process-test, portid, armv7l-pmu, lab scripts) | none of their own | – | VPP, DPDK, kernel | not modelled, see section 8 |

What makes each modelled part correct, in one line:

* echo data path: bytes leave in order, exactly once, all of them; events are not
  doubled; a sleeping server has nothing to read – except through one window;
* control path: the event loop is entered only when attached and bound, the hash
  leads to the right session, waits end, and the ways to crash are known and listed;
* worker: epoll data lead to the slot that owns the session, `nfds` is the number
  of watched sessions, every slot is in use or abandoned on a known path;
* client data path: the stream is the test pattern without a gap, and a client
  that is connected ends unless its peer floods it with what it does not read;
* parser: every address in its textual form is understood as what it spells, and
  nothing else is taken for an address;
* start and stop: the counters and the rates are right unless an unlocked update
  was lost, and main returns;
* results: no byte of a test is left out, none is counted more than twice;
* fp-sock: a packet has one owner, what came up goes down in reverse order with
  no worker left inside, and a stop is followed by the end;
* dpdk-bind: success means bound, a failed or interrupted run leaves the card as
  it was, without a driver or with the one asked for, and no other card changes;
* coroutines: every jump leads to an activation that exists and is the latest;
* wheel test: it never rejects a right wheel, and it ends.

## 2. Modules

| Module | Models | Notes |
|---|---|---|
| `EchoService` | what the echo server promises: bytes arrive, bytes leave in order, at most `Capacity` inside | abstract specification |
| `EchoRx` | `server_handle_event_queue`, `server_handle_fifo_event_rx`, VPP's ends of the fifos | implements `EchoService` (refinement mapping at its end) |
| `EchoRxProofs` | TLAPS proofs about `EchoRx` | |
| `EchoClient` | `client_send_data`, `send_test_chunk`, `recv_test_chunk`, an echoing peer | data path of the client |
| `UdpEchoControl` | main thread, API thread and VPP of udp-echo, as server and as client | composes with `EchoClient`: its steps are the client's once it has a session |
| `Ip6Parse` | `unformat_ip6_address` | operators, checked against the textual form of addresses |
| `MCUdpEcho` | – | model of `UdpEchoControl` and `Ip6Parse` |
| `WorkerService` | what a worker promises its clients: messages of the sessions it serves are taken in order, only who waits is answered, a session is closed when its client is gone or asks, the worker finishes with the last one | abstract specification |
| `VclWorker`, `MCVclWorker` | `vts_worker_loop` and everything it calls, clients | implements `WorkerService`; MC module adds the symmetry of session handles, `VclStats` and `BufferSpec`, the worker without `-s` |
| `VclStats` | the sum of `vts_server_start_stop` over the pool | operators on the pool of `VclWorker`, checked against set-based definitions |
| `VclWorkerProofs` | TLAPS proofs about `VclWorker` and `VclStats` | |
| `VclMain` | `main`, worker threads, the two unlocked counters, the UDP branch | composes with `VclWorker`: a worker's loop for streams is one step here |
| `DpdkBind` | `dpdk-bind.sh -c` and the kernel's view of the cards | |
| `CoProcess` | `test_process.c` | |
| `WheelTest` | `test_timing_wheel.c` in synthetic time | |
| `FpSock` | fp-sock: `main`, `udp_main`, `notify`, the signal handler; OFP's dispatcher and hook | |
| `UdpEchoProofs`, `VclMainProofs`, `DpdkBindProofs`, `CoProcessProofs`, `WheelTestProofs`, `FpSockProofs` | TLAPS proofs about the module of that name; `UdpEchoProofs` is about `UdpEchoControl` with `EchoClient` in it, and about `Ip6Parse` | |

### EchoRx

One action per access to shared memory, because VPP acts between any two:
`SubMsg` (the event is taken off the queue), `PeekMaxDequeue` (line 983),
`UnsetEvent` (985, with the early return), `Recv` (one `app_recv_stream_raw`,
1010-1022), `AppSend` (one turn of the inner loop, 1027-1034), `TxEvent`
(1036-1042). VPP's actions are `VppEnqueue`, `VppNotify`, `VppDrain`. A byte is its position in
the stream; the fifos are pairs of counters, and `tx_data` records which byte
went to which place, so that a wrong `offset` is visible. What the two fifo
calls may return (a part, or a negative value) is a choice over all results
the code handles. `missed` is a history variable.

### UdpEchoControl

`pc` is the main thread, `RxThread` the API thread. `requests` and `api` are
the two directions of VPP's API, `mq` is `our_event_queue`. `Start` sends attach
and bind without waiting, as `udp_server_test` (1113-1130) does; `WaitDone`/`WaitFailed` are the
two outcomes of `wait_for_state_change`; each event handler is one action, for
handlers run on the main thread and touch only its data. A step that
dereferences a pointer the code never set is the action `Crash`, with the pc
`"crash"`: what a NULL queue does on the machine is not followed further.
The API thread can crash too. `RxRefused` is the bind reply with an error, where
`format_api_error` (380-395) is given `retval` for the address of its first argument, so
that the `STATE_FAILED` of line 900 is never set; `RxUnmap` is the segment
that VPP takes back, whose handle is printed with `%s` (864, 870).
`late` says that the client's 100 seconds are over.

### EchoClient

The session's fifos are two counters, `log` records for each byte enqueued its
place in `test_data`. `Chunk` is `bytes_this_chunk`; a write may be short. The
client's two loops spin on the clock and on the fifo, so the only thing that can
stop them is the peer: it reads, and when it reflects writes everything back
before it reads again, as `EchoRx` does. `Choked` names the case in which that
stops for good: no return was asked for, the peer reflects, and there is more to
send than the two fifos and the peer's buffer hold. `UdpEchoControl` calls
`BeginSend` when the session is there and goes on to detach at `"done"`.

### Ip6Parse

The scanner is a fold of `Scan` over the characters, with the code's counters as
a record; `Expand` is the result of the two loops that move the quads. The
reference is the set of texts built from groups of digits, colons and one `::`.
`ParsesAddresses`, in `MCUdpEcho`, is evaluated where a client starts, over all
texts up to the longest that can be an address. Two liberties of the parser are part of
its statement: a lone colon at either end is passed over, and a `::` may stand for no
group at all.

### VclWorker

`batch` holds the entries of `wait_events` not yet handled and `cur` the slot
`conn` points to, so that handling one entry can invalidate another.
One action per outcome of a handler: `HandleHup`, `NewClientNoSlot`,
`NewClientNoAccept`, `NewClientNoEpoll`, `NewClient`, `HandleIn`, `HandleOther`
for an entry; `ReadReset`, `ReadError`, `HandleCfg`, `HandleExit`, `HandleData`
at `read_again`. `HandleCfg` covers every test type: streams, which alone clear
the statistics, echo and none, which are copied and answered, an unknown type (`OTHER`), which
is neither, and a message of the wrong size (`BAD`), which is answered. `HandleData` ends
at the `vcl_test_write` of a bidirectional test or an echo, and `WriteBack` is the rest:
sessions are blocking, so the worker waits at the pc `"write"` until the client's fifo
(`TxRoom` units) has room or the client is gone, and handles nothing else meanwhile (`Stalled`).
The segments that `vts_server_rx` gives back after its write are taken as given
back before it, since only the worker reads that session. The clients are external: they
connect, send a configuration and wait for the reply, send data, read what is sent back or do
not (`ClientRead`), close, or are reset, at any time. Bytes are
counted in units of one configuration message: `ExpectConfig` compares the same
three quantities as `vts_conn_expect_config`. `leaked`, `tainted` and
`swallowed` are history variables. With `use_ds` data is read in place:
`Consumed` says what is left in the session after `vts_server_rx`, which gives
the segments back, and after `vts_server_echo`, which does not.

`WorkerServiceSpec` maps this to `WorkerService`, which has no slots, no epoll set
and no count: `served` is the set of watched sessions, `gone` that of sessions
whose client closed or was reset, `unread` and `waiting` are the clients' side,
and `status` is the worker's pc with its failure. A message read in place and not
given back is a stuttering step there, and so is everything between epoll and a handler.

### VclStats

`Walk(pool, c)` gives the pool after each turn of the loop (158-168), for a pool and the
index of the control connection, and `Results` what it has at the end. Statistics are cut down to the bytes received
and the stop time. The properties apply it in every state in which the worker
is about to handle a stream configuration, to the counts `rx` its slots then have, stale
ones included, for every choice of the slots that share the control handle. `ResultsBounded` and `StopAdjusted` say what is printed in
terms of sets of slots: bytes of the control connection and of the slots
below it are counted twice, and the delay is subtracted once per slot.

### VclMain

Each `+=`/`-=` on the two `volatile int`s is a load and a store; `lost` records
that a store overwrote an update. A thread that `pthread_create` failed to make
stays `"none"`, as the code does not look at the result. `CfgWorkers` is the
`u8` that `-w` is stored in. For UDP a worker counts datagrams in `cur_pps`
(`status.total` is updated next to it and behaves alike), again with a load and a
store, and `UdpPeriod`/`UdpReport` are the load for the report and the reset.
At `"overrun"` an array has been left, the element 0 of no workers or
`conn_pool[~0]`, and the process is not followed further: the model says
nothing about what happens then, and no property is about it. The buffers of the stream
loop are not modelled.

### DpdkBind

One action per command, since the script runs under `set -e` and may be
interrupted: `Fail` is possible before each command and, after the bind and after
`success` was printed (`"said"`), up to the `exit` (`End`). `ParsedDriver` is `nics_info` as
it is: the last word of the third line of `lspci -k`. `header` says how many lines that
command prints between a card's first and that of its driver (none, a Subsystem, or a DeviceName and a
Subsystem) and `module` whether it prints the kernel modules, so the third line is the
driver's, the kernel modules', the Subsystem's, or missing. The sysfs semantics (`Matches`) is external.

### CoProcess

Activations of the functions that call `setjmp` are numbered; a jump buffer
holds the number of the activation it was set in. A jump is legal if that
activation is still there.

### WheelTest

The wheel is external and right by construction; the model is about what the
test does around it. `iter`, the bitmap, the minimum and the count are the
test's variables; `timed` chooses between a number of iterations and a time.

### FpSock

`pc` is the stage of main, with the labels EXIT0 and EXIT1 as stages of the
termination; `layers` is what is up. `InitStage` and `InitStageFails` are the
two outcomes of each initialization, `StartThread` includes its failure. The
workers run OFP's dispatcher (external): they look at `running`, take a packet
the scheduler may hand out (`Schedulable`: the packets of an atomic queue one at a time),
write it to `ss` (`Offer`), call `notify` and look at `ss.pkt` again (`Check`).
`notify` is three steps, for two workers may be in it: it reads the record, sends
the packet, marks the record. A signal clears `running` and may end a sleep of
the server thread.

## 3. Runs

| Run | Module | Bounds | Shows |
|---|---|---|---|
| `echo_rx` | EchoRx | fifo 3, buffer 2, 6 bytes | all echo properties, refinement of `EchoService`, liveness |
| `echo_rx_wakeup` | EchoRx | fifo 2, buffer 3, 3 bytes | **violation**: a wakeup is lost (finding 1) |
| `udp_echo_control` | MCUdpEcho | 2 handles, pool of 3, 2 packets; client: buffer 3, fifos 2, 0, 4 or 7 bytes; addresses of 3 quads of 2 binary digits | loop entered only when bound, hash, crash list, waits; pattern sent; addresses understood |
| `udp_echo_connect` | UdpEchoControl | same | **violation**: refused client never ends (finding 2) |
| `vcl_worker` | MCVclWorker | 2 handles (symmetric), pool of 2 that cannot grow, batch of 2, 3 connections, without `-s`; configurations UNI, NONE, BAD, OTHER and EXIT, streams of 2 units, one unit of room for what is written back; stop times 0 to 2 | slots, epoll and `nfds` in step; where a configuration is taken for data; results; refinement of `WorkerService` |
| `vcl_worker_live` | MCVclWorker | 2 handles, no symmetry, pool of 1 that grows to 3, batch of 3, 2 connections; BI, ECHO and EXIT, with and without `-s` | messages are read unless the worker is stalled for good, the worker stops |
| `vcl_main` | VclMain | `-w` 0, 3, 256, 258 (1, 3, 0 and 2 workers), 2 datagrams | counters, early free, exit status, rates, end |
| `dpdk_bind` | DpdkBind | 2 cards, each with 0 to 2 lines before its driver's and with or without kernel modules; 2 loaded drivers, and the last word of a Subsystem line as a third that can be asked for; 3 runs | success and failure |
| `dpdk_bind_success` | DpdkBind | the same cards; the third driver is one that is not loaded | **violation**: false "success" (finding 3) |
| `co_process` | CoProcess | 3 processes, 5 signals | jumps are legal |
| `wheel_test` | WheelTest | 3 events, 3 iterations | assertions hold, the test ends |
| `fp_sock` | FpSock | 2 workers, 2 packets on 1 or 2 queues, all modes | packet ownership, termination order, the hook's memory, stopping |

Why the bounds are enough for the interesting cases. *EchoRx*: the buffer is
smaller than the fifo, so reads are partial and the outer loop turns; six bytes
fill both fifos, so the inner loop waits for VPP; two notifications can meet
in one run of the handler. *VclWorker*: a slot or a handle is given out again only while
another client keeps the worker alive, so it takes three connections: in `vcl_worker`
the third gets the handle and the slot of one that left, with the count of that one, or
finds the pool full (in use or abandoned) and waits in the backlog, reported with every batch. In
`vcl_worker_live` the pool grows from 1 to 3 slots, and clients are served with `-s` too. A batch holds more than one entry, and one
unit of room is less than a test writes back, so the write blocks. *UdpEchoControl*: the listener and two accepted sessions fill the pool.
The client's 7 bytes wrap the buffer of 3 twice, fill the fifos and are more than the fifos and
the peer hold (6). Three quads leave room for a `::` before, between and
behind others, and two digits for a quad that is too long.
*VclMain*: with three workers two threads can race each other and main, and two
datagrams are enough for two counts, or a count and a report, to overlap; 256 and 258 are
the arguments whose low byte is 0 and 2.
*DpdkBind*: a first run that fails or is interrupted, a second that finds what it left, and a third.
*CoProcess*: five signals among three processes repeat one of them.
*WheelTest*: three events share bins, expire in different ones and are set again
in the current one. *FpSock*: two workers with a packet each meet in `notify`;
with one queue in atomic mode they cannot, with two queues or another mode they do.

Deadlock checking is off in every run because every modelled program may stop
or wait for ever for input: the worker and the programs end, the echo server
sleeps when VPP has nothing more to deliver within the bounds.

## 4. Fairness

* `EchoRx`: weak fairness of the server thread (a running thread), of `VppNotify`
  (VPP ends the frame it is working on) and of `Drain` (VPP transmits what was
  announced with an event, and only then). VPP need not deliver anything.
* `UdpEchoControl`: weak fairness of the two threads (of the API thread when it has a
  reply to handle, `RxThread \/ RxRefused`), of VPP's answers to requests and of
  time. Nothing is assumed of traffic, or that VPP unmaps a segment.
* `VclWorker`: weak fairness of `Serve`, everything the worker does except a failing
  `epoll_wait`. Clients owe nothing: they need not read what is sent back to them.
* `VclMain`: weak fairness of main and of each thread outside its loop; a
  worker's loop need not end.
* `EchoClient` (inside `UdpEchoControl`): the client's steps are those of the main
  thread; the peer reads and writes when it can; the five seconds pass.
* `WheelTest`: the program runs.
* `FpSock`: weak fairness of main and of each worker, all running threads. Nothing
  is assumed of the server thread, of signals or of packets.

## 5. Findings

1. `src/udp-echo/main.c:983-985`. The fifo is measured before its event flag is
   cleared. A notification between the two finds the flag set and posts nothing;
   the bytes wait until the next packet. `LostOnlyInWindow` (checked, and proved
   for all sizes) says that this is the only window.
2. `src/udp-echo/main.c:806-813`. `client_test` sleeps without a timeout and looks at its 100
   seconds only after an event; after a refused connect there is none.
3. `src/dpdk-bind/dpdk-bind.sh:95,129,172`. For a card without a driver, and
   for a bound one without a Subsystem line, the list of kernel modules is taken
   for the driver: asked for that module, the script prints "success" with the card bound to
   nothing, or to another driver. `SuccessMeansBound` (checked, and proved) says that success is
   true in all other cases.

`CrashCauses` lists, as a checked invariant, every way in which the modelled
handlers of udp-echo use a pointer they do not have: an attach reply without a segment; data that arrives for
the listener before `BOUND` was handled; any event of an accepted session, since
`session_accepted_handler` (498-514) never sets the `vpp_evt_q` on which
`session_disconnected_handler` (558-564) replies; a connect refused after the
100 seconds; a client that sends on a session that is not cut through; a refused
bind, whose warning (898) uses `retval` as an address (383-387); and a segment that VPP
unmaps, whose handle is printed as a string (864, 870).
`Choked`, `ResultsBounded` and `StopAdjusted` state behaviour
that is surely not meant (a client stuck on what it does not read, bytes counted twice, a delay
subtracted once per connection) as exactly as it holds; nothing in the
repository says otherwise, so none of it is a finding. The same goes for the
echo test with `-s` (`MessagesRead` excepts it: the bytes are never given back), for
the blocking write to a client that never reads, which stops the worker for all its clients
(the second exception of `MessagesRead`),
and for the shared `ss` of fp-sock in any mode but atomic, on one queue.
Also seen while modelling, without a run: `-w 256`, which leaves an array of no
workers, a hang-up on UDP, which uses `conn_pool[~0]`, and `vts_server_echo` with
`-s` (242), which copies as much as was received into a buffer of `buf_size`; and the usage line of the script
(`dpdk-bind.sh:17`) names its two arguments in the opposite order to line 170.

## 6. Proofs

Every safety invariant and action property that a run checks, `ParsesAddresses`
excepted (see the end of this section), is a theorem `Spec => []P` for all values of the
constants that satisfy the named assumptions, and so are the refinements of
`EchoService` and of `WorkerService`. Each proof module has the same shape: parts of the inductive
invariant `IInv` as definitions, `InitInv`, one lemma or step per action,
`NextInv`, `Invariance`, and a theorem for each property. The fairness conditions of
the `FairSpec`s are not used. TLC finds no
violation of any of the inductive invariants with the constants of the runs.

| Module | Assumptions | Theorems (property) |
|---|---|---|
| `EchoRxProofs` | `SizesAssumption`: sizes are positive, the number of bytes natural | `TypeCorrect`, `EchoCorrect` (`EchoExact`, `EchoComplete`), `SnapshotCorrect` (`SnapshotSound`), `EventsCorrect` (`OneRxEvent`, `TxAnnounced`), `WindowOnly` (`LostOnlyInWindow`), `Refinement` (`ServiceSpec`) |
| `UdpEchoProofs` | `ControlAssumption`: finitely many handles, none of them the listener's, a pool that is not empty; `ClientAssumption`: buffers and fifos are not empty | `TypeCorrect`, `LoopCorrect` (`LoopMeansBound`), `HashCorrect` (`HashSound`), `CrashCorrect` (`CrashCauses`), `PatternCorrect` (`PatternSent`); with `ParseAssumption` (there is a quad, a digit in it, and a base above 1) `ParserInBounds` |
| `VclWorkerProofs` | `VclAssumption`: finitely many handles, sizes in range; `StreamAssumption`, see below | `TypeCorrect`, `SlotsCorrect` (`SlotOwnsSession`), `BatchCorrect` (`BatchValid`), `NfdsCorrect` (`NfdsExact`, `StopsWhenAllClosed`), `SlotsBalance` (`SlotsAccounted`), `SwallowedCorrect` (`SwallowedOnlyIfStale`), `Refinement` (`WorkerServiceSpec`); with `StatsAssumption` (the delay is positive) `ResultsCorrect` (`ResultsBounded`), `StopsCorrect` (`StopAdjusted`) |
| `VclMainProofs` | `WorkersAssumption`: the arguments of `-w` are integers, one of them leaves a worker | `TypeCorrect`, `CountCorrect` (`CountWithoutRace`), `FreeCorrect` (`EarlyFreeOnlyIfUncounted`), `ExitCorrect` (`ExitStatus`), `ReportsCorrect` (`DatagramsReported`) |
| `DpdkBindProofs` | `BindAssumption`: cards and drivers are different things, the module's driver is loaded, the last word of a Subsystem line is the name of no loaded driver | `TypeCorrect`, `SuccessCorrect` (`SuccessMeansBound`), `FailureCorrect` (`FailureHarmless`), `UnboundCorrect` (`UnboundIsFinal`, an action property) |
| `CoProcessProofs` | `ProcessAssumption`: there is a process | `TypeCorrect`, `JumpsCorrect` (`JumpsLand`) |
| `WheelTestProofs` | `WheelAssumption`: the numbers are natural, there is an iteration | `TypeCorrect`, `AssertsCorrect` (`AssertsHold`), `DrainedCorrect` (`DoneDrained`, the safety half of `WheelDrains`) |
| `FpSockProofs` | `FpSockAssumption`: there is a worker and a queue, the numbers of CPUs are positive, `NoPacket` is no packet | `TypeCorrect`, `OwnerCorrect` (`PacketHasOneOwner`), `TearDownCorrect` (`TearDownOrder`), `FrameCorrect` (`FrameOutlivesHook`) |

The arguments, and why the properties alone are not inductive:

* *EchoRx.* That a read cannot fail needs that `max_dequeue` was a lower bound when
  it was taken and only the handler lowers the fifo; that what is sent is right
  needs where `rx_buf` starts. `IInv` adds the bounds of both fifos, the
  position of the buffer (`rx_buf + offset = tx_in` while sending) and what is
  known of `missed` at each pc. The refinement is a step-by-step simulation.
* *UdpEchoControl.* Server and client share the actions, so each conjunct of
  `IInv` is about one role. For the server, `Pipelined` says which replies
  can still be under way in which state: the attach reply, which would set the state back, is always
  handled before the bind reply, and while the main thread waits. `ReadyMeansBound` and
  `QueueComes` follow the two replies. `ServerEvents` says what every event
  still in the message queue will meet when it is handled (the handle of an `ACCEPTED` is in no
  hash entry, the index of an `RX` of the listener is that of its session unless it came
  early) and that no `BOUND` or `ACCEPTED` is there twice; `HashSound` is inductive only with
  it. For the client, `ClientTurns` says that one request is under way at a
  time and that the session the client will send on is the one it has.
  `ClientReplied` says that no reply to a bind ever reaches a client.
  `CrashCauses` then follows at the places that can crash, three of the main
  thread and two of the API thread, and stays true because no thread of the process runs
  afterwards, though VPP may still answer a bind (`CrashStays`). For the
  data path, `PatternSent` is inductive with `Len(log) = bytes_sent` and the
  arithmetic of `OffsetGrows`: within one turn of the buffer, the offset grows with the stream.
* *VclWorker.* `IInv` is the conjunction of the safety properties with two
  facts about the environment: a watched session is open (`HandleInUse`), and
  the listener reports nothing but input (`ListenIn`). The lemmas `CloseOne`,
  `CloseInv`, `LeakInv` and `RegisterInv` say what closing, abandoning and
  registering one session do to the conjunction; `WorkerInv` and `ClientInv` apply
  them action by action. `SwallowedOnlyIfStale` needs a second invariant on top
  of it, `CountInv`: on a slot that is not stale, either a configuration is
  on its way and the worker will look for one, or only data is, and what was
  counted, what waits and what is to come add up (`InStep`). This holds because
  a stream client sends all of `total_bytes` or, on its control session, no data, and
  because a configuration is shorter than the 128 bytes of
  `vts_conn_expect_config`. The property fails without them; they are stated as
  `StreamAssumption`.
* *The worker's service.* The refinement of `WorkerService` rests on a third
  invariant, `SentInv`: a configuration is alone in its session and its client waits
  (`CfgAlone`), so that a reply always answers a question that was asked; and an
  `EPOLLHUP` still in the batch leads, through epoll data and slot, to a session whose client is
  gone (`HupGone`), so that a stale index never closes somebody else's session.
  `FailedDone` separates a worker that finishes from one that fails, and
  `NfdsExact` is what makes "the count is zero" mean "the last session".
* *VclStats.* The loop is followed turn by turn. The library's induction theorems
  cannot be instantiated here, so `Counting` derives induction for a set of numbers from
  the well-foundedness of `<`. `WalkTurns` shows that the recursive function
  `Walk` exists, `WalkKeeps` that a turn changes no slot but the control
  connection's. `WalkStops` carries `Adjusted` from turn to turn: after the members
  passed so far the stop time lies one to n delays before the latest. `WalkSums`
  carries `AddedUp`; it needs that the sum over a set does not depend on the order in which
  the elements are chosen (`SumsExist`, `SumIsSums`, `SumOne`). With these
  the two properties hold for any pool, any members and any times.
* *Ip6Parse.* `ParserInBounds` says that `unformat_ip6_address` stays within its
  array for every text whatever: `ScanInBounds` keeps that a quad under way has a place
  left in the array and is below the power of the base for its digits, and that the `::` lies at or
  before the end, so that moving the quads fills the array exactly
  (`ExpandFills`). That the fold over the characters is this sequence of steps is `ScanTurns`.
* *VclMain.* The history set `counted` is tied to the workers' pcs
  (`CountedWhere`), `worker_fails` to the failed workers that have done their
  update (`FailsWithoutRace`), and main's pc to worker 0, which it runs itself.
  `LeftBehind` continues `EarlyFreeOnlyIfUncounted` to the exit.
  `LoadedPps` says that a single worker's loaded value is still the counter's.
* *DpdkBind.* `Untouched` and `OneCard` say what the script has done by each command,
  `OthersUntouched` that it was to one card, and `SaidOnce` at which pcs success can
  have been printed: a run that fails after that keeps the card it bound.
  `StaysUnbound` carries `UnboundIsFinal` from one run of the script to the next.
* *CoProcess.* `Turn` and `Started` say whose turn it is and who has been
  started; with them the numbers of the activations in the jump buffers are known.
* *WheelTest.* Each pc has a part (`Making`, `Advancing`, `Checking`,
  `Replacing`, `DoneDrained`) relating the bitmap, the wheel's contents and the
  times. That a non-empty set of times has an earliest one (`EarliestIs`) is taken from
  the well-foundedness of the natural numbers.
* *FpSock.* `LayersAt` and `WorkersAt` give `TearDownOrder`. A late signal
  keeps `running` cleared (`LateStops`), which with `AwakeBySignal` and
  `HookWhere` gives `FrameOutlivesHook`. For `PacketHasOneOwner`, with one atomic
  queue, `OneInHook` serializes the workers and `InTurn` says what `ss` and the packet
  are at each step of the hook.

What proving brought out: the bound on the counter of datagrams in the type
invariant of `VclMain` was too small for two workers (that invariant is in no
run), and `StreamAssumption` had been implicit in the values of the `.cfg` files.

Only model-checked: every liveness property (`EventServed`, `AllEchoed`,
`MessagesRead`, `StopsInTheEnd`, `WaitEnds`, `ConnectedClientEnds`,
`ProgramEnds`, `WheelDrains`, `StopEnds`), since the prover does not handle
ENABLED and fairness; and `ParsesAddresses`, which relates three folds (the
scanner's, the value of a group and the joining of groups) over texts taken apart in every way:
of the parser only the bounds are proved. The other way
round, the type invariants, `EchoComplete`, `TxAnnounced`,
`StopsWhenAllClosed`, `DoneDrained` and `ParserInBounds` are proved and in no run.

## 7. Plan

1. Done: models of all programs that keep state of their own; proofs of their
   safety properties and of both refinements.
2. Left: a proof of `ParsesAddresses` for every text, on top of `ScanTurns`.

## 8. Not modelled

* Branches compiled out with `#if 0`, the datagram read of udp-echo (`is_dgram`
  is 0 for a bound session), and code nobody calls (`cut_through_thread_fn`,
  `server_unbind` and the unbind reply, which a server that never stops does not reach).
* fp-sock's `tcp_main` (compiled, never started), the packet hooks of `hook.c`
  (compiled out) and the loop of the performance thread, which only prints.
* The IPv4 parser and the scheme and port of a URI: single calls of vppinfra's
  `unformat`. The rates of `status.h`: counters of one thread that are only printed.
* Formatting, logging and printed statistics, and options beyond `-w`, `-s`, `-D`, `-c` and `-p`; buffers' contents
  beyond the identity of a byte, and the sizes of the buffers of vcl-test-server
  (line 242 of `main.c` copies without regard to them).
* The handler that maps a segment in udp-echo: nothing that is modelled looks at its result.
* `portid`, `node-test`, `process-test`, `test_longjmp`, `test_time`,
  `test_vec`: straight-line uses of DPDK or VPP without state of their own.
* `armv7l-pmu`: writes of co-processor registers.
* Test-bed scripts and configurations (`vpp/`, `trex/`, `pktgen/`, `preload.sh`).
* VPP, VCL, the kernel, ODP, OFP and vppinfra: modelled only as far as the code
  above uses them and marked external.
