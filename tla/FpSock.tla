------------------------------- MODULE FpSock --------------------------------
(***************************************************************************)
(* fp-sock: the OpenFastPath UDP echo.  main brings up ODP and OFP, starts *)
(* the workers (OFP's dispatcher), the performance thread and the server   *)
(* thread udp_main, and takes everything down again once the workers have  *)
(* left the dispatcher.  A signal only clears OFP's running flag.          *)
(*                                                                         *)
(* The socket has a hook, notify, that the workers call with a pointer to  *)
(* one ofp_sock_sigval, ss, which lives on the stack of udp_main.  OFP     *)
(* (external) stores the packet and the event in ss, calls the hook and    *)
(* looks at ss.pkt again: the packet is its own unless it is now invalid.  *)
(***************************************************************************)
EXTENDS Integers, FiniteSets

CONSTANTS
    MAX_WORKERS,
    Packets,       \* what arrives for the socket while the program runs
    Queues,        \* receive queues the packets are spread over
    Counts,        \* values of -c tried; 0: the option is not given
    Cpus,          \* values of odp_cpu_count tried
    NoPacket       \* ODP_PACKET_INVALID

ASSUME FpSockAssumption ==
    /\ MAX_WORKERS \in Nat \ {0} /\ Queues # {}
    /\ Counts \subseteq Nat /\ Cpus \subseteq Nat \ {0}
    /\ NoPacket \notin Packets

Workers == 1..MAX_WORKERS

VARIABLES
    \* main
    pc, ret,       \* the stage it is in, what it will return
    layers,        \* what main has initialized and not terminated
    args,          \* what parse_args found: count and perf_stat
    sched_sync, num_workers, created,
    \* the server thread
    spc, ss,       \* ss: the packet and the event in the shared record
    \* OFP and the environment
    running,
    signals,       \* signals so far: before and after OFP had its flag
    wk,            \* the workers: where each is, its packet, what notify read
    queue, event,  \* the queue and the event of each packet
    pending, sent, kept    \* packets waiting; times sent back; left to OFP

mainVars == <<pc, ret, layers, args, sched_sync, num_workers, created>>
server   == <<spc, ss>>
traffic  == <<queue, event, pending, sent, kept>>
vars     == <<mainVars, server, running, signals, wk, traffic>>

Init ==
    /\ pc = "setup" /\ ret = "EXIT_SUCCESS" /\ layers = {}
    /\ args \in [count : Counts, perf_stat : BOOLEAN]
    /\ sched_sync \in {"PARALLEL", "ATOMIC", "ORDERED", "unknown"}
    /\ num_workers = 0 /\ created = {}
    /\ spc = "off" /\ ss = [pkt |-> NoPacket, event |-> "INVALID"]
    /\ running = FALSE /\ signals = {}
    /\ wk = [w \in Workers |-> [pc |-> "off", own |-> NoPacket, pkt |-> NoPacket]]
    /\ queue \in [Packets -> Queues]
    /\ event \in [Packets -> {"RECV", "SEND"}]
    /\ pending = Packets /\ sent = [p \in Packets |-> 0] /\ kept = {}

Alive == pc \notin {"exited", "crashed"}

-----------------------------------------------------------------------------
(* main                                                                    *)

InitStages == {"setup", "odp_global", "odp_local", "cpumask",
               "ofp_global", "ofp_local"}

AfterInit ==
    [setup |-> "odp_global", odp_global |-> "odp_local",
     odp_local |-> "cpumask", cpumask |-> "ofp_global",
     ofp_global |-> "ofp_local", ofp_local |-> "workers"]

(* Where a stage of main goes when it fails: the returns, EXIT0 and EXIT1. *)
AfterFailure ==
    [setup |-> "exited", odp_global |-> "exited",
     odp_local |-> "odp_term_global", cpumask |-> "odp_term_local",
     ofp_global |-> "ofp_term_global", ofp_local |-> "ofp_term_local"]

(* The switch on sched_sync: only an unknown mode is changed.              *)
ForceSync(sync) ==
    IF sync \in {"PARALLEL", "ATOMIC", "ORDERED"} THEN sync ELSE "ATOMIC"

(* The number of workers main asks odp_cpumask_default_worker for.         *)
WantedWorkers(count, cpus) ==
    LET n == IF count # 0 THEN count
             ELSE IF cpus > 1 THEN cpus - 1 ELSE cpus
    IN  IF n > MAX_WORKERS THEN MAX_WORKERS ELSE n

(* parse_args and setup_exit, the initialization of each layer and, before *)
(* OFP's, the number of workers and the scheduling mode.  OFP's running    *)
(* flag is set by its global initialization.                               *)
InitStage ==
    /\ pc \in InitStages
    /\ pc' = AfterInit[pc]
    /\ layers' = IF pc \in {"setup", "cpumask"} THEN layers
                 ELSE layers \cup {pc}
    /\ IF pc = "cpumask"
       THEN /\ \E cpus \in Cpus :
                   num_workers' \in 1..WantedWorkers(args.count, cpus)
            /\ sched_sync' = ForceSync(sched_sync)
       ELSE UNCHANGED <<num_workers, sched_sync>>
    /\ running' = (running \/ pc = "ofp_global")
    /\ UNCHANGED <<ret, args, created, server, signals, wk, traffic>>

InitStageFails ==
    /\ pc \in InitStages
    /\ pc' = AfterFailure[pc]
    /\ ret' = IF pc \in {"ofp_global", "ofp_local"} THEN ret
              ELSE "EXIT_FAILURE"
    /\ UNCHANGED <<layers, args, sched_sync, num_workers, created, server,
                   running, signals, wk, traffic>>

(* odph_odpthreads_create: the threads it created run the dispatcher.      *)
CreateWorkers ==
    /\ pc = "workers"
    /\ created' \in SUBSET (1..num_workers)
    /\ wk' = [w \in Workers |->
                IF w \in created' THEN [wk[w] EXCEPT !.pc = "dispatch"]
                                  ELSE wk[w]]
    /\ IF Cardinality(created') = num_workers
       THEN pc' = "cli" /\ UNCHANGED running
       ELSE pc' = "join" /\ running' = FALSE
    /\ UNCHANGED <<ret, layers, args, sched_sync, num_workers, server,
                   signals, traffic>>

StopAndJoinMutant == "ofp_term_local"  \* no odph_odpthreads_join

(* Where main goes after ofp_stop_processing on an error path.             *)
StopAndJoin == "join"

(* ofp_start_cli_thread and, with -p, start_performance.                   *)
StartThread ==
    /\ pc \in {"cli", "perf"}
    /\ \/ pc' = (IF pc = "cli" /\ args.perf_stat THEN "perf" ELSE "server")
          /\ UNCHANGED running
       \/ pc' = StopAndJoin /\ running' = FALSE
    /\ UNCHANGED <<ret, layers, args, sched_sync, num_workers, created,
                   server, signals, wk, traffic>>

(* The server thread; whether it was created goes unnoticed.               *)
StartServer ==
    /\ pc = "server"
    /\ pc' = "join"
    /\ spc' \in {"init", "off"}
    /\ UNCHANGED <<ret, layers, args, sched_sync, num_workers, created, ss,
                   running, signals, wk, traffic>>

JoinedMutant == \A w \in Workers : wk[w].pc = "done"  \* all of thread_tbl

(* odph_odpthreads_join has nothing left to wait for.                      *)
Joined == \A w \in created : wk[w].pc = "done"

Join ==
    /\ pc = "join" /\ Joined
    /\ pc' = "ofp_term_local"
    /\ UNCHANGED <<ret, layers, args, sched_sync, num_workers, created,
                   server, running, signals, wk, traffic>>

AfterTerm ==
    [ofp_term_local |-> "ofp_term_global", ofp_term_global |-> "odp_term_local",
     odp_term_local |-> "odp_term_global", odp_term_global |-> "exited"]

Layer ==
    [ofp_term_local |-> "ofp_local", ofp_term_global |-> "ofp_global",
     odp_term_local |-> "odp_local", odp_term_global |-> "odp_global"]

(* The terminations; one that fails is only reported.                      *)
Term ==
    /\ pc \in DOMAIN AfterTerm
    /\ pc' = AfterTerm[pc]
    /\ layers' = layers \ {Layer[pc]}
    /\ UNCHANGED <<ret, args, sched_sync, num_workers, created, server,
                   running, signals, wk, traffic>>

Main ==
    \/ InitStage \/ InitStageFails \/ CreateWorkers \/ StartThread
    \/ StartServer \/ Join \/ Term

-----------------------------------------------------------------------------
(* udp_main and the signals                                                *)

ServerInit ==
    /\ Alive /\ spc = "init"
    /\ spc' \in {"sleep3", "returned"}
    /\ UNCHANGED <<mainVars, ss, running, signals, wk, traffic>>

ServerWakes ==
    /\ Alive /\ spc = "sleep3"
    /\ spc' = "socket"
    /\ UNCHANGED <<mainVars, ss, running, signals, wk, traffic>>

(* init_sock                                                               *)
InitSock ==
    /\ Alive /\ spc = "socket"
    /\ spc' \in {"sigevent", "returned"}
    /\ UNCHANGED <<mainVars, ss, running, signals, wk, traffic>>

AfterSigeventMutant == "awake"  \* no sleep(-1)

(* Where udp_main is once the hook is set.                                 *)
AfterSigevent == "asleep"

(* ss is filled in and ofp_socket_sigevent sets the hook, or fails.        *)
SetHook ==
    /\ Alive /\ spc = "sigevent"
    /\ spc' \in {AfterSigevent, "close"}
    /\ ss' = [pkt |-> NoPacket, event |-> "INVALID"]
    /\ UNCHANGED <<mainVars, running, signals, wk, traffic>>

ServerClose ==
    /\ Alive /\ spc \in {"close", "awake"}
    /\ spc' = "returned"
    /\ UNCHANGED <<mainVars, ss, running, signals, wk, traffic>>

Server == ServerInit \/ ServerWakes \/ InitSock \/ SetHook \/ ServerClose

(* A signal, handled by whichever thread the kernel picks: the flag is     *)
(* cleared, if it is there.  If that thread is the server, its sleep       *)
(* returns.                                                                *)
Signal ==
    /\ Alive /\ pc # "setup"
    /\ signals' = signals \cup
           {IF "ofp_global" \in layers THEN "late" ELSE "early"}
    /\ running' = FALSE
    /\ spc' \in {spc} \cup (IF spc = "sleep3" THEN {"socket"} ELSE {})
                      \cup (IF spc = "asleep" THEN {"awake"} ELSE {})
    /\ UNCHANGED <<mainVars, ss, wk, traffic>>

-----------------------------------------------------------------------------
(* The workers: OFP's dispatcher, and notify                               *)

(* The hook stays with the socket until it is closed.                      *)
HookSet == spc \in {"asleep", "awake"}

Goto(w, label) == wk' = [wk EXCEPT ![w].pc = label]

(* The packets the scheduler may hand out: those of an atomic queue are    *)
(* processed by one worker at a time.                                      *)
Schedulable(p) ==
    sched_sync = "ATOMIC" =>
        \A w \in Workers :
            wk[w].own # NoPacket => queue[wk[w].own] # queue[p]

(* The dispatcher looks at the flag at the top of its loop only.           *)
Dispatch(w) ==
    /\ Alive /\ wk[w].pc = "dispatch"
    /\ Goto(w, IF running THEN "schedule" ELSE "done")
    /\ UNCHANGED <<mainVars, server, running, signals, traffic>>

NoEvent(w) ==
    /\ Alive /\ wk[w].pc = "schedule"
    /\ Goto(w, "dispatch")
    /\ UNCHANGED <<mainVars, server, running, signals, traffic>>

Receive(w, p) ==
    /\ Alive /\ wk[w].pc = "schedule" /\ HookSet
    /\ p \in pending /\ Schedulable(p)
    /\ pending' = pending \ {p}
    /\ wk' = [wk EXCEPT ![w] = [pc |-> "offer", own |-> p, pkt |-> NoPacket]]
    /\ UNCHANGED <<mainVars, server, running, signals, queue, event, sent, kept>>

(* OFP fills ss in and calls the hook.                                     *)
Offer(w) ==
    /\ Alive /\ wk[w].pc = "offer"
    /\ ss' = [pkt |-> wk[w].own, event |-> event[wk[w].own]]
    /\ Goto(w, "notify")
    /\ UNCHANGED <<mainVars, spc, running, signals, traffic>>

(* Only receive events are accepted.                                       *)
Accepted(e) == e = "RECV"

(* notify reads ss.  To parse or send an invalid packet ends the process   *)
(* in the best case.                                                       *)
Notify(w) ==
    /\ Alive /\ wk[w].pc = "notify"
    /\ wk' = [wk EXCEPT ![w].pkt = ss.pkt,
                        ![w].pc = IF Accepted(ss.event) THEN "echo" ELSE "check"]
    /\ pc' = IF Accepted(ss.event) /\ ss.pkt = NoPacket THEN "crashed" ELSE pc
    /\ UNCHANGED <<ret, layers, args, sched_sync, num_workers, created, server,
                   running, signals, traffic>>

(* ofp_udp_pkt_sendto with the packet that was received.                   *)
SendTo(w) ==
    /\ Alive /\ wk[w].pc = "echo"
    /\ sent' = [sent EXCEPT ![wk[w].pkt] = @ + 1]
    /\ Goto(w, "mark")
    /\ UNCHANGED <<mainVars, server, running, signals, queue, event, pending, kept>>

MarkedMutant == ss

(* Mark ss->pkt invalid to indicate it was released or reused by us.       *)
Marked == [ss EXCEPT !.pkt = NoPacket]

Mark(w) ==
    /\ Alive /\ wk[w].pc = "mark"
    /\ ss' = Marked
    /\ Goto(w, "check")
    /\ UNCHANGED <<mainVars, spc, running, signals, traffic>>

(* Back in OFP: a packet that is still in ss is processed further.         *)
Check(w) ==
    /\ Alive /\ wk[w].pc = "check"
    /\ kept' = IF ss.pkt = NoPacket THEN kept ELSE kept \cup {wk[w].own}
    /\ wk' = [wk EXCEPT ![w] = [pc |-> "dispatch", own |-> NoPacket,
                                pkt |-> NoPacket]]
    /\ UNCHANGED <<mainVars, server, running, signals, queue, event, pending, sent>>

Worker(w) ==
    \/ Dispatch(w) \/ NoEvent(w) \/ Offer(w) \/ Notify(w) \/ SendTo(w)
    \/ Mark(w) \/ Check(w) \/ \E p \in Packets : Receive(w, p)

Next == Main \/ Server \/ Signal \/ \E w \in Workers : Worker(w)

Spec == Init /\ [][Next]_vars

(* main and the workers run.  Nothing is asked of the server thread, of    *)
(* the signals or of the traffic.                                          *)
FairSpec ==
    Spec /\ WF_vars(Main) /\ \A w \in Workers : WF_vars(Worker(w))

-----------------------------------------------------------------------------
(* Properties.                                                             *)

InHookLabels == {"offer", "notify", "echo", "mark", "check"}

TypeOK ==
    /\ pc \in InitStages \cup DOMAIN AfterTerm \cup
             {"workers", "cli", "perf", "server", "join", "exited", "crashed"}
    /\ ret \in {"EXIT_SUCCESS", "EXIT_FAILURE"}
    /\ layers \subseteq {"odp_global", "odp_local", "ofp_global", "ofp_local"}
    /\ args \in [count : Counts, perf_stat : BOOLEAN]
    /\ sched_sync \in {"PARALLEL", "ATOMIC", "ORDERED", "unknown"}
    /\ num_workers \in 0..MAX_WORKERS /\ created \subseteq Workers
    /\ spc \in {"off", "init", "sleep3", "socket", "sigevent", "asleep", "awake",
                "close", "returned"}
    /\ ss \in [pkt : Packets \cup {NoPacket}, event : {"INVALID", "RECV", "SEND"}]
    /\ running \in BOOLEAN /\ signals \subseteq {"early", "late"}
    /\ wk \in [Workers -> [pc : {"off", "dispatch", "schedule", "done"} \cup InHookLabels,
                           own : Packets \cup {NoPacket},
                           pkt : Packets \cup {NoPacket}]]
    /\ queue \in [Packets -> Queues] /\ event \in [Packets -> {"RECV", "SEND"}]
    /\ pending \subseteq Packets /\ sent \in [Packets -> Nat] /\ kept \subseteq Packets

InHook(w) == wk[w].pc \in InHookLabels

(* The packets are handed out one at a time.                               *)
Serial ==
    /\ sched_sync \in {"ATOMIC", "unknown"}
    /\ \A p, q \in Packets : queue[p] = queue[q]

(* The packet in ss has one owner at a time when the packets come from one *)
(* atomic queue: each received packet is sent back once and not also left  *)
(* to OFP, a packet of any other event is left to OFP and not sent, and    *)
(* notify never works on an invalid packet.  With a parallel or ordered    *)
(* queue, which main only warns about, or with two queues, ss is a race.   *)
PacketHasOneOwner ==
    Serial =>
        /\ pc # "crashed"
        /\ \A p \in Packets \ pending :
              (\A w \in Workers : wk[w].own # p) =>
                  IF event[p] = "RECV" THEN sent[p] = 1 /\ p \notin kept
                                       ELSE sent[p] = 0 /\ p \in kept

(* The layers in the order they come up.                                   *)
Order == <<"odp_global", "odp_local", "ofp_global", "ofp_local">>

(* The layers go down in the reverse order of coming up, all of them on    *)
(* every path through main, and no worker is in the dispatcher any more    *)
(* when the first of them goes.                                            *)
TearDownOrder ==
    /\ \A i \in 2..4 : Order[i] \in layers => Order[i - 1] \in layers
    /\ pc = "exited" => layers = {}
    /\ pc \in DOMAIN AfterTerm \cup {"exited"} =>
           \A w \in Workers : wk[w].pc \in {"off", "done"}

(* notify works on the stack frame of udp_main.  A worker is in the hook   *)
(* while that frame is gone only after a signal: the frame is kept by a    *)
(* sleep that nothing but a signal ends.                                   *)
FrameOutlivesHook ==
    (\E w \in Workers : InHook(w)) /\ spc # "asleep" => "late" \in signals /\ ~running

(* A signal that arrives once OFP is up makes main return, whatever the    *)
(* threads are doing; an error after OFP is up does too.  A signal that    *)
(* comes earlier is lost: ofp_init_global sets the flag afterwards.        *)
StopEnds ==
    ("late" \in signals \/ ("ofp_global" \in layers /\ ~running)) ~> ~Alive
=============================================================================
