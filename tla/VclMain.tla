------------------------------- MODULE VclMain -------------------------------
(***************************************************************************)
(* Start and stop of the VCL test server (vcl-test-server/main.c): main,   *)
(* which is worker 0 too, and the threads it creates, as many as -w says.  *)
(* They share active_workers and worker_fails, volatile ints that are      *)
(* changed with += and -= and no lock, that is by a load and a store, and, *)
(* with -D, the counters in status, which are no better off.  What a       *)
(* worker does in its loop for a stream protocol is the subject of         *)
(* VclWorker; here it goes on for any time and then fails or not.  For UDP *)
(* it counts datagrams and, once a second, reports them.                   *)
(***************************************************************************)
EXTENDS Integers, FiniteSets

CONSTANTS
    Args,            \* the arguments of -w that are tried
    MaxDatagrams     \* bound: none is taken once so many are counted

(* vsm->cfg.workers, a u8, for the argument v of -w.                       *)
CfgWorkers(v) == IF v > 1 THEN v % 256 ELSE 1

ASSUME WorkersAssumption ==
    /\ Args \subseteq Int /\ Args # {} /\ MaxDatagrams \in Nat
    /\ \E v \in Args : CfgWorkers(v) > 0

Workers == UNION {0..(CfgWorkers(v) - 1) : v \in Args}
Threads == Workers \ {0}

VARIABLES
    arg,             \* the argument of -w
    proto,           \* vsm->cfg.proto
    pc,              \* where worker i is, its thread's start and end included
    tmp,             \* the value it has loaded of a shared counter
    active_workers,
    worker_fails,
    cur_pps,         \* status.cur_pps; status.total goes with it
    next,            \* i of the loop in main
    main,            \* where main is when not in its worker
    failed,          \* history: workers that went through the label fail
    counted,         \* history: workers that have added themselves and not
                     \* subtracted themselves again
    lost,            \* history: an update of a counter was overwritten
    unseen,          \* history: live workers that main had never seen counted
                     \* when it stopped waiting
    datagrams,       \* history: datagrams counted
    reported,        \* history: the sum of the reports
    miscounted       \* history: an update of cur_pps was overwritten

config  == <<arg, proto>>
shared  == <<active_workers, worker_fails>>
history == <<failed, counted, lost, unseen>>
udp     == <<cur_pps, datagrams, reported, miscounted>>
vars    == <<config, pc, tmp, shared, next, main, history, udp>>

NumWorkers == CfgWorkers(arg)

Init ==
    /\ arg \in Args /\ proto \in {"stream", "UDP"}
    /\ pc = [i \in Workers |-> IF i = 0 THEN "init" ELSE "none"]
    /\ tmp = [i \in Workers |-> 0]
    /\ active_workers = 0 /\ worker_fails = 0
    /\ next = 1 /\ main = "init"
    /\ failed = {} /\ counted = {} /\ lost = FALSE /\ unseen = {}
    /\ cur_pps = 0 /\ datagrams = 0 /\ reported = 0 /\ miscounted = FALSE

(* The process is there: main has not returned and nobody called exit.  A  *)
(* process that has used an element of conn_pool or of vsm->workers that   *)
(* is not there is not followed any further.                               *)
Alive == main \notin {"exit", "abort", "overrun"}

Goto(i, label) == pc' = [pc EXCEPT ![i] = label]

-----------------------------------------------------------------------------
(* vts_worker_init, up to the count: vtfail ends the process.  It works on *)
(* vsm->workers[i], whether or not calloc was asked for that element.      *)
WorkerInit(i) ==
    /\ Alive /\ pc[i] = "init" /\ i < NumWorkers
    /\ Goto(i, "add")
    /\ UNCHANGED <<config, udp, tmp, shared, next, main, history>>

InitFails(i) ==
    /\ Alive /\ pc[i] = "init" /\ i < NumWorkers
    /\ main' = "abort"
    /\ UNCHANGED <<config, udp, pc, tmp, shared, next, history>>

InitOverrun(i) ==
    /\ Alive /\ pc[i] = "init" /\ i >= NumWorkers
    /\ main' = "overrun"
    /\ UNCHANGED <<config, udp, pc, tmp, shared, next, history>>

(* The load of active_workers += 1 and of active_workers -= 1.             *)
LoadActive(i) ==
    /\ Alive /\ pc[i] \in {"add", "sub"}
    /\ tmp' = [tmp EXCEPT ![i] = active_workers]
    /\ Goto(i, IF pc[i] = "add" THEN "added" ELSE "subtracted")
    /\ UNCHANGED <<config, udp, shared, next, main, history>>

(* The store of active_workers += 1.  Worker 0 goes back to main, a thread *)
(* to its loop.                                                            *)
StoreAdd(i) ==
    /\ Alive /\ pc[i] = "added"
    /\ active_workers' = tmp[i] + 1
    /\ lost' = (lost \/ tmp[i] # active_workers)
    /\ counted' = counted \cup {i}
    /\ Goto(i, "loop")
    /\ main' = IF i = 0 THEN "create" ELSE main
    /\ UNCHANGED <<config, udp, tmp, worker_fails, next, failed, unseen>>

(* pthread_create, whose failure goes unnoticed.                           *)
Create ==
    /\ main = "create" /\ next < NumWorkers
    /\ next' = next + 1
    /\ \E label \in {"init", "none"} : Goto(next, label)
    /\ UNCHANGED <<config, udp, tmp, shared, main, history>>

(* main calls vts_worker_loop for worker 0.                                *)
RunWorker0 ==
    /\ main = "create" /\ next = NumWorkers
    /\ main' = "worker"
    /\ UNCHANGED <<config, udp, pc, tmp, shared, next, history>>

AfterLoopMutant(fails) == "sub"

(* The labels fail and done.                                               *)
AfterLoop(fails) == IF fails THEN "fail" ELSE "sub"

InLoop(i) == Alive /\ pc[i] = "loop" /\ (i = 0 => main = "worker")

(* For UDP only vppcom_epoll_wait ends the loop, by failing.  What a       *)
(* stream loop does to its connections and their buffers is not here.      *)
LoopEnds(i, fails) ==
    /\ InLoop(i) /\ (proto = "UDP" => fails)
    /\ Goto(i, AfterLoop(fails))
    /\ failed' = IF fails THEN failed \cup {i} ELSE failed
    /\ UNCHANGED <<config, udp, tmp, shared, next, main, counted, lost, unseen>>

(* A datagram: the load and the store of status.cur_pps ++, and of         *)
(* status.total += ... with it.                                            *)
UdpLoad(i) ==
    /\ InLoop(i) /\ proto = "UDP" /\ datagrams < MaxDatagrams
    /\ tmp' = [tmp EXCEPT ![i] = cur_pps]
    /\ Goto(i, "datagram")
    /\ UNCHANGED <<config, udp, shared, next, main, history>>

UdpStore(i) ==
    /\ Alive /\ pc[i] = "datagram"
    /\ cur_pps' = tmp[i] + 1
    /\ miscounted' = (miscounted \/ tmp[i] # cur_pps)
    /\ datagrams' = datagrams + 1
    /\ Goto(i, "period")
    /\ UNCHANGED <<config, reported, tmp, shared, next, main, history>>

(* Whether a second has passed since the last report.                      *)
UdpPeriod(i, over) ==
    /\ Alive /\ pc[i] = "period"
    /\ tmp' = [tmp EXCEPT ![i] = IF over THEN cur_pps ELSE tmp[i]]
    /\ Goto(i, IF over THEN "report" ELSE "loop")
    /\ UNCHANGED <<config, udp, shared, next, main, history>>

AfterReportMutant == cur_pps

(* status.cur_pps = 0                                                      *)
AfterReport == 0

(* status.pps, which is printed, was loaded above; now the counter starts  *)
(* again.                                                                  *)
UdpReport(i) ==
    /\ Alive /\ pc[i] = "report"
    /\ reported' = reported + tmp[i]
    /\ cur_pps' = AfterReport
    /\ miscounted' = (miscounted \/ tmp[i] # cur_pps)
    /\ Goto(i, "loop")
    /\ UNCHANGED <<config, datagrams, tmp, shared, next, main, history>>

(* An event without EPOLLIN falls out of the branch for UDP.  The session  *)
(* is in epoll with ~0 for its data: on a hang-up conn_pool[~0] is used.   *)
UdpHangUp(i) ==
    /\ InLoop(i) /\ proto = "UDP"
    /\ main' = "overrun"
    /\ UNCHANGED <<config, udp, pc, tmp, shared, next, history>>

(* worker_fails -= 1                                                       *)
LoadFails(i) ==
    /\ Alive /\ pc[i] = "fail"
    /\ tmp' = [tmp EXCEPT ![i] = worker_fails]
    /\ Goto(i, "failing")
    /\ UNCHANGED <<config, udp, shared, next, main, history>>

StoreFails(i) ==
    /\ Alive /\ pc[i] = "failing"
    /\ worker_fails' = tmp[i] - 1
    /\ lost' = (lost \/ tmp[i] # worker_fails)
    /\ Goto(i, "sub")
    /\ UNCHANGED <<config, udp, tmp, active_workers, next, main, failed, counted, unseen>>

SubtractedMutant(i) == IF i \in failed THEN tmp[i] ELSE tmp[i] - 1

(* The new value of active_workers -= 1.                                   *)
Subtracted(i) == tmp[i] - 1

(* Its store, after which the worker touches nothing shared.               *)
StoreSub(i) ==
    /\ Alive /\ pc[i] = "subtracted"
    /\ active_workers' = Subtracted(i)
    /\ lost' = (lost \/ tmp[i] # active_workers)
    /\ counted' = counted \ {i}
    /\ Goto(i, "done")
    /\ main' = IF i = 0 THEN "spin" ELSE main
    /\ UNCHANGED <<config, udp, tmp, worker_fails, next, failed, unseen>>

Live == {i \in Threads : pc[i] \notin {"none", "done"}}

SpinOverEarlyMutant == active_workers =< 1
SpinOverLateMutant == active_workers < 0

(* The condition of main's last loop.                                      *)
SpinOver == active_workers =< 0

(* main stops waiting: vppcom_app_destroy and free(vsm->workers).          *)
StopWaiting ==
    /\ main = "spin" /\ SpinOver
    /\ main' = "freed"
    /\ unseen' = {i \in Live : i \notin counted}
    /\ UNCHANGED <<config, udp, pc, tmp, shared, next, failed, counted, lost>>

Return ==
    /\ main = "freed"
    /\ main' = "exit"
    /\ UNCHANGED <<config, udp, pc, tmp, shared, next, history>>

-----------------------------------------------------------------------------
Main == Create \/ RunWorker0 \/ StopWaiting \/ Return

(* What a worker does outside its loop.                                    *)
Step(i) ==
    \/ WorkerInit(i) \/ LoadActive(i) \/ StoreAdd(i)
    \/ LoadFails(i) \/ StoreFails(i) \/ StoreSub(i)
    \/ UdpStore(i) \/ UdpReport(i) \/ \E over \in BOOLEAN : UdpPeriod(i, over)

Next ==
    \/ Main
    \/ \E i \in Workers : \/ Step(i) \/ InitFails(i) \/ InitOverrun(i)
                          \/ UdpLoad(i) \/ UdpHangUp(i)
    \/ \E i \in Workers, fails \in BOOLEAN : LoopEnds(i, fails)

Spec == Init /\ [][Next]_vars

(* Every thread runs; a worker's loop need not end.                        *)
FairSpec == Spec /\ WF_vars(Main) /\ \A i \in Workers : WF_vars(Step(i))

-----------------------------------------------------------------------------
(* Properties.                                                             *)

TypeOK ==
    /\ arg \in Args /\ proto \in {"stream", "UDP"}
    /\ pc \in [Workers -> {"none", "init", "add", "added", "loop", "fail",
                           "failing", "sub", "subtracted", "done",
                           "datagram", "period", "report"}]
    /\ tmp \in [Workers -> Int]
    /\ active_workers \in Int /\ worker_fails \in Int
    /\ next \in 1..(NumWorkers + 1)
    /\ main \in {"init", "create", "worker", "spin", "freed", "exit", "abort",
                 "overrun"}
    /\ cur_pps \in Nat /\ datagrams \in Nat /\ reported \in Nat
    /\ miscounted \in BOOLEAN
    /\ failed \subseteq Workers /\ counted \subseteq Workers
    /\ lost \in BOOLEAN /\ unseen \subseteq Threads

(* As long as no two updates of a counter have overlapped, active_workers  *)
(* is the number of workers between vts_worker_init and the end of         *)
(* vts_worker_loop, on every path through it.                              *)
CountWithoutRace == ~lost => active_workers = Cardinality(counted)

(* main frees the workers under a thread only if an update was lost, or    *)
(* that thread had not counted itself when main looked: the wait is for    *)
(* the workers that are counted, not for those that were created.          *)
EarlyFreeOnlyIfUncounted == main = "freed" /\ ~lost => Live \subseteq unseen

(* The exit status tells how many workers failed, if no update was lost    *)
(* and no thread was left behind.                                          *)
ExitStatus ==
    main = "exit" /\ ~lost /\ unseen = {} => worker_fails = -Cardinality(failed)

(* Once all workers have left their loops, main returns, unless an update  *)
(* was lost: a lost -= 1 leaves it spinning for good.                      *)
ProgramEnds ==
    (\A i \in Workers : pc[i] \notin {"init", "add", "added", "loop",
                                      "datagram", "period", "report"})
        ~> (lost \/ ~Alive)

(* Every datagram is in exactly one report or still to be reported, as     *)
(* long as no two workers have met at the counter; one worker alone never  *)
(* miscounts, between the load for a report and the reset included.        *)
DatagramsReported ==
    /\ ~miscounted => reported + cur_pps = datagrams
    /\ NumWorkers = 1 => ~miscounted
=============================================================================
