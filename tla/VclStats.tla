------------------------------ MODULE VclStats -------------------------------
(***************************************************************************)
(* The results of a stream test (vcl-test-server/main.c): when the control *)
(* connection of a test sends its own handle back, vts_server_start_stop   *)
(* walks over the connection pool and adds the statistics of every slot    *)
(* whose cfg.ctrl_handle is that handle to those of the control            *)
(* connection, in place.  The walk meets the control connection's own slot *)
(* too, and slots that conn_pool_free gave back with their configuration   *)
(* and statistics.                                                         *)
(*                                                                         *)
(* The operators take a pool and return it; stats is cut down to rx_bytes  *)
(* and to the seconds of stop.  They are applied to the pool of VclWorker  *)
(* whenever the worker is about to handle the message: the counts are      *)
(* those the worker has made, the handles and the times are any.           *)
(***************************************************************************)
EXTENDS VclWorker, FiniteSetsExt

CONSTANTS
    MaxStop,     \* bound on the stop times tried
    Delay        \* VCL_TEST_DELAY_DISCONNECT

ASSUME StatsAssumption == MaxStop \in Nat /\ Delay \in Nat \ {0}

(* vcl_comp_tspec                                                          *)
Later(s, t) == IF s < t THEN t ELSE s

AccumulateAllMutant(p, c, i) ==  \* no test of ctrl_handle
    [p EXCEPT ![c].rx = @ + p[i].rx,
              ![c].stop = Later(@, p[i].stop) - Delay]

AccumulateEarliestMutant(p, c, i) ==  \* vcl_comp_tspec(...) > 0
    IF ~p[i].joined THEN p
    ELSE [p EXCEPT ![c].rx = @ + p[i].rx,
                   ![c].stop = Min({@, p[i].stop}) - Delay]

(* One turn of the loop, for the slot i and the control connection at c.   *)
(* joined: the slot's ctrl_handle is the handle of the control connection. *)
Accumulate(p, c, i) ==
    IF ~p[i].joined THEN p
    ELSE [p EXCEPT ![c].rx = @ + p[i].rx,
                   ![c].stop = Later(@, p[i].stop) - Delay]

(* The loop: the pool p after its first turns, up to all of them.          *)
Walk(p, c) ==
    LET walk[k \in 0..size] ==
            IF k = 0 THEN p ELSE Accumulate(walk[k - 1], c, k - 1)
    IN  walk

(* The statistics dumped as "SERVER RESULTS".                              *)
Results(p, c) == Walk(p, c)[size][c]

-----------------------------------------------------------------------------
(* Properties.                                                             *)

(* The worker has read the message that asks for the results.              *)
ResultsAsked == \E f \in Fds, m \in Streams : Reads(f, m) /\ IsConfig(m)

InPool == 0..(size - 1)

(* The pool when it is summed up: the request itself is counted.           *)
ConnPool(joined, stop) ==
    [i \in InPool |->
        [joined |-> i \in joined, stop |-> stop[i],
         rx     |-> IF i = cur THEN Counted(rx[i]) ELSE rx[i]]]

SumRx(p, S) == MapThenSumSet(LAMBDA i : p[i].rx, S)

(* No byte of a connection of the test is left out of the results and none *)
(* is counted more than twice, though the sum is built up in a slot that   *)
(* is one of the summands.  Members in slots above the control             *)
(* connection's are counted once; those below it, and the control          *)
(* connection itself, which has read at least the request, twice.          *)
ResultsBounded ==
    ResultsAsked =>
        \A joined \in SUBSET InPool :
            LET p     == ConnPool(joined, [i \in InPool |-> 0])
                all   == SumRx(p, joined \cup {cur})
                below == {i \in joined : i < cur}
            IN  /\ Results(p, cur).rx \in all..(2 * all)
                /\ cur \in joined =>
                       Results(p, cur).rx = all + p[cur].rx + SumRx(p, below)

(* The stop time of the results is that of the connection that stopped     *)
(* last, less the time by which the client delays its disconnect: exactly  *)
(* so when one slot took part, and off by at most one more delay for each  *)
(* further slot, since the loop subtracts it every time.                   *)
StopAdjusted ==
    ResultsAsked =>
        \A joined \in SUBSET InPool, stop \in [InPool -> 0..MaxStop] :
            LET result == Results(ConnPool(joined, stop), cur).stop
                n      == Cardinality(joined)
                latest == Max({stop[i] : i \in joined \cup {cur}})
            IN  IF n = 0 THEN result = stop[cur]
                ELSE result \in (latest - n * Delay)..(latest - Delay)
=============================================================================
