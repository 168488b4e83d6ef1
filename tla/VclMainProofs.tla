---------------------------- MODULE VclMainProofs ----------------------------
(***************************************************************************)
(* Proofs about VclMain, for all arguments of -w, that is for up to 255    *)
(* workers, and any number of datagrams.                                   *)
(***************************************************************************)
EXTENDS VclMain, FiniteSetTheorems, TLAPS

(* Where a worker is between vts_worker_init and the end of its loop.      *)
CountedAt ==
    {"loop", "datagram", "period", "report", "fail", "failing", "sub", "subtracted"}

(* The history variable counted says where the workers are.                *)
CountedWhere == counted = {i \in Workers : pc[i] \in CountedAt}

(* A worker fails at most once: it is in failed from the label fail on.    *)
FailedWhere ==
    \A i \in Workers :
        /\ pc[i] \in {"fail", "failing"} => i \in failed
        /\ i \in failed => pc[i] \in {"fail", "failing", "sub", "subtracted", "done"}

(* The failed workers that have done worker_fails -= 1.                    *)
FailsDone == {i \in failed : pc[i] \notin {"fail", "failing"}}

(* worker_fails counts them as long as no update was lost.                 *)
FailsWithoutRace == ~lost => worker_fails = -Cardinality(FailsDone)

(* Threads are created in order, at most as many as there are elements in  *)
(* vsm->workers.                                                           *)
CreatedInOrder ==
    /\ next =< NumWorkers \/ next = 1
    /\ \A i \in Threads : i >= next => pc[i] = "none"

(* main waits, frees and returns after its own worker is through.          *)
MainAfterWorker0 == main \in {"spin", "freed", "exit"} => pc[0] = "done"

(* EarlyFreeOnlyIfUncounted goes on to hold when main has returned.        *)
LeftBehind == main \in {"freed", "exit"} /\ ~lost => Live \subseteq unseen

(* What is loaded of cur_pps: with one worker it is still there.           *)
LoadedPps ==
    /\ \A i \in Workers : pc[i] \in {"datagram", "report"} => tmp[i] \in Nat
    /\ NumWorkers = 1 /\ pc[0] \in {"datagram", "report"} => tmp[0] = cur_pps

(* The inductive invariant.                                                *)
IInv ==
    /\ TypeOK /\ CountedWhere /\ CountWithoutRace
    /\ FailedWhere /\ FailsWithoutRace
    /\ CreatedInOrder /\ MainAfterWorker0 /\ LeftBehind
    /\ LoadedPps /\ DatagramsReported

USE WorkersAssumption

(* cfg.workers is a u8, and the option tried always leaves worker 0.       *)
LEMMA WorkersFinite ==
    /\ IsFiniteSet(Workers) /\ 0 \in Workers /\ Workers \subseteq Nat
    /\ \A v \in Args : CfgWorkers(v) \in 0..255
<1>0. \A v \in Int : v % 256 \in 0..255
  OBVIOUS
<1>1. ASSUME NEW v \in Args PROVE CfgWorkers(v) \in 0..255
  BY <1>0 DEF CfgWorkers
<1>2. ASSUME NEW i \in Workers PROVE i \in 0..255
  <2>1. PICK v \in Args : i \in 0..(CfgWorkers(v) - 1)
    BY DEF Workers
  <2> QED
    BY <1>1, <2>1
<1>3. IsFiniteSet(0..255)
  <2>1. 0 \in Int /\ 255 \in Int
    OBVIOUS
  <2> QED
    BY <2>1, FS_Interval, Zenon
<1>4. IsFiniteSet(Workers)
  BY <1>2, <1>3, FS_Subset
<1>5. 0 \in Workers
  <2>1. PICK v \in Args : CfgWorkers(v) > 0
    OBVIOUS
  <2>2. 0 \in 0..(CfgWorkers(v) - 1)
    BY <1>1, <2>1
  <2> QED
    BY <2>2 DEF Workers
<1> QED
  BY <1>1, <1>2, <1>4, <1>5

(* The elements of vsm->workers are among the workers.                     *)
LEMMA Elements ==
    ASSUME TypeOK
    PROVE  /\ NumWorkers \in 0..255
           /\ \A i \in Nat : i < NumWorkers => i \in Workers
<1>1. arg \in Args /\ arg \in Int /\ NumWorkers \in 0..255
  BY WorkersFinite DEF TypeOK, NumWorkers
<1>2. ASSUME NEW i \in Nat, i < NumWorkers PROVE i \in Workers
  <2>1. i \in 0..(CfgWorkers(arg) - 1)
    BY <1>1, <1>2 DEF NumWorkers
  <2> QED
    BY <1>1, <2>1 DEF Workers
<1> QED
  BY <1>1, <1>2

(* The initial states satisfy the invariant.                               *)
LEMMA InitInv == Init => IInv
<1> SUFFICES ASSUME Init PROVE IInv
  OBVIOUS
<1>0. 0 \in Workers /\ Workers \subseteq Nat /\ IsFiniteSet(Workers)
  BY WorkersFinite
<1>1. TypeOK
  <2>1. arg \in Args /\ NumWorkers \in 0..255
    BY WorkersFinite DEF Init, NumWorkers
  <2>2. /\ miscounted \in BOOLEAN /\ lost \in BOOLEAN
    BY Zenon DEF Init
  <2>3. /\ next \in 1..(NumWorkers + 1) /\ tmp \in [Workers -> Int]
        /\ active_workers \in Int /\ worker_fails \in Int
        /\ cur_pps \in Nat /\ datagrams \in Nat /\ reported \in Nat
    BY <2>1 DEF Init
  <2>4. pc \in [Workers -> {"none", "init"}]
    BY DEF Init
  <2>5. /\ proto \in {"stream", "UDP"} /\ main = "init"
        /\ failed = {} /\ counted = {} /\ unseen = {}
    BY DEF Init
  <2> QED
    BY <2>1, <2>2, <2>3, <2>4, <2>5 DEF TypeOK
<1>2. \A i \in Workers : pc[i] = IF i = 0 THEN "init" ELSE "none"
  BY DEF Init
<1>3. CountedWhere /\ CountWithoutRace
  BY <1>2, FS_EmptySet DEF CountedWhere, CountWithoutRace, CountedAt, Init
<1>4. FailedWhere /\ FailsWithoutRace
  <2>1. FailsDone = {}
    BY DEF FailsDone, Init
  <2> QED
    BY <1>2, <2>1, FS_EmptySet DEF FailedWhere, FailsWithoutRace, Init
<1>5. CreatedInOrder /\ MainAfterWorker0 /\ LeftBehind
  BY <1>0, <1>2 DEF CreatedInOrder, MainAfterWorker0, LeftBehind,
                    Threads, Init
<1>6. LoadedPps /\ DatagramsReported
  BY <1>0, <1>2 DEF LoadedPps, DatagramsReported, Init
<1> QED
  BY <1>1, <1>3, <1>4, <1>5, <1>6 DEF IInv

(* A step of worker i that neither counts nor uncounts it, and neither     *)
(* starts nor ends it, keeps what is said of the workers.                  *)
LEMMA QuietStep ==
    ASSUME IInv, NEW i \in Workers, NEW label, Goto(i, label),
           UNCHANGED <<config, shared, next, main, history>>,
           label \in CountedAt <=> pc[i] \in CountedAt,
           label \in {"fail", "failing"} <=> pc[i] \in {"fail", "failing"},
           pc[i] \notin {"none", "done"},
           i \in failed => label \in {"fail", "failing", "sub", "subtracted", "done"}
    PROVE  /\ CountedWhere' /\ CountWithoutRace' /\ FailedWhere' /\ FailsWithoutRace'
           /\ CreatedInOrder' /\ MainAfterWorker0' /\ LeftBehind'
<1> USE DEF config, shared, history
<1>1. pc'[i] = label /\ \A j \in Workers : j # i => pc'[j] = pc[j]
  BY DEF Goto, IInv, TypeOK
<1>2. CountedWhere' /\ CountWithoutRace'
  BY <1>1 DEF IInv, CountedWhere, CountWithoutRace
<1>3. FailedWhere'
  BY <1>1 DEF IInv, FailedWhere
<1>4. FailsWithoutRace'
  <2>1. FailsDone' = FailsDone
    BY <1>1 DEF FailsDone, IInv, TypeOK
  <2> QED
    BY <2>1 DEF IInv, FailsWithoutRace
<1>5. CreatedInOrder'
  BY <1>1 DEF IInv, CreatedInOrder, NumWorkers, Threads
<1>6. MainAfterWorker0'
  BY <1>1, WorkersFinite DEF IInv, MainAfterWorker0
<1>7. LeftBehind'
  <2>1. Live' \subseteq Live
    BY <1>1 DEF Live, Threads
  <2> QED
    BY <2>1 DEF IInv, LeftBehind
<1> QED
  BY <1>2, <1>3, <1>4, <1>5, <1>6, <1>7

(* A step of the workers' counters leaves the counters of datagrams alone. *)
LEMMA PpsUntouched ==
    ASSUME IInv, NEW i \in Workers, NEW label, Goto(i, label),
           label \notin {"datagram", "report"},
           UNCHANGED <<config, cur_pps, datagrams, reported, miscounted>>,
           \A j \in Workers : j # i => tmp'[j] = tmp[j]
    PROVE  LoadedPps' /\ DatagramsReported'
<1>1. pc'[i] = label /\ \A j \in Workers : j # i => pc'[j] = pc[j]
  BY DEF Goto, IInv, TypeOK
<1>2. NumWorkers' = NumWorkers /\ 0 \in Workers
  BY WorkersFinite DEF NumWorkers, config
<1> QED
  BY <1>1, <1>2 DEF IInv, LoadedPps, DatagramsReported

(* With one worker nobody but worker 0 takes a step.                       *)
LEMMA Alone ==
    ASSUME IInv, NumWorkers = 1, NEW i \in Workers, pc[i] # "none"
    PROVE  i = 0
<1>1. next = 1
  BY DEF IInv, TypeOK, CreatedInOrder
<1> QED
  BY <1>1, WorkersFinite DEF IInv, CreatedInOrder, Threads

(* The steps of a worker that count and report datagrams, and those that   *)
(* only load a counter or start it.                                        *)
LEMMA QuietInv ==
    ASSUME IInv, NEW i \in Workers,
           \/ WorkerInit(i) \/ LoadActive(i) \/ LoadFails(i) \/ UdpLoad(i)
           \/ UdpStore(i) \/ UdpReport(i) \/ \E over \in BOOLEAN : UdpPeriod(i, over)
    PROVE  IInv'
<1> USE DEF udp
<1>0. TypeOK /\ 0 \in Workers
  BY WorkersFinite DEF IInv
<1>1. ASSUME WorkerInit(i) \/ LoadActive(i) \/ LoadFails(i) PROVE IInv'
  <2>1. PICK label \in {"add", "added", "subtracted", "failing"} :
           /\ Goto(i, label)
           /\ label = "add" => pc[i] = "init"
           /\ label = "added" => pc[i] = "add"
           /\ label = "subtracted" => pc[i] = "sub"
           /\ label = "failing" => pc[i] = "fail"
    BY <1>1 DEF WorkerInit, LoadActive, LoadFails
  <2>2. /\ UNCHANGED <<config, shared, next, main, history, udp>>
        /\ \A j \in Workers : j # i => tmp'[j] = tmp[j]
        /\ tmp' \in [Workers -> Int]
    BY <1>0, <1>1 DEF WorkerInit, LoadActive, LoadFails, TypeOK
  <2>3. /\ CountedWhere' /\ CountWithoutRace' /\ FailedWhere' /\ FailsWithoutRace'
        /\ CreatedInOrder' /\ MainAfterWorker0' /\ LeftBehind'
    <3>1. i \in failed => pc[i] \in {"fail", "failing", "sub", "subtracted", "done"}
      BY DEF IInv, FailedWhere
    <3> QED
      BY <2>1, <2>2, <3>1, QuietStep DEF CountedAt, udp
  <2>4. LoadedPps' /\ DatagramsReported'
    BY <2>1, <2>2, PpsUntouched
  <2>5. TypeOK'
    BY <1>0, <2>1, <2>2 DEF TypeOK, Goto, config, shared, history, NumWorkers
  <2> QED
    BY <2>3, <2>4, <2>5 DEF IInv
<1>2. ASSUME \/ UdpLoad(i) \/ UdpStore(i) \/ UdpReport(i)
             \/ \E over \in BOOLEAN : UdpPeriod(i, over)
      PROVE  IInv'
  <2>1. PICK label \in {"datagram", "period", "report", "loop"} : Goto(i, label)
    BY <1>2 DEF UdpLoad, UdpStore, UdpReport, UdpPeriod
  <2>2. /\ UNCHANGED <<config, shared, next, main, history>>
        /\ pc[i] \in {"datagram", "period", "report", "loop"}
    BY <1>2 DEF UdpLoad, UdpStore, UdpReport, UdpPeriod, InLoop
  <2>3. /\ CountedWhere' /\ CountWithoutRace' /\ FailedWhere' /\ FailsWithoutRace'
        /\ CreatedInOrder' /\ MainAfterWorker0' /\ LeftBehind'
    <3>1. i \notin failed
      BY <2>2 DEF IInv, FailedWhere
    <3> QED
      BY <2>1, <2>2, <3>1, QuietStep DEF CountedAt
  <2>4. NumWorkers' = NumWorkers /\ (NumWorkers = 1 => i = 0)
    BY <2>2, Alone DEF NumWorkers, config
  <2>5. pc'[i] = label /\ \A j \in Workers : j # i => pc'[j] = pc[j]
    BY <1>0, <2>1 DEF Goto, TypeOK
  <2>6. tmp \in [Workers -> Int] /\ cur_pps \in Nat /\ datagrams \in Nat /\ reported \in Nat
    BY <1>0 DEF TypeOK
  <2> DEFINE Counters == /\ tmp' \in [Workers -> Int]
                         /\ cur_pps' \in Nat /\ datagrams' \in Nat /\ reported' \in Nat
                         /\ miscounted' \in BOOLEAN
  <2>7. ASSUME UdpLoad(i) PROVE LoadedPps' /\ DatagramsReported' /\ Counters
    <3>1. /\ label = "datagram" /\ tmp' = [tmp EXCEPT ![i] = cur_pps]
          /\ UNCHANGED <<cur_pps, datagrams, reported, miscounted>>
      BY <2>5, <2>7, <1>0 DEF UdpLoad, Goto, TypeOK
    <3>2. LoadedPps' /\ DatagramsReported'
      BY <1>0, <2>4, <2>5, <2>6, <3>1 DEF IInv, LoadedPps, DatagramsReported
    <3>3. Counters
      BY <1>0, <2>6, <3>1 DEF TypeOK
    <3> QED
      BY <3>2, <3>3
  <2>8. ASSUME UdpStore(i) PROVE LoadedPps' /\ DatagramsReported' /\ Counters
    <3>1. /\ label = "period" /\ pc[i] = "datagram" /\ tmp' = tmp /\ reported' = reported
          /\ cur_pps' = tmp[i] + 1 /\ datagrams' = datagrams + 1
          /\ miscounted' = (miscounted \/ tmp[i] # cur_pps)
      BY <2>5, <2>8, <1>0 DEF UdpStore, Goto, TypeOK
    <3>2. tmp[i] \in Nat /\ (NumWorkers = 1 => tmp[i] = cur_pps)
      BY <2>4, <3>1 DEF IInv, LoadedPps
    <3>3. LoadedPps'
      BY <1>0, <2>4, <2>5, <3>1 DEF IInv, LoadedPps
    <3>4. DatagramsReported'
      <4>1. ~miscounted' => ~miscounted /\ tmp[i] = cur_pps
        BY <3>1, Zenon
      <4>2. NumWorkers = 1 => ~miscounted'
        BY <3>1, <3>2, Zenon DEF IInv, DatagramsReported
      <4> QED
        BY <2>4, <2>6, <3>1, <3>2, <4>1, <4>2 DEF IInv, DatagramsReported
    <3>5. Counters
      BY <1>0, <2>6, <3>1, <3>2 DEF TypeOK
    <3> QED
      BY <3>3, <3>4, <3>5
  <2>9. ASSUME UdpReport(i) PROVE LoadedPps' /\ DatagramsReported' /\ Counters
    <3>1. /\ label = "loop" /\ pc[i] = "report" /\ tmp' = tmp /\ datagrams' = datagrams
          /\ cur_pps' = 0 /\ reported' = reported + tmp[i]
          /\ miscounted' = (miscounted \/ tmp[i] # cur_pps)
      BY <2>5, <2>9, <1>0 DEF UdpReport, Goto, TypeOK, AfterReport
    <3>2. tmp[i] \in Nat /\ (NumWorkers = 1 => tmp[i] = cur_pps)
      BY <2>4, <3>1 DEF IInv, LoadedPps
    <3>3. LoadedPps'
      BY <1>0, <2>4, <2>5, <3>1 DEF IInv, LoadedPps
    <3>4. DatagramsReported'
      <4>1. ~miscounted' => ~miscounted /\ tmp[i] = cur_pps
        BY <3>1, Zenon
      <4>2. NumWorkers = 1 => ~miscounted'
        BY <3>1, <3>2, Zenon DEF IInv, DatagramsReported
      <4> QED
        BY <2>4, <2>6, <3>1, <3>2, <4>1, <4>2 DEF IInv, DatagramsReported
    <3>5. Counters
      BY <1>0, <2>6, <3>1, <3>2 DEF TypeOK
    <3> QED
      BY <3>3, <3>4, <3>5
  <2>10. ASSUME \E over \in BOOLEAN : UdpPeriod(i, over) PROVE LoadedPps' /\ DatagramsReported' /\ Counters
    <3>1. /\ UNCHANGED <<cur_pps, datagrams, reported, miscounted>>
          /\ \/ label = "report" /\ tmp' = [tmp EXCEPT ![i] = cur_pps]
             \/ label = "loop" /\ tmp' = [tmp EXCEPT ![i] = tmp[i]]
      BY <2>5, <2>10, <1>0 DEF UdpPeriod, Goto, TypeOK
    <3>2. LoadedPps' /\ DatagramsReported'
      BY <1>0, <2>4, <2>5, <2>6, <3>1 DEF IInv, LoadedPps, DatagramsReported
    <3>3. Counters
      BY <1>0, <2>6, <3>1 DEF TypeOK
    <3> QED
      BY <3>2, <3>3
  <2>11. LoadedPps' /\ DatagramsReported' /\ Counters
    BY <1>2, <2>7, <2>8, <2>9, <2>10
  <2>12. TypeOK'
    BY <1>0, <2>1, <2>2, <2>11 DEF TypeOK, Goto, config, shared, history, NumWorkers
  <2> QED
    BY <2>3, <2>11, <2>12 DEF IInv
<1> QED
  BY <1>1, <1>2

(* The two stores to active_workers: if nothing was lost, it is still what *)
(* was loaded, and one worker enters or leaves the set it counts.          *)
LEMMA StoreInv ==
    ASSUME IInv, NEW i \in Workers, StoreAdd(i) \/ StoreSub(i)
    PROVE  IInv'
<1>0. TypeOK /\ 0 \in Workers /\ Workers \subseteq Nat /\ IsFiniteSet(Workers)
  BY WorkersFinite DEF IInv
<1>1. PICK label \in {"loop", "done"} :
         /\ Goto(i, label)
         /\ label = "loop" => StoreAdd(i)
         /\ label = "done" => StoreSub(i)
  BY DEF StoreAdd, StoreSub
<1>2. pc'[i] = label /\ \A j \in Workers : j # i => pc'[j] = pc[j]
  BY <1>0, <1>1 DEF Goto, TypeOK
<1>3. /\ UNCHANGED <<config, udp, tmp, worker_fails, next, failed, unseen>>
      /\ lost' = (lost \/ tmp[i] # active_workers)
      /\ label = "loop" => /\ pc[i] = "added" /\ active_workers' = tmp[i] + 1
                           /\ counted' = counted \cup {i}
                           /\ main' = IF i = 0 THEN "create" ELSE main
      /\ label = "done" => /\ pc[i] = "subtracted" /\ active_workers' = tmp[i] - 1
                           /\ counted' = counted \ {i}
                           /\ main' = IF i = 0 THEN "spin" ELSE main
  BY <1>1 DEF StoreAdd, StoreSub, Subtracted
<1>4. NumWorkers' = NumWorkers
  BY <1>3 DEF NumWorkers, config
<1>5. TypeOK'
  <2>1. tmp[i] + 1 \in Int /\ tmp[i] - 1 \in Int
    BY <1>0 DEF TypeOK
  <2> QED
    BY <1>0, <1>1, <1>3, <1>4, <2>1 DEF TypeOK, Goto, config, udp
<1>6. /\ lost => lost'
      /\ ~lost' => ~lost /\ tmp[i] = active_workers
  BY <1>3, Zenon
<1>7. CountedWhere'
  BY <1>1, <1>2, <1>3 DEF IInv, CountedWhere, CountedAt
<1>8. CountWithoutRace'
  <2>1. IsFiniteSet(counted)
    BY <1>0, FS_Subset DEF TypeOK
  <2>2. /\ label = "loop" => i \notin counted
        /\ label = "done" => i \in counted
    BY <1>3 DEF IInv, CountedWhere, CountedAt
  <2>3. /\ Cardinality(counted) \in Nat
        /\ label = "loop" => Cardinality(counted') = Cardinality(counted) + 1
        /\ label = "done" => Cardinality(counted') = Cardinality(counted) - 1
    BY <1>3, <2>1, <2>2, FS_AddElement, FS_RemoveElement, FS_CardinalityType
  <2> QED
    BY <1>1, <1>3, <1>6, <2>3 DEF IInv, CountWithoutRace
<1>9. FailedWhere'
  BY <1>1, <1>2, <1>3 DEF IInv, FailedWhere
<1>10. FailsWithoutRace'
  <2>1. FailsDone' = FailsDone
    BY <1>0, <1>1, <1>2, <1>3 DEF FailsDone, TypeOK
  <2> QED
    BY <1>3, <1>6, <2>1 DEF IInv, FailsWithoutRace
<1>11. CreatedInOrder'
  BY <1>1, <1>2, <1>3, <1>4 DEF IInv, CreatedInOrder, Threads
<1>12. MainAfterWorker0'
  BY <1>0, <1>1, <1>2, <1>3 DEF IInv, MainAfterWorker0, config, udp
<1>13. LeftBehind'
  <2>1. Live' \subseteq Live
    BY <1>1, <1>2, <1>3 DEF Live, Threads
  <2>2. main' \in {"freed", "exit"} => main' = main
    BY <1>1, <1>3
  <2> QED
    BY <1>3, <1>6, <2>1, <2>2 DEF IInv, LeftBehind
<1>14. LoadedPps' /\ DatagramsReported'
  BY <1>1, <1>3, PpsUntouched DEF udp
<1> QED
  BY <1>5, <1>7, <1>8, <1>9, <1>10, <1>11, <1>12, <1>13, <1>14 DEF IInv

(* The loop ends, or the failure is counted: counted stays, and a failed   *)
(* worker is in FailsDone once worker_fails was stored.                    *)
LEMMA FailInv ==
    ASSUME IInv, NEW i \in Workers,
           StoreFails(i) \/ \E fails \in BOOLEAN : LoopEnds(i, fails)
    PROVE  IInv'
<1>0. TypeOK /\ 0 \in Workers /\ Workers \subseteq Nat /\ IsFiniteSet(Workers)
  BY WorkersFinite DEF IInv
<1>1. PICK label \in {"sub", "fail"} : Goto(i, label)
  BY DEF StoreFails, LoopEnds, AfterLoop
<1>2. pc'[i] = label /\ \A j \in Workers : j # i => pc'[j] = pc[j]
  BY <1>0, <1>1 DEF Goto, TypeOK
<1>3. UNCHANGED <<config, udp, tmp, active_workers, next, main, counted, unseen>>
  BY DEF StoreFails, LoopEnds, shared
<1>4. \/ /\ label = "sub" /\ pc[i] = "failing" /\ worker_fails' = tmp[i] - 1
         /\ failed' = failed /\ lost' = (lost \/ tmp[i] # worker_fails)
      \/ /\ label = "sub" /\ pc[i] = "loop" /\ UNCHANGED <<worker_fails, failed, lost>>
      \/ /\ label = "fail" /\ pc[i] = "loop" /\ UNCHANGED <<worker_fails, lost>>
         /\ failed' = failed \cup {i}
  BY <1>0, <1>2 DEF StoreFails, LoopEnds, AfterLoop, InLoop, Goto, TypeOK, shared
<1>5. NumWorkers' = NumWorkers
  BY <1>3 DEF NumWorkers, config
<1>6. TypeOK'
  <2>1. tmp[i] - 1 \in Int
    BY <1>0 DEF TypeOK
  <2>2. lost' \in BOOLEAN /\ worker_fails' \in Int /\ failed' \subseteq Workers
    BY <1>0, <1>4, <2>1 DEF TypeOK
  <2> QED
    BY <1>0, <1>1, <1>3, <1>5, <2>2 DEF TypeOK, Goto, config, udp
<1>7. lost => lost'
  BY <1>4, Zenon
<1>8. CountedWhere' /\ CountWithoutRace'
  BY <1>1, <1>2, <1>3, <1>4, <1>7 DEF IInv, CountedWhere, CountedAt, CountWithoutRace
<1>9. FailedWhere'
  BY <1>2, <1>4 DEF IInv, FailedWhere
<1>10. FailsWithoutRace'
  <2>0. i \in failed <=> pc[i] = "failing"
    BY <1>4 DEF IInv, FailedWhere
  <2>1. CASE pc[i] = "failing"
    <3>1. FailsDone' = FailsDone \cup {i} /\ i \notin FailsDone
      BY <1>0, <1>2, <1>4, <2>0, <2>1 DEF FailsDone, TypeOK
    <3>2. FailsDone \subseteq Workers
      BY <1>0 DEF FailsDone, TypeOK
    <3>3. IsFiniteSet(FailsDone)
      BY <1>0, <3>2, FS_Subset
    <3>4. /\ Cardinality(FailsDone') = Cardinality(FailsDone) + 1
          /\ Cardinality(FailsDone) \in Nat
      BY <3>1, <3>3, FS_AddElement, FS_CardinalityType
    <3>5. ~lost' => ~lost /\ tmp[i] = worker_fails
      BY <1>4, <2>1, Zenon
    <3> QED
      BY <1>4, <2>1, <3>4, <3>5 DEF IInv, FailsWithoutRace
  <2>2. CASE pc[i] = "loop"
    <3>1. FailsDone' = FailsDone
      BY <1>0, <1>2, <1>4, <2>0, <2>2 DEF FailsDone, TypeOK
    <3> QED
      BY <1>4, <2>2, <3>1 DEF IInv, FailsWithoutRace
  <2> QED
    BY <1>4, <2>1, <2>2
<1>11. CreatedInOrder'
  BY <1>2, <1>3, <1>4, <1>5 DEF IInv, CreatedInOrder, Threads
<1>12. MainAfterWorker0'
  BY <1>0, <1>2, <1>3, <1>4 DEF IInv, MainAfterWorker0, config, udp
<1>13. LeftBehind'
  <2>1. Live' \subseteq Live
    BY <1>2, <1>4 DEF Live, Threads
  <2> QED
    BY <1>3, <1>7, <2>1 DEF IInv, LeftBehind
<1>14. LoadedPps' /\ DatagramsReported'
  BY <1>1, <1>3, PpsUntouched DEF udp
<1> QED
  BY <1>6, <1>8, <1>9, <1>10, <1>11, <1>12, <1>13, <1>14 DEF IInv

(* The steps that move no worker: the process ends, or main goes on.  When *)
(* main stops waiting and nothing was lost, nobody is counted.             *)
LEMMA MainInv ==
    ASSUME IInv,
           \/ \E i \in Workers : InitFails(i) \/ InitOverrun(i) \/ UdpHangUp(i)
           \/ RunWorker0 \/ StopWaiting \/ Return \/ UNCHANGED vars
    PROVE  IInv'
<1>0. TypeOK /\ 0 \in Workers /\ Workers \subseteq Nat /\ IsFiniteSet(Workers)
  BY WorkersFinite DEF IInv
<1>1. /\ UNCHANGED <<config, pc, tmp, shared, next, failed, counted, lost,
                     cur_pps, datagrams, reported, miscounted>>
      /\ main' \in {"abort", "overrun", "worker", "freed", "exit", main}
  BY DEF InitFails, InitOverrun, UdpHangUp, RunWorker0, StopWaiting, Return, vars,
         udp, history
<1>2. /\ CountedWhere' /\ CountWithoutRace' /\ FailedWhere' /\ LoadedPps'
      /\ DatagramsReported' /\ CreatedInOrder' /\ FailsWithoutRace'
  <2>1. FailsDone' = FailsDone /\ NumWorkers' = NumWorkers
    BY <1>1 DEF FailsDone, NumWorkers, config
  <2> QED
    BY <1>1, <2>1 DEF IInv, CountedWhere, CountWithoutRace, FailedWhere, LoadedPps,
                      DatagramsReported, CreatedInOrder, FailsWithoutRace, shared
<1>3. Live' = Live /\ NumWorkers' = NumWorkers
  BY <1>1 DEF Live, NumWorkers, config
<1>4. CASE StopWaiting
  <2>1. /\ main = "spin" /\ main' = "freed" /\ active_workers =< 0
        /\ unseen' = {i \in Live : i \notin counted}
    BY <1>4 DEF StopWaiting, SpinOver, udp
  <2>2. ~lost => counted = {}
    <3>1. IsFiniteSet(counted)
      BY <1>0, FS_Subset DEF TypeOK
    <3>2. Cardinality(counted) \in Nat /\ (Cardinality(counted) = 0 <=> counted = {})
      BY <3>1, FS_CardinalityType, FS_EmptySet
    <3> QED
      BY <2>1, <3>2 DEF IInv, CountWithoutRace
  <2>3. LeftBehind'
    BY <1>1, <1>3, <2>1, <2>2 DEF LeftBehind
  <2>4. MainAfterWorker0'
    BY <1>1, <2>1 DEF IInv, MainAfterWorker0
  <2>5. TypeOK'
    BY <1>0, <1>1, <1>3, <2>1 DEF TypeOK, Live, config, shared
  <2> QED
    BY <1>2, <2>3, <2>4, <2>5 DEF IInv
<1>5. CASE \/ \E i \in Workers : InitFails(i) \/ InitOverrun(i) \/ UdpHangUp(i)
           \/ RunWorker0 \/ Return \/ UNCHANGED vars
  <2>1. unseen' = unseen
    BY <1>5 DEF InitFails, InitOverrun, UdpHangUp, RunWorker0, Return, vars, udp, history
  <2>2. TypeOK'
    BY <1>0, <1>1, <1>3, <2>1 DEF TypeOK, config, shared
  <2>3. LeftBehind' /\ MainAfterWorker0'
    <3>1. \/ main' \notin {"spin", "freed", "exit"} \/ main' = main
          \/ main = "freed" /\ main' = "exit"
      BY <1>5 DEF InitFails, InitOverrun, UdpHangUp, RunWorker0, Return, vars
    <3> QED
      BY <1>1, <1>3, <2>1, <3>1 DEF IInv, LeftBehind, MainAfterWorker0
  <2> QED
    BY <1>2, <2>2, <2>3 DEF IInv
<1> QED
  BY <1>4, <1>5

(* main creates the next thread: it was not there before.                  *)
LEMMA CreateInv == ASSUME IInv, Create PROVE IInv'
<1>0. TypeOK /\ 0 \in Workers /\ Workers \subseteq Nat
  BY WorkersFinite DEF IInv
<1>1. PICK label \in {"init", "none"} : Goto(next, label)
  BY DEF Create
<1>2. /\ UNCHANGED <<config, udp, tmp, shared, main, history>> /\ next' = next + 1
      /\ next < NumWorkers /\ main = "create"
  BY DEF Create
<1>3. next \in Threads /\ next \in Nat /\ NumWorkers' = NumWorkers
  BY <1>0, <1>2, Elements DEF TypeOK, Threads, NumWorkers, config
<1>4. /\ pc[next] = "none" /\ pc'[next] = label /\ next \in Workers
      /\ \A j \in Workers : j # next => pc'[j] = pc[j]
  BY <1>0, <1>1, <1>3 DEF IInv, CreatedInOrder, Goto, TypeOK, Threads
<1>5. TypeOK'
  <2>1. next' \in 1..(NumWorkers + 1)
    BY <1>0, <1>2, Elements DEF TypeOK
  <2> QED
    BY <1>0, <1>1, <1>2, <1>3, <2>1 DEF TypeOK, Goto, config, udp, shared, history
<1>6. CountedWhere' /\ CountWithoutRace' /\ FailedWhere'
  BY <1>2, <1>4 DEF IInv, CountedWhere, CountedAt, CountWithoutRace, FailedWhere,
                    shared, history
<1>7. FailsWithoutRace'
  <2>1. FailsDone' = FailsDone
    BY <1>0, <1>2, <1>4 DEF IInv, FailsDone, FailedWhere, TypeOK, history
  <2> QED
    BY <1>2, <2>1 DEF IInv, FailsWithoutRace, shared, history
<1>8. CreatedInOrder'
  BY <1>0, <1>2, <1>3, <1>4, Elements DEF IInv, CreatedInOrder, Threads
<1>9. MainAfterWorker0' /\ LeftBehind'
  BY <1>2 DEF IInv, MainAfterWorker0, LeftBehind, config, udp, history
<1>10. LoadedPps' /\ DatagramsReported'
  BY <1>1, <1>2, <1>4, PpsUntouched DEF udp
<1> QED
  BY <1>5, <1>6, <1>7, <1>8, <1>9, <1>10 DEF IInv

-----------------------------------------------------------------------------
(* The invariant holds in every reachable state.                           *)
THEOREM Invariance == Spec => []IInv
<1>1. IInv /\ [Next]_vars => IInv'
  BY QuietInv, StoreInv, FailInv, MainInv, CreateInv DEF Next, Main, Step
<1> QED
  BY InitInv, <1>1, PTL DEF Spec

(* The variables keep their types; next stays within vsm->workers.         *)
THEOREM TypeCorrect == Spec => []TypeOK
<1>1. IInv => TypeOK
  BY DEF IInv
<1> QED
  BY Invariance, <1>1, PTL

(* active_workers is exact until the first lost update, whatever the       *)
(* workers do in between.                                                  *)
THEOREM CountCorrect == Spec => []CountWithoutRace
<1>1. IInv => CountWithoutRace
  BY DEF IInv
<1> QED
  BY Invariance, <1>1, PTL

(* free(vsm->workers) in main takes memory from a thread only after a lost *)
(* update or if the thread had not counted itself yet.                     *)
THEOREM FreeCorrect == Spec => []EarlyFreeOnlyIfUncounted
<1>1. IInv => EarlyFreeOnlyIfUncounted
  BY DEF IInv, LeftBehind, EarlyFreeOnlyIfUncounted
<1> QED
  BY Invariance, <1>1, PTL

(* What main returns is the number of failed workers: with no thread left  *)
(* behind all of them are done, and so are their updates of worker_fails.  *)
THEOREM ExitCorrect == Spec => []ExitStatus
<1>1. ASSUME IInv PROVE ExitStatus
  <2> SUFFICES ASSUME main = "exit", ~lost, unseen = {}
               PROVE  worker_fails = -Cardinality(failed)
    BY DEF ExitStatus
  <2>1. Live = {} /\ pc[0] = "done"
    BY <1>1 DEF IInv, LeftBehind, MainAfterWorker0
  <2>2. \A i \in Workers : pc[i] \in {"none", "done"}
    BY <2>1 DEF Live, Threads
  <2>3. FailsDone = failed
    BY <1>1, <2>2 DEF IInv, TypeOK, FailsDone
  <2> QED
    BY <1>1, <2>3 DEF IInv, FailsWithoutRace
<1> QED
  BY Invariance, <1>1, PTL

(* With -D no datagram is counted twice or left out of the reports, unless *)
(* two workers met at status.cur_pps, for which it takes two workers.      *)
THEOREM ReportsCorrect == Spec => []DatagramsReported
<1>1. IInv => DatagramsReported
  BY DEF IInv
<1> QED
  BY Invariance, <1>1, PTL
=============================================================================
