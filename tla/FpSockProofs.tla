---------------------------- MODULE FpSockProofs -----------------------------
(***************************************************************************)
(* Proofs about FpSock, for any number of workers, packets and queues.     *)
(***************************************************************************)
EXTENDS FpSock, TLAPS

(* The stages in which everything is up, and those that take it down.      *)
UpStages   == {"workers", "cli", "perf", "server", "join", "crashed"}
TermStages == {"ofp_term_local", "ofp_term_global", "odp_term_local",
               "odp_term_global"}

(* What is up in each stage.  The terminations of OFP are also reached     *)
(* when its initialization failed.                                         *)
LayersAt ==
    /\ pc \in {"setup", "odp_global", "exited"} => layers = {}
    /\ pc \in {"odp_local", "odp_term_global"} => layers = {"odp_global"}
    /\ pc \in {"cpumask", "ofp_global", "odp_term_local"} =>
           layers = {"odp_global", "odp_local"}
    /\ pc = "ofp_term_global" => layers \ {"ofp_global"} = {"odp_global", "odp_local"}
    /\ pc = "ofp_local" => layers = {"odp_global", "odp_local", "ofp_global"}
    /\ pc = "ofp_term_local" =>
           layers \ {"ofp_local"} = {"odp_global", "odp_local", "ofp_global"}
    /\ pc \in UpStages =>
           layers = {"odp_global", "odp_local", "ofp_global", "ofp_local"}

(* No worker runs before it is created or after main has joined.           *)
WorkersAt ==
    /\ \A w \in Workers : wk[w].pc # "off" => w \in created
    /\ pc \in InitStages \cup {"workers"} => created = {}
    /\ pc \in TermStages \cup {"exited"} =>
           \A w \in Workers : wk[w].pc \in {"off", "done"}

(* The server thread is started after everything else.                     *)
ServerAt == spc # "off" => pc \in {"join", "crashed", "exited"} \cup TermStages

(* A signal that OFP has seen keeps the flag cleared: it is set only by    *)
(* ofp_init_global.                                                        *)
LateStops ==
    "late" \in signals =>
        ~running /\ pc \notin {"setup", "odp_global", "odp_local", "cpumask", "ofp_global"}

(* The server's last sleep ends by a signal, and while OFP is up it is one *)
(* that OFP has seen.                                                      *)
AwakeBySignal == spc = "awake" /\ "ofp_global" \in layers => "late" \in signals

(* A worker is in the hook only after the hook was set.                    *)
HookWhere ==
    \A w \in Workers : InHook(w) => /\ spc \in {"asleep", "awake", "returned"}
                                    /\ spc # "asleep" => "late" \in signals

(* The mode is known before OFP runs.                                      *)
SyncForced ==
    pc = "ofp_global" \/ "ofp_global" \in layers => sched_sync # "unknown"

(* A worker has a packet exactly while it is in the hook.                  *)
OwnInHook ==
    \A w \in Workers : /\ wk[w].own # NoPacket <=> InHook(w)
                       /\ wk[w].own \notin pending

(* With one atomic queue, one worker has a packet at a time.               *)
OneInHook ==
    \A v, w \in Workers : wk[v].own # NoPacket /\ wk[w].own # NoPacket => v = w

(* What ss, the packet's count and OFP's packets are while worker w is in  *)
(* the hook.                                                               *)
InTurn(w) ==
    LET p == wk[w].own
    IN  /\ wk[w].pc \in {"offer", "notify", "echo"} => sent[p] = 0
        /\ wk[w].pc = "notify" => ss = [pkt |-> p, event |-> event[p]]
        /\ wk[w].pc = "echo" => wk[w].pkt = p /\ event[p] = "RECV"
        /\ wk[w].pc = "mark" => sent[p] = 1 /\ event[p] = "RECV"
        /\ wk[w].pc = "check" => \/ event[p] = "RECV" /\ sent[p] = 1 /\ ss.pkt = NoPacket
                                 \/ event[p] = "SEND" /\ sent[p] = 0 /\ ss.pkt = p
        /\ p \notin kept

(* With one atomic queue nothing happens to a packet before its turn, and  *)
(* the right thing in its turn.                                            *)
OneAtATime ==
    Serial => /\ OneInHook
              /\ \A p \in pending : sent[p] = 0 /\ p \notin kept
              /\ \A w \in Workers : InHook(w) => InTurn(w)

(* The inductive invariant.                                                *)
IInv ==
    /\ TypeOK /\ LayersAt /\ WorkersAt /\ ServerAt
    /\ LateStops /\ AwakeBySignal /\ HookWhere
    /\ SyncForced /\ OwnInHook /\ OneAtATime /\ PacketHasOneOwner

(* The parts of it that are about the threads, and about the packets.      *)
Threads ==
    /\ LayersAt /\ WorkersAt /\ ServerAt /\ LateStops /\ AwakeBySignal
    /\ HookWhere /\ SyncForced
Traffic == OwnInHook /\ OneAtATime /\ PacketHasOneOwner

USE FpSockAssumption

(* The tables of the stages.                                               *)
LEMMA Stages ==
    /\ DOMAIN AfterTerm = TermStages
    /\ AfterTerm["ofp_term_local"] = "ofp_term_global"
    /\ AfterTerm["ofp_term_global"] = "odp_term_local"
    /\ AfterTerm["odp_term_local"] = "odp_term_global"
    /\ AfterTerm["odp_term_global"] = "exited"
    /\ Layer["ofp_term_local"] = "ofp_local" /\ Layer["ofp_term_global"] = "ofp_global"
    /\ Layer["odp_term_local"] = "odp_local" /\ Layer["odp_term_global"] = "odp_global"
BY DEF AfterTerm, Layer, TermStages

(* The initial states satisfy the invariant.                               *)
LEMMA InitInv == Init => IInv
<1> SUFFICES ASSUME Init PROVE IInv
  OBVIOUS
<1>1. \A w \in Workers : wk[w].pc = "off" /\ wk[w].own = NoPacket /\ ~InHook(w)
  BY DEF Init, InHook, InHookLabels
<1>2. TypeOK
  <2>1. running \in BOOLEAN
    BY Zenon DEF Init
  <2>2. /\ wk \in [Workers -> [pc : {"off", "dispatch", "schedule", "done"} \cup InHookLabels,
                               own : Packets \cup {NoPacket},
                               pkt : Packets \cup {NoPacket}]]
        /\ ss \in [pkt : Packets \cup {NoPacket}, event : {"INVALID", "RECV", "SEND"}]
    BY DEF Init
  <2>3. /\ pc \in InitStages /\ ret \in {"EXIT_SUCCESS", "EXIT_FAILURE"}
        /\ layers = {} /\ num_workers \in 0..MAX_WORKERS /\ created = {}
        /\ spc = "off" /\ signals = {}
    BY DEF Init, InitStages
  <2>4. /\ args \in [count : Counts, perf_stat : BOOLEAN]
        /\ sched_sync \in {"PARALLEL", "ATOMIC", "ORDERED", "unknown"}
        /\ queue \in [Packets -> Queues] /\ event \in [Packets -> {"RECV", "SEND"}]
        /\ pending = Packets /\ sent \in [Packets -> Nat] /\ kept = {}
    BY DEF Init
  <2> QED
    BY <2>1, <2>2, <2>3, <2>4 DEF TypeOK
<1>3. LayersAt /\ ServerAt /\ LateStops /\ AwakeBySignal /\ SyncForced
  BY DEF Init, LayersAt, ServerAt, LateStops, AwakeBySignal, SyncForced, UpStages
<1>4. WorkersAt /\ HookWhere
  BY <1>1 DEF Init, WorkersAt, HookWhere, TermStages
<1>5. OwnInHook /\ OneAtATime
  BY <1>1 DEF Init, OwnInHook, OneAtATime, OneInHook
<1>6. PacketHasOneOwner
  BY DEF Init, PacketHasOneOwner
<1> QED
  BY <1>2, <1>3, <1>4, <1>5, <1>6 DEF IInv

(* A step that changes neither the packets nor who has them, nor ss while  *)
(* somebody is in the hook, keeps what is said of the packets.             *)
LEMMA TrafficFrame ==
    ASSUME IInv, UNCHANGED traffic,
           \A w \in Workers : /\ wk'[w].own = wk[w].own /\ wk'[w].pkt = wk[w].pkt
                              /\ InHook(w)' <=> InHook(w)
                              /\ InHook(w) => wk'[w].pc = wk[w].pc,
           ss' = ss \/ \A w \in Workers : ~InHook(w),
           sched_sync' = sched_sync \/ sched_sync' = ForceSync(sched_sync),
           pc' = "crashed" => pc = "crashed"
    PROVE  Traffic'
<1> USE DEF traffic
<1>1. Serial' => Serial
  BY DEF Serial, ForceSync, IInv, TypeOK
<1>2. OwnInHook'
  BY DEF IInv, OwnInHook
<1>3. OneAtATime'
  <2> SUFFICES ASSUME Serial
               PROVE  OneInHook' /\ (\A p \in pending : sent[p] = 0 /\ p \notin kept)
                      /\ \A w \in Workers : InHook(w)' => InTurn(w)'
    BY <1>1 DEF OneAtATime
  <2>1. OneInHook'
    BY DEF IInv, OneAtATime, OneInHook
  <2>2. ASSUME NEW w \in Workers, InHook(w)' PROVE InTurn(w)'
    <3>1. InTurn(w) /\ ss' = ss /\ wk'[w].pc = wk[w].pc /\ wk'[w].own = wk[w].own
          /\ wk'[w].pkt = wk[w].pkt
      BY <2>2 DEF IInv, OneAtATime
    <3> QED
      BY <3>1 DEF InTurn
  <2> QED
    BY <2>1, <2>2 DEF IInv, OneAtATime
<1>4. PacketHasOneOwner'
  BY <1>1 DEF IInv, PacketHasOneOwner
<1> QED
  BY <1>2, <1>3, <1>4 DEF Traffic

(* The steps of main before the workers are there.                         *)
LEMMA InitStagesInv == ASSUME IInv, InitStage \/ InitStageFails PROVE IInv'
<1> USE DEF server
<1>1. /\ UNCHANGED <<args, created, server, signals, wk, traffic>> /\ pc \in InitStages
      /\ sched_sync' = sched_sync \/ sched_sync' = ForceSync(sched_sync)
  BY DEF InitStage, InitStageFails
<1>2. \A w \in Workers : wk[w].pc = "off" /\ ~InHook(w)
  BY <1>1 DEF IInv, WorkersAt, InHook, InHookLabels, TypeOK
<1>3. spc = "off"
  BY <1>1 DEF IInv, ServerAt, TermStages, InitStages
<1>4. \/ pc' = AfterInit[pc] /\ layers' = (IF pc \in {"setup", "cpumask"} THEN layers
                                           ELSE layers \cup {pc})
         /\ (pc = "cpumask" => sched_sync' = ForceSync(sched_sync))
         /\ (pc # "cpumask" => sched_sync' = sched_sync)
      \/ pc' = AfterFailure[pc] /\ layers' = layers /\ sched_sync' = sched_sync
  BY DEF InitStage, InitStageFails
<1>5. /\ pc' \in InitStages \cup TermStages \cup {"workers", "exited"}
      /\ LayersAt'
  BY <1>1, <1>4 DEF IInv, LayersAt, InitStages, TermStages, UpStages, AfterInit, AfterFailure
<1>6. TypeOK'
  <2>1. num_workers' \in 0..MAX_WORKERS
    <3>1. \A c \in Counts, n \in Cpus : WantedWorkers(c, n) \in Nat
                                        /\ WantedWorkers(c, n) =< MAX_WORKERS
      BY DEF WantedWorkers
    <3>2. num_workers \in 0..MAX_WORKERS /\ args.count \in Counts
      BY DEF IInv, TypeOK
    <3>3. \/ num_workers' = num_workers
          \/ \E cpus \in Cpus : num_workers' \in 1..WantedWorkers(args.count, cpus)
      BY DEF InitStage, InitStageFails
    <3>4. ASSUME NEW cpus \in Cpus, num_workers' \in 1..WantedWorkers(args.count, cpus)
          PROVE  num_workers' \in 0..MAX_WORKERS
      <4> DEFINE n == WantedWorkers(args.count, cpus)
      <4>1. n \in Nat /\ n =< MAX_WORKERS
        BY <3>1, <3>2
      <4>2. num_workers' \in 1..n
        BY <3>4
      <4> HIDE DEF n
      <4> QED
        BY <4>1, <4>2
    <3> QED
      BY <3>2, <3>3, <3>4
  <2>2. running' \in BOOLEAN
    BY DEF InitStage, InitStageFails, IInv, TypeOK
  <2>3. ret' \in {"EXIT_SUCCESS", "EXIT_FAILURE"}
    BY DEF InitStage, InitStageFails, IInv, TypeOK
  <2>4. layers' \subseteq {"odp_global", "odp_local", "ofp_global", "ofp_local"}
    BY <1>1, <1>4 DEF IInv, TypeOK, InitStages
  <2>5. sched_sync' \in {"PARALLEL", "ATOMIC", "ORDERED", "unknown"}
    BY <1>1 DEF ForceSync, IInv, TypeOK
  <2> QED
    BY <1>1, <1>5, <2>1, <2>2, <2>3, <2>4, <2>5, Stages DEF IInv, TypeOK, traffic
<1>7. WorkersAt' /\ ServerAt' /\ AwakeBySignal' /\ HookWhere'
  <2>1. \A w \in Workers : ~InHook(w)'
    BY <1>1, <1>2 DEF InHook
  <2>2. created = {}
    BY <1>1 DEF IInv, WorkersAt
  <2> QED
    BY <1>1, <1>2, <1>3, <2>1, <2>2 DEF WorkersAt, ServerAt, AwakeBySignal, HookWhere
<1>8. LateStops'
  <2> SUFFICES ASSUME "late" \in signals
               PROVE  ~running' /\ pc' \notin {"setup", "odp_global", "odp_local",
                                               "cpumask", "ofp_global"}
    BY <1>1 DEF LateStops
  <2>1. ~running /\ pc = "ofp_local"
    BY <1>1 DEF IInv, LateStops, InitStages
  <2>2. running' = running \/ running' = (running \/ pc = "ofp_global")
    BY DEF InitStage, InitStageFails
  <2>3. ~running'
    BY <2>1, <2>2
  <2> QED
    BY <1>4, <2>1, <2>3 DEF AfterInit, AfterFailure
<1>9. SyncForced'
  BY <1>1, <1>4 DEF IInv, SyncForced, LayersAt, ForceSync, InitStages, AfterInit,
                    AfterFailure
<1>10. Traffic'
  <2>1. pc' # "crashed"
    BY <1>5 DEF InitStages, TermStages
  <2>2. \A w \in Workers : InHook(w)' <=> InHook(w)
    BY <1>1 DEF InHook
  <2> QED
    BY <1>1, <1>2, <2>1, <2>2, TrafficFrame
<1> QED
  BY <1>5, <1>6, <1>7, <1>8, <1>9, <1>10 DEF IInv, Traffic

(* The steps of main from the creation of the workers on.                  *)
LEMMA MainInv ==
    ASSUME IInv, CreateWorkers \/ StartThread \/ StartServer \/ Join \/ Term
    PROVE  IInv'
<1>0. TypeOK
  BY DEF IInv
<1>1. CASE CreateWorkers
  <2>1. /\ UNCHANGED <<ret, layers, args, sched_sync, num_workers, server, signals, traffic>>
        /\ pc = "workers" /\ pc' \in {"cli", "join"} /\ created' \subseteq 1..num_workers
        /\ running' = running \/ running' = FALSE
        /\ wk' = [w \in Workers |-> IF w \in created' THEN [wk[w] EXCEPT !.pc = "dispatch"]
                                                       ELSE wk[w]]
    BY <1>1 DEF CreateWorkers
  <2>2. created' \subseteq Workers
    BY <1>0, <2>1 DEF TypeOK, Workers
  <2>3. \A w \in Workers : wk[w].pc = "off" /\ ~InHook(w)
    BY <2>1 DEF IInv, WorkersAt, InHook, InHookLabels, TypeOK
  <2>4. \A w \in Workers : /\ wk'[w].own = wk[w].own /\ wk'[w].pkt = wk[w].pkt
                           /\ wk'[w].pc = IF w \in created' THEN "dispatch" ELSE "off"
    BY <1>0, <2>1, <2>3 DEF TypeOK
  <2>5. \A w \in Workers : ~InHook(w)'
    BY <2>4 DEF InHook, InHookLabels
  <2>6. TypeOK'
    <3>1. wk' \in [Workers -> [pc : {"off", "dispatch", "schedule", "done"} \cup InHookLabels,
                               own : Packets \cup {NoPacket},
                               pkt : Packets \cup {NoPacket}]]
      BY <1>0, <2>1 DEF TypeOK
    <3>2. running' \in BOOLEAN
      BY <1>0, <2>1 DEF TypeOK
    <3> QED
      BY <1>0, <2>1, <2>2, <3>1, <3>2 DEF TypeOK, server, traffic
  <2>7. LayersAt' /\ ServerAt' /\ AwakeBySignal' /\ SyncForced'
    BY <2>1 DEF IInv, LayersAt, ServerAt, AwakeBySignal, SyncForced, UpStages, TermStages,
                server
  <2>8. WorkersAt' /\ HookWhere' /\ LateStops'
    BY <2>1, <2>4, <2>5 DEF IInv, WorkersAt, HookWhere, LateStops, InitStages, TermStages
  <2>9. Traffic'
    BY <2>1, <2>3, <2>4, <2>5, TrafficFrame DEF server
  <2> QED
    BY <2>6, <2>7, <2>8, <2>9 DEF IInv, Traffic
<1>2. CASE StartThread \/ StartServer \/ Join \/ Term
  <2>1. /\ UNCHANGED <<ret, args, sched_sync, num_workers, created, ss, signals, wk, traffic>>
        /\ running' = running \/ running' = FALSE
        /\ \A w \in Workers : InHook(w)' <=> InHook(w)
    BY <1>2 DEF StartThread, StartServer, Join, Term, server, InHook
  <2>2. /\ \/ pc \in {"cli", "perf"} /\ pc' \in {"perf", "server", "join"} /\ spc' = spc
              /\ layers' = layers
           \/ pc = "server" /\ pc' = "join" /\ spc' \in {"init", "off"} /\ layers' = layers
           \/ pc = "join" /\ pc' = "ofp_term_local" /\ Joined /\ spc' = spc
              /\ layers' = layers
           \/ pc \in TermStages /\ pc' = AfterTerm[pc] /\ layers' = layers \ {Layer[pc]}
              /\ spc' = spc
    BY <1>2, Stages DEF StartThread, StartServer, Join, Term, server, StopAndJoin
  <2>3. /\ pc' \in {"perf", "server", "join", "exited"} \cup TermStages
        /\ layers' \subseteq layers
    BY <2>2, Stages DEF TermStages
  <2>4. TypeOK'
    <3>1. spc' \in {"init", "off", spc}
      BY <2>2
    <3>2. running' \in BOOLEAN
      BY <1>0, <2>1 DEF TypeOK
    <3> QED
      BY <1>0, <2>1, <2>3, <3>1, <3>2, Stages DEF TypeOK, traffic
  <2>5. LayersAt'
    BY <2>2, Stages DEF IInv, LayersAt, TermStages, UpStages
  <2>6. ServerAt' /\ SyncForced' /\ LateStops'
    <3>1. ServerAt'
      BY <2>2, Stages DEF IInv, ServerAt, TermStages
    <3>2. SyncForced'
      BY <2>1, <2>3 DEF IInv, SyncForced, TermStages
    <3>3. LateStops'
      BY <2>1, <2>3 DEF IInv, LateStops, TermStages
    <3> QED
      BY <3>1, <3>2, <3>3
  <2>7. AwakeBySignal' /\ HookWhere'
    <3>1. spc' = spc \/ (spc' \in {"init", "off"} /\ spc = "off")
      BY <2>2 DEF IInv, ServerAt, TermStages
    <3>2. AwakeBySignal'
      BY <2>1, <2>3, <3>1 DEF IInv, AwakeBySignal
    <3>3. HookWhere'
      BY <2>1, <3>1 DEF IInv, HookWhere
    <3> QED
      BY <3>2, <3>3
  <2>8. WorkersAt'
    <3>1. pc' \in TermStages \cup {"exited"} =>
             \A w \in Workers : wk[w].pc \in {"off", "done"}
      BY <2>2 DEF IInv, WorkersAt, Joined, TermStages
    <3> QED
      BY <2>1, <2>3, <3>1 DEF IInv, WorkersAt, InitStages, TermStages
  <2>9. Traffic'
    <3>1. pc' # "crashed"
      BY <2>3 DEF TermStages
    <3> QED
      BY <2>1, <3>1, TrafficFrame
  <2> QED
    BY <2>4, <2>5, <2>6, <2>7, <2>8, <2>9 DEF IInv, Traffic
<1> QED
  BY <1>1, <1>2

(* The server thread and the signals.                                      *)
LEMMA ServerInv == ASSUME IInv, Server \/ Signal PROVE IInv'
<1>0. TypeOK
  BY DEF IInv
<1>1. /\ UNCHANGED <<mainVars, wk, traffic>> /\ Alive
      /\ \A w \in Workers : InHook(w)' <=> InHook(w)
  BY DEF Server, ServerInit, ServerWakes, InitSock, SetHook, ServerClose, Signal, InHook
<1>2. pc' = pc /\ LayersAt' /\ WorkersAt' /\ SyncForced'
  BY <1>1 DEF IInv, LayersAt, WorkersAt, SyncForced, mainVars
<1>3. CASE Server
  <2>1. /\ UNCHANGED <<running, signals>>
        /\ \/ spc \in {"init", "sleep3", "socket"} /\ ss' = ss
              /\ spc' \in {"sleep3", "socket", "sigevent", "returned"}
           \/ spc = "sigevent" /\ spc' \in {"asleep", "close"}
              /\ ss' = [pkt |-> NoPacket, event |-> "INVALID"]
           \/ spc \in {"close", "awake"} /\ spc' = "returned" /\ ss' = ss
    BY <1>3 DEF Server, ServerInit, ServerWakes, InitSock, SetHook, ServerClose, AfterSigevent
  <2>2. TypeOK'
    <3>1. /\ ss' \in [pkt : Packets \cup {NoPacket}, event : {"INVALID", "RECV", "SEND"}]
          /\ spc' \in {"sleep3", "socket", "sigevent", "asleep", "close", "returned"}
      BY <1>0, <2>1 DEF TypeOK
    <3> QED
      BY <1>0, <1>1, <2>1, <3>1 DEF TypeOK, mainVars, traffic
  <2>3. ServerAt' /\ LateStops' /\ AwakeBySignal'
    BY <1>1, <1>2, <2>1 DEF IInv, ServerAt, LateStops, AwakeBySignal, mainVars
  <2>4. HookWhere'
    BY <1>1, <2>1 DEF IInv, HookWhere
  <2>5. Traffic'
    <3>1. ss' = ss \/ \A w \in Workers : ~InHook(w)
      BY <2>1 DEF IInv, HookWhere
    <3> QED
      BY <1>1, <1>2, <3>1, TrafficFrame DEF mainVars
  <2> QED
    BY <1>2, <2>2, <2>3, <2>4, <2>5 DEF IInv, Traffic
<1>4. CASE Signal
  <2>1. /\ ss' = ss /\ running' = FALSE /\ pc # "setup"
        /\ signals' = signals \cup {IF "ofp_global" \in layers THEN "late" ELSE "early"}
        /\ \/ spc' = spc
           \/ spc = "sleep3" /\ spc' = "socket"
           \/ spc = "asleep" /\ spc' = "awake"
    BY <1>4 DEF Signal
  <2>2. TypeOK'
    <3>1. /\ signals' \subseteq {"early", "late"}
          /\ spc' \in {spc, "socket", "awake"}
      BY <1>0, <2>1 DEF TypeOK
    <3>2. running' \in BOOLEAN
      BY <2>1, Zenon
    <3> QED
      BY <1>0, <1>1, <2>1, <3>1, <3>2 DEF TypeOK, mainVars, traffic
  <2>3. ServerAt' /\ AwakeBySignal'
    BY <1>1, <1>2, <2>1 DEF IInv, ServerAt, AwakeBySignal, mainVars
  <2>4. LateStops'
    BY <1>2, <2>1 DEF IInv, LateStops, LayersAt
  <2>5. HookWhere'
    <3> SUFFICES ASSUME NEW w \in Workers, InHook(w)
                 PROVE  /\ spc' \in {"asleep", "awake", "returned"}
                        /\ spc' # "asleep" => "late" \in signals'
      BY <1>1 DEF HookWhere
    <3>1. spc \in {"asleep", "awake", "returned"} /\ (spc # "asleep" => "late" \in signals)
      BY DEF IInv, HookWhere
    <3>2. pc \in UpStages
      BY <1>0, Stages DEF IInv, WorkersAt, TypeOK, InHook, InHookLabels, UpStages
    <3>3. "ofp_global" \in layers
      BY <3>2 DEF IInv, LayersAt
    <3> QED
      BY <2>1, <3>1, <3>3
  <2>6. Traffic'
    BY <1>1, <1>2, <2>1, TrafficFrame DEF mainVars
  <2> QED
    BY <1>2, <2>2, <2>3, <2>4, <2>5, <2>6 DEF IInv, Traffic
<1> QED
  BY <1>3, <1>4

(* What a step of worker w changes, besides the packets: main's stage only *)
(* if the program crashes, and the worker's own place.                     *)
LEMMA WorkerFrame ==
    ASSUME IInv, NEW w \in Workers, Worker(w)
    PROVE  /\ UNCHANGED <<layers, args, sched_sync, num_workers, created, ret, spc,
                          running, signals, queue, event>>
           /\ pc' = pc \/ pc' = "crashed"
           /\ \A v \in Workers : v # w => wk'[v] = wk[v]
           /\ wk[w].pc \notin {"off", "done"} /\ wk'[w].pc # "off"
           /\ InHook(w)' /\ ~InHook(w) => HookSet /\ wk[w].pc = "schedule"
           /\ pc \in UpStages /\ Alive
           /\ TypeOK'
<1>0. TypeOK
  BY DEF IInv
<1> USE DEF mainVars, server, traffic
<1>1. /\ UNCHANGED <<layers, args, sched_sync, num_workers, created, ret, spc,
                     running, signals, queue, event>>
      /\ Alive
  BY DEF Worker, Dispatch, NoEvent, Receive, Offer, Notify, SendTo, Mark, Check
<1>2. pc' = pc \/ pc' = "crashed"
  BY DEF Worker, Dispatch, NoEvent, Receive, Offer, Notify, SendTo, Mark, Check
<1> DEFINE Record == [pc : {"off", "dispatch", "schedule", "done"} \cup InHookLabels,
                      own : Packets \cup {NoPacket}, pkt : Packets \cup {NoPacket}]
<1>3. wk \in [Workers -> Record] /\ wk[w] \in Record
      /\ ss \in [pkt : Packets \cup {NoPacket}, event : {"INVALID", "RECV", "SEND"}]
  BY <1>0 DEF TypeOK
<1>4. /\ wk' \in [Workers -> Record] /\ wk'[w].pc # "off"
      /\ wk[w].pc \notin {"off", "done"}
      /\ \A v \in Workers : v # w => wk'[v] = wk[v]
      /\ wk'[w].pc \in InHookLabels /\ wk[w].pc \notin InHookLabels =>
             HookSet /\ wk[w].pc = "schedule"
  <2>1. CASE \/ Dispatch(w) \/ NoEvent(w) \/ Offer(w) \/ SendTo(w) \/ Mark(w)
    <3>1. PICK label \in {"dispatch", "schedule", "done", "notify", "mark", "check"} :
             /\ wk' = [wk EXCEPT ![w].pc = label]
             /\ label \in {"notify", "mark", "check"} => wk[w].pc \in InHookLabels
      BY <2>1 DEF Dispatch, NoEvent, Offer, SendTo, Mark, Goto, InHookLabels
    <3>2. wk[w].pc \notin {"off", "done"}
      BY <2>1 DEF Dispatch, NoEvent, Offer, SendTo, Mark
    <3>3. wk' = [wk EXCEPT ![w] = [wk[w] EXCEPT !.pc = label]]
          /\ [wk[w] EXCEPT !.pc = label] \in Record
      BY <1>3, <3>1 DEF InHookLabels
    <3> QED
      BY <1>3, <3>1, <3>2, <3>3 DEF InHookLabels
  <2>2. CASE Notify(w)
    <3>1. PICK label \in {"echo", "check"} :
             wk' = [wk EXCEPT ![w].pkt = ss.pkt, ![w].pc = label]
      BY <2>2 DEF Notify
    <3>2. wk' = [wk EXCEPT ![w] = [wk[w] EXCEPT !.pkt = ss.pkt, !.pc = label]]
          /\ [wk[w] EXCEPT !.pkt = ss.pkt, !.pc = label] \in Record
      BY <1>3, <3>1 DEF InHookLabels
    <3> QED
      BY <1>3, <2>2, <3>2 DEF InHookLabels, Notify
  <2>3. CASE Check(w)
    BY <1>3, <2>3 DEF Check, InHookLabels
  <2>4. CASE \E p \in Packets : Receive(w, p)
    BY <1>3, <2>4 DEF Receive, InHookLabels
  <2> QED
    BY <2>1, <2>2, <2>3, <2>4 DEF Worker
<1>5. /\ ss' \in [pkt : Packets \cup {NoPacket}, event : {"INVALID", "RECV", "SEND"}]
      /\ pending' \subseteq Packets /\ kept' \subseteq Packets
      /\ sent' \in [Packets -> Nat]
  <2>1. \A p \in Packets : event[p] \in {"RECV", "SEND"} /\ sent[p] + 1 \in Nat
    BY <1>0 DEF TypeOK
  <2>2. InHook(w) => wk[w].own \in Packets
    BY <1>3 DEF IInv, OwnInHook
  <2>3. CASE Offer(w)
    BY <1>0, <2>1, <2>2, <2>3 DEF Offer, InHook, InHookLabels, TypeOK
  <2>4. CASE Mark(w)
    BY <1>0, <1>3, <2>4 DEF Mark, Marked, TypeOK
  <2>5. CASE SendTo(w)
    <3>1. sent' \in [Packets -> Nat]
      BY <1>0, <2>1, <2>5 DEF SendTo, TypeOK
    <3> QED
      BY <1>0, <2>5, <3>1 DEF SendTo, TypeOK
  <2>6. CASE Check(w)
    BY <1>0, <2>2, <2>6 DEF Check, InHook, InHookLabels, TypeOK
  <2>7. CASE \/ Dispatch(w) \/ NoEvent(w) \/ Notify(w) \/ \E p \in Packets : Receive(w, p)
    BY <1>0, <2>7 DEF Dispatch, NoEvent, Notify, Receive, TypeOK
  <2> QED
    BY <2>3, <2>4, <2>5, <2>6, <2>7 DEF Worker
<1>6. TypeOK'
  BY <1>0, <1>1, <1>2, <1>4, <1>5 DEF TypeOK
<1>7. pc \in UpStages
  BY <1>0, <1>4, Stages DEF IInv, WorkersAt, TypeOK, UpStages
<1> QED
  BY <1>1, <1>2, <1>4, <1>6, <1>7 DEF InHook

(* The steps of the workers keep what is said of the threads.              *)
LEMMA WorkerThreads == ASSUME IInv, NEW w \in Workers, Worker(w) PROVE Threads'
<1>1. /\ UNCHANGED <<layers, sched_sync, created, spc, running, signals>>
      /\ pc' = pc \/ pc' = "crashed"
      /\ \A v \in Workers : v # w => wk'[v] = wk[v]
      /\ wk[w].pc \notin {"off", "done"} /\ wk'[w].pc # "off"
      /\ InHook(w)' /\ ~InHook(w) => HookSet
      /\ pc \in UpStages
  BY WorkerFrame
<1>2. pc' \in UpStages
  BY <1>1 DEF UpStages
<1>3. LayersAt' /\ SyncForced' /\ AwakeBySignal'
  BY <1>1, <1>2 DEF IInv, LayersAt, SyncForced, AwakeBySignal, UpStages
<1>4. LateStops' /\ ServerAt'
  BY <1>1, <1>2 DEF IInv, LateStops, ServerAt
<1>5. WorkersAt'
  <2>1. pc' \notin TermStages \cup {"exited"}
    BY <1>2 DEF UpStages, TermStages
  <2>2. pc' \in InitStages \cup {"workers"} => pc = pc'
    BY <1>1 DEF InitStages
  <2> QED
    BY <1>1, <2>1, <2>2 DEF IInv, WorkersAt
<1>6. HookWhere'
  <2> SUFFICES ASSUME NEW v \in Workers, InHook(v)'
               PROVE  /\ spc \in {"asleep", "awake", "returned"}
                      /\ spc # "asleep" => "late" \in signals
    BY <1>1 DEF HookWhere
  <2>1. CASE v # w \/ InHook(w)
    <3>1. InHook(v)
      BY <1>1, <2>1 DEF InHook
    <3> QED
      BY <3>1 DEF IInv, HookWhere
  <2>2. CASE v = w /\ ~InHook(w)
    <3>1. "ofp_global" \in layers /\ HookSet
      BY <1>1, <2>2 DEF IInv, LayersAt
    <3> QED
      BY <3>1 DEF IInv, AwakeBySignal, HookSet
  <2> QED
    BY <2>1, <2>2
<1> QED
  BY <1>3, <1>4, <1>5, <1>6 DEF Threads

(* Each step of a worker keeps what is said of the packets.  With one      *)
(* atomic queue the others have none, so ss is this worker's alone.        *)
LEMMA WorkerTraffic == ASSUME IInv, NEW w \in Workers, Worker(w) PROVE Traffic'
<1>0. TypeOK /\ TypeOK'
  BY WorkerFrame DEF IInv
<1> USE DEF mainVars, server, traffic
<1>1. /\ UNCHANGED <<sched_sync, queue, event>>
      /\ \A v \in Workers : v # w => wk'[v] = wk[v] /\ (InHook(v)' <=> InHook(v))
      /\ pc # "crashed" /\ pc \in UpStages
  BY WorkerFrame DEF InHook, Alive
<1>2. Serial' <=> Serial
  BY <1>1 DEF Serial
<1>3. ASSUME Serial, wk[w].own # NoPacket, NEW v \in Workers, v # w
      PROVE  ~InHook(v) /\ wk[v].own = NoPacket
  BY <1>3 DEF IInv, OneAtATime, OneInHook, OwnInHook
<1>4. CASE Dispatch(w) \/ NoEvent(w)
  <2>1. /\ UNCHANGED <<ss, traffic, pc>> /\ ~InHook(w)
        /\ \E label \in {"schedule", "done", "dispatch"} : Goto(w, label)
    BY <1>4 DEF Dispatch, NoEvent, InHook, InHookLabels
  <2>2. wk'[w].own = wk[w].own /\ wk'[w].pkt = wk[w].pkt /\ ~InHook(w)'
    BY <1>0, <2>1 DEF Goto, TypeOK, InHook, InHookLabels
  <2> QED
    BY <1>1, <2>1, <2>2, TrafficFrame
<1>5. ASSUME NEW p \in Packets, Receive(w, p) PROVE Traffic'
  <2>1. /\ UNCHANGED <<ss, sent, kept, pc>> /\ pending' = pending \ {p} /\ p \in pending
        /\ wk'[w] = [pc |-> "offer", own |-> p, pkt |-> NoPacket] /\ wk[w].pc = "schedule"
        /\ Schedulable(p)
    BY <1>0, <1>5 DEF Receive, TypeOK
  <2>2. InHook(w)' /\ ~InHook(w) /\ wk[w].own = NoPacket
    BY <2>1 DEF InHook, InHookLabels, IInv, OwnInHook
  <2>3. OwnInHook'
    <3>1. \A v \in Workers : v # w => wk[v].own # p
      BY <2>1 DEF IInv, OwnInHook
    <3> QED
      BY <1>1, <2>1, <2>2 DEF IInv, OwnInHook
  <2>4. ASSUME Serial, NEW v \in Workers PROVE ~InHook(v) /\ wk[v].own = NoPacket
    <3>1. sched_sync = "ATOMIC"
      BY <1>1, <2>4 DEF IInv, Serial, SyncForced, LayersAt
    <3>2. wk[v].own \in Packets => queue[wk[v].own] = queue[p]
      BY <2>4 DEF Serial
    <3>3. wk[v].own \in Packets \cup {NoPacket}
      BY <1>0 DEF TypeOK
    <3> QED
      BY <2>1, <3>1, <3>2, <3>3 DEF Schedulable, IInv, OwnInHook
  <2>5. OneAtATime'
    <3> SUFFICES ASSUME Serial
                 PROVE  OneInHook' /\ (\A q \in pending' : sent[q] = 0 /\ q \notin kept)
                        /\ \A v \in Workers : InHook(v)' => InTurn(v)'
      BY <1>2, <2>1 DEF OneAtATime
    <3>1. \A v \in Workers : v # w => ~InHook(v)' /\ wk'[v].own = NoPacket
      BY <1>1, <2>4
    <3>2. \A q \in pending : sent[q] = 0 /\ q \notin kept
      BY DEF IInv, OneAtATime
    <3>3. InTurn(w)'
      BY <1>1, <2>1, <3>2 DEF InTurn
    <3> QED
      BY <2>1, <3>1, <3>2, <3>3 DEF OneInHook
  <2>6. PacketHasOneOwner'
    <3> SUFFICES ASSUME Serial, NEW q \in Packets \ pending',
                        \A v \in Workers : wk'[v].own # q
                 PROVE  IF event[q] = "RECV" THEN sent[q] = 1 /\ q \notin kept
                                             ELSE sent[q] = 0 /\ q \in kept
      BY <1>1, <1>2, <2>1 DEF PacketHasOneOwner
    <3>1. q # p /\ q \in Packets \ pending
      BY <2>1
    <3>2. \A v \in Workers : wk[v].own # q
      BY <2>4
    <3> QED
      BY <3>1, <3>2 DEF IInv, PacketHasOneOwner
  <2> QED
    BY <2>3, <2>5, <2>6 DEF Traffic
<1>6. ASSUME InHook(w), InHook(w)', wk'[w].own = wk[w].own, UNCHANGED <<pending, kept>>,
             Serial => /\ pc' # "crashed" /\ InTurn(w)'
                       /\ \A q \in Packets : q # wk[w].own => sent'[q] = sent[q]
      PROVE  Traffic'
  <2>1. wk[w].own # NoPacket /\ wk[w].own \in Packets /\ wk[w].own \notin pending
    BY <1>0, <1>6 DEF IInv, OwnInHook, TypeOK
  <2>2. OwnInHook'
    BY <1>1, <1>6, <2>1 DEF IInv, OwnInHook
  <2>3. \A v \in Workers : wk'[v].own = wk[v].own
    BY <1>1, <1>6
  <2>4. OneAtATime'
    <3> SUFFICES ASSUME Serial
                 PROVE  OneInHook' /\ (\A q \in pending : sent'[q] = 0 /\ q \notin kept)
                        /\ \A v \in Workers : InHook(v)' => InTurn(v)'
      BY <1>2, <1>6 DEF OneAtATime
    <3>1. OneInHook'
      BY <2>3 DEF IInv, OneAtATime, OneInHook
    <3>2. \A v \in Workers : InHook(v)' => v = w
      BY <1>1, <1>3, <2>1
    <3>3. \A q \in pending : q \in Packets /\ q # wk[w].own /\ sent[q] = 0 /\ q \notin kept
      BY <1>0, <2>1 DEF IInv, OneAtATime, TypeOK
    <3> QED
      BY <1>6, <3>1, <3>2, <3>3
  <2>5. PacketHasOneOwner'
    <3> SUFFICES ASSUME Serial, NEW q \in Packets \ pending,
                        \A v \in Workers : wk[v].own # q
                 PROVE  IF event[q] = "RECV" THEN sent'[q] = 1 /\ q \notin kept
                                             ELSE sent'[q] = 0 /\ q \in kept
      BY <1>1, <1>2, <1>6, <2>3 DEF PacketHasOneOwner
    <3> QED
      BY <1>6 DEF IInv, PacketHasOneOwner
  <2> QED
    BY <2>2, <2>4, <2>5 DEF Traffic
<1>7. ASSUME InHook(w), Serial PROVE InTurn(w) /\ wk[w].own \in Packets
  BY <1>0, <1>7 DEF IInv, OneAtATime, OwnInHook, TypeOK
<1>8. CASE Offer(w)
  <2>1. /\ InHook(w) /\ InHook(w)' /\ wk'[w].own = wk[w].own /\ wk'[w].pc = "notify"
        /\ UNCHANGED <<pc, pending, kept, sent>> /\ wk[w].pc = "offer"
        /\ ss' = [pkt |-> wk[w].own, event |-> event[wk[w].own]]
    BY <1>0, <1>8 DEF Offer, Goto, TypeOK, InHook, InHookLabels
  <2>2. Serial => InTurn(w)'
    BY <1>1, <1>7, <2>1 DEF InTurn
  <2> QED
    BY <1>1, <1>6, <2>1, <2>2
<1>9. CASE Notify(w)
  <2>1. /\ wk[w].pc = "notify" /\ wk'[w].own = wk[w].own /\ wk'[w].pkt = ss.pkt
        /\ wk'[w].pc = IF Accepted(ss.event) THEN "echo" ELSE "check"
        /\ pc' = IF Accepted(ss.event) /\ ss.pkt = NoPacket THEN "crashed" ELSE pc
        /\ UNCHANGED <<ss, pending, kept, sent>>
    BY <1>0, <1>9 DEF Notify, TypeOK
  <2>2. InHook(w) /\ InHook(w)'
    BY <2>1 DEF InHook, InHookLabels
  <2>3. ASSUME Serial PROVE pc' # "crashed" /\ InTurn(w)'
    <3>1. /\ ss.pkt = wk[w].own /\ ss.event = event[wk[w].own]
          /\ wk[w].own \in Packets /\ sent[wk[w].own] = 0 /\ wk[w].own \notin kept
      BY <1>7, <2>1, <2>2, <2>3 DEF InTurn
    <3>2. event[wk[w].own] \in {"RECV", "SEND"}
      BY <1>0, <3>1 DEF TypeOK
    <3>3. pc' # "crashed"
      BY <1>1, <2>1, <3>1
    <3> QED
      BY <1>1, <2>1, <3>1, <3>2, <3>3 DEF InTurn, Accepted
  <2> QED
    BY <1>6, <2>1, <2>2, <2>3
<1>10. CASE SendTo(w)
  <2>1. /\ wk[w].pc = "echo" /\ wk'[w].own = wk[w].own /\ wk'[w].pc = "mark"
        /\ sent' = [sent EXCEPT ![wk[w].pkt] = sent[wk[w].pkt] + 1]
        /\ UNCHANGED <<pc, ss, pending, kept>>
    BY <1>0, <1>10 DEF SendTo, Goto, TypeOK
  <2>2. InHook(w) /\ InHook(w)'
    BY <2>1 DEF InHook, InHookLabels
  <2>3. ASSUME Serial
        PROVE  InTurn(w)' /\ \A q \in Packets : q # wk[w].own => sent'[q] = sent[q]
    <3>1. /\ wk[w].pkt = wk[w].own /\ event[wk[w].own] = "RECV"
          /\ wk[w].own \in Packets /\ sent[wk[w].own] = 0 /\ wk[w].own \notin kept
      BY <1>7, <2>1, <2>2, <2>3 DEF InTurn
    <3>2. sent'[wk[w].own] = 1 /\ \A q \in Packets : q # wk[w].own => sent'[q] = sent[q]
      BY <1>0, <2>1, <3>1 DEF TypeOK
    <3> QED
      BY <1>1, <2>1, <3>1, <3>2 DEF InTurn
  <2> QED
    BY <1>1, <1>6, <2>1, <2>2, <2>3
<1>11. CASE Mark(w)
  <2>1. /\ wk[w].pc = "mark" /\ wk'[w].own = wk[w].own /\ wk'[w].pc = "check"
        /\ ss'.pkt = NoPacket /\ UNCHANGED <<pc, sent, pending, kept>>
    BY <1>0, <1>11 DEF Mark, Marked, Goto, TypeOK
  <2>2. InHook(w) /\ InHook(w)'
    BY <2>1 DEF InHook, InHookLabels
  <2>3. Serial => InTurn(w)'
    BY <1>1, <1>7, <2>1, <2>2 DEF InTurn
  <2> QED
    BY <1>1, <1>6, <2>1, <2>2, <2>3
<1>12. CASE Check(w)
  <2>1. /\ wk[w].pc = "check" /\ UNCHANGED <<pc, ss, pending, sent>>
        /\ wk'[w] = [pc |-> "dispatch", own |-> NoPacket, pkt |-> NoPacket]
        /\ kept' = IF ss.pkt = NoPacket THEN kept ELSE kept \cup {wk[w].own}
    BY <1>0, <1>12 DEF Check, TypeOK
  <2>2. InHook(w) /\ ~InHook(w)' /\ wk[w].own \in Packets /\ wk[w].own \notin pending
    BY <1>0, <2>1 DEF InHook, InHookLabels, IInv, OwnInHook, TypeOK
  <2>3. OwnInHook'
    BY <1>0, <1>1, <2>1, <2>2 DEF IInv, OwnInHook, TypeOK
  <2>4. ASSUME Serial, NEW v \in Workers PROVE ~InHook(v)' /\ wk'[v].own = NoPacket
    BY <1>1, <1>3, <2>1, <2>2, <2>4
  <2>5. OneAtATime'
    <3> SUFFICES ASSUME Serial, NEW q \in pending PROVE sent[q] = 0 /\ q \notin kept'
      BY <1>2, <2>1, <2>4 DEF OneAtATime, OneInHook
    <3> QED
      BY <2>1, <2>2 DEF IInv, OneAtATime
  <2>6. PacketHasOneOwner'
    <3> SUFFICES ASSUME Serial, NEW q \in Packets \ pending
                 PROVE  IF event[q] = "RECV" THEN sent[q] = 1 /\ q \notin kept'
                                             ELSE sent[q] = 0 /\ q \in kept'
      BY <1>1, <1>2, <2>1 DEF PacketHasOneOwner
    <3>1. CASE q = wk[w].own
      BY <1>0, <1>7, <2>1, <2>2, <3>1 DEF InTurn, TypeOK
    <3>2. CASE q # wk[w].own
      <4>1. \A v \in Workers : wk[v].own # q
        BY <1>3, <2>2, <3>2
      <4>2. IF event[q] = "RECV" THEN sent[q] = 1 /\ q \notin kept
                                 ELSE sent[q] = 0 /\ q \in kept
        BY <4>1 DEF IInv, PacketHasOneOwner
      <4> QED
        BY <2>1, <3>2, <4>2
    <3> QED
      BY <3>1, <3>2
  <2> QED
    BY <2>3, <2>5, <2>6 DEF Traffic
<1> QED
  BY <1>4, <1>5, <1>8, <1>9, <1>10, <1>11, <1>12 DEF Worker

-----------------------------------------------------------------------------
(* The invariant holds in every reachable state.                           *)
THEOREM Invariance == Spec => []IInv
<1>1. ASSUME IInv, UNCHANGED vars PROVE IInv'
  <2> USE DEF vars, mainVars, server, traffic
  <2>1. \A w \in Workers : InHook(w)' <=> InHook(w)
    BY <1>1 DEF InHook
  <2>2. Traffic'
    BY <1>1, <2>1, TrafficFrame
  <2>3. Threads'
    BY <1>1, <2>1 DEF IInv, Threads, LayersAt, WorkersAt, ServerAt, LateStops,
                      AwakeBySignal, HookWhere, SyncForced
  <2>4. TypeOK'
    BY <1>1 DEF IInv, TypeOK
  <2> QED
    BY <2>2, <2>3, <2>4 DEF IInv, Traffic, Threads
<1>2. ASSUME IInv, NEW w \in Workers, Worker(w) PROVE IInv'
  BY <1>2, WorkerFrame, WorkerThreads, WorkerTraffic DEF IInv, Traffic, Threads
<1>3. IInv /\ [Next]_vars => IInv'
  BY <1>1, <1>2, InitStagesInv, MainInv, ServerInv DEF Next, Main
<1> QED
  BY InitInv, <1>3, PTL DEF Spec

(* The variables keep their types.                                         *)
THEOREM TypeCorrect == Spec => []TypeOK
<1>1. IInv => TypeOK
  BY DEF IInv
<1> QED
  BY Invariance, <1>1, PTL

(* However many workers there are, one atomic queue makes the shared ss of *)
(* udp-server.c safe: a packet is echoed once, or left to OFP.             *)
THEOREM OwnerCorrect == Spec => []PacketHasOneOwner
<1>1. IInv => PacketHasOneOwner
  BY DEF IInv
<1> QED
  BY Invariance, <1>1, PTL

(* Every path through main, the labels EXIT0 and EXIT1 included, takes     *)
(* down what came up, in reverse order, after the workers.                 *)
THEOREM TearDownCorrect == Spec => []TearDownOrder
<1>1. ASSUME IInv PROVE TearDownOrder
  <2>1. DOMAIN AfterTerm = TermStages
    BY Stages
  <2>2. /\ "odp_local" \in layers => "odp_global" \in layers
        /\ "ofp_global" \in layers => "odp_local" \in layers
        /\ "ofp_local" \in layers => "ofp_global" \in layers
    BY <1>1, <2>1 DEF IInv, LayersAt, TypeOK, InitStages, TermStages, UpStages
  <2>3. \A i \in 2..4 : Order[i] \in layers => Order[i - 1] \in layers
    <3>1. /\ Order[1] = "odp_global" /\ Order[2] = "odp_local"
          /\ Order[3] = "ofp_global" /\ Order[4] = "ofp_local"
      BY DEF Order
    <3>2. \A i \in 2..4 : i = 2 \/ i = 3 \/ i = 4
      OBVIOUS
    <3> QED
      BY <2>2, <3>1, <3>2
  <2> QED
    BY <1>1, <2>1, <2>3 DEF IInv, LayersAt, WorkersAt, TearDownOrder
<1> QED
  BY Invariance, <1>1, PTL

(* The frame of udp_main outlives every call of notify, until a signal.    *)
THEOREM FrameCorrect == Spec => []FrameOutlivesHook
<1>1. IInv => FrameOutlivesHook
  BY DEF IInv, HookWhere, LateStops, FrameOutlivesHook
<1> QED
  BY Invariance, <1>1, PTL
=============================================================================
