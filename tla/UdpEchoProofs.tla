---------------------------- MODULE UdpEchoProofs ----------------------------
(***************************************************************************)
(* Proofs about UdpEchoControl, and about EchoClient, the data path that   *)
(* is part of it: for any set of handles, any size of the pool, of the     *)
(* buffer and of the fifos.  And about the parser Ip6Parse, for any text   *)
(* and any number of quads.                                                *)
(***************************************************************************)
EXTENDS UdpEchoControl, Ip6Parse, FiniteSetTheorems, SequenceTheorems,
        WellFoundedInduction, TLAPS

(* The events on the message queue, of a server and of a client.           *)
ServerEvent == [type : {"BOUND", "ACCEPTED", "DISCONNECTED", "RX"},
                owner : Owners, index : Index \cup {None}]
ClientEvent == [type : ConnectEvents, owner : {None}, index : {None}]

EventsTyped ==
    mq \in Seq(IF role = "server" THEN ServerEvent ELSE ClientEvent)

(* The server's requests are answered in turn: the bind only when the      *)
(* attach is, and the main thread waits for as long as the reply to the    *)
(* attach is on its way.                                                   *)
Pipelined ==
    role = "server" =>
        /\ requests \in {<<"ATTACH", "BIND">>, <<"BIND">>, <<>>}
        /\ pc \in {"start", "wait", "loop", "exit", "crash"}
        /\ pc = "start" => requests = <<>> /\ api = <<>>
        /\ pc = "start" \/ requests = <<"ATTACH", "BIND">> =>
              /\ api = <<>> /\ state = "START" /\ ~attached /\ ~bound
              /\ pc \in {"start", "wait"}
        /\ \A k \in 1..Len(api) :
              /\ k > 1 => api[k] \in BindReplies
              /\ api[k] \in AttachReplies => state = "START" /\ pc = "wait"
              /\ api[k] \in BindReplies => requests = <<>>
              /\ api[k] # "DETACHED"

(* Only a bind that VPP has granted makes the server ready.                *)
ReadyMeansBound ==
    role = "server" =>
        \/ /\ attached /\ bound /\ requests = <<>> /\ pc # "start"
           /\ \A k \in 1..Len(api) : api[k] # "BIND_FAILED"
        \/ /\ ~bound /\ state # "READY" /\ pc # "loop"
           /\ \A k \in 1..Len(api) : api[k] # "BOUND"

(* The queue comes with the reply to the attach, unless it has no segment. *)
QueueComes ==
    role = "server" /\ attached =>
        \/ queue \/ "no_segment" \in trouble
        \/ api # <<>> /\ api[1] = "ATTACHED"

(* What an event in the server's queue says of the state it will meet.     *)
EventSound(e) ==
    /\ e.type = "BOUND" => e.owner = Listener /\ fifo_index[Listener] = None
    /\ e.type = "ACCEPTED" => e.owner \in up /\ hash[e.owner] = None
    /\ e.type = "DISCONNECTED" => e.owner \in Handles
    /\ e.type = "RX" =>
          /\ e.index \in Index
          /\ e.owner = Listener =>
                "early_rx" \in trouble \/ e.index = fifo_index[Listener]

(* The listener is bound, and each handle accepted, once.                  *)
EventsOnce ==
    \A k, l \in 1..Len(mq) :
        /\ mq[k].type \in {"BOUND", "ACCEPTED"} /\ mq[k].type = mq[l].type
        /\ mq[k].owner = mq[l].owner
        => k = l

ServerEvents ==
    role = "server" =>
        /\ \A k \in 1..Len(mq) : EventSound(mq[k])
        /\ EventsOnce
        /\ ~bound => mq = <<>> /\ fifo_index[Listener] = None
        /\ \A h \in Handles : hash[h] # None => h \in up
        /\ fifo_index[Listener] # None => fifo_index[Listener] \in evt_q

(* The client has one session, and knows which.                            *)
HasSession ==
    \/ cut_through = None /\ sessions = {connected}
    \/ cut_through # None /\ sessions = {cut_through} /\ cut_through \in evt_q

NoSession == cut_through = None /\ sessions = {}

(* The client has one request under way at a time, and one event at most.  *)
ClientTurns ==
    role = "client" =>
        /\ requests \in {<<>>, <<"ATTACH">>, <<"CONNECT">>, <<"DETACH">>}
        /\ ~bound /\ hash = [h \in Handles |-> None]
        /\ pc = "start" => requests = <<>> /\ api = <<>> /\ mq = <<>>
                          /\ state = "START" /\ NoSession
        /\ pc = "wait" =>
              /\ mq = <<>> /\ NoSession
              /\ requests \in {<<>>, <<"ATTACH">>} /\ Len(api) =< 1
              /\ requests # <<>> \/ api # <<>> => state = "START"
              /\ requests # <<>> => api = <<>>
              /\ state = "ATTACHED" => queue
        /\ pc = "loop" =>
              /\ api = <<>> /\ queue /\ requests \in {<<>>, <<"CONNECT">>}
              /\ \/ /\ NoSession /\ state = "ATTACHED" /\ Len(mq) =< 1
                    /\ requests # <<>> => mq = <<>>
                 \/ HasSession /\ requests = <<>> /\ mq = <<>>
        /\ pc = "send" =>
              /\ requests = <<>>
              /\ HasSession \/ (NoSession /\ late)

(* It has bound nothing that VPP could answer.                             *)
ClientReplied == role = "client" => api \in Seq(AttachReplies \cup {"DETACHED"})

IInv ==
    /\ TypeOK /\ PatternSent /\ EventsTyped
    /\ Pipelined /\ ReadyMeansBound /\ QueueComes /\ ServerEvents /\ HashSound
    /\ ClientTurns /\ ClientReplied /\ CrashCauses

-----------------------------------------------------------------------------
(* The data path.                                                          *)

(* Quotient and remainder are unique.                                      *)
LEMMA DivisionUnique ==
    ASSUME NEW b \in Nat, NEW q \in Int, NEW s \in Int, NEW x \in Nat, NEW y \in Nat,
           x < b, y < b, b * q + x = b * s + y
    PROVE  x = y
<1>1. ASSUME q > s PROVE FALSE
  <2>1. PICK e \in Nat : q = s + 1 + e
    BY <1>1
  <2>2. b * q = b * s + b + b * e
    BY <2>1
  <2>3. b * e >= 0 /\ b * e \in Int /\ b * s \in Int
    OBVIOUS
  <2> QED
    BY <2>2, <2>3
<1>2. ASSUME s > q PROVE FALSE
  <2>1. PICK e \in Nat : s = q + 1 + e
    BY <1>2
  <2>2. b * s = b * q + b + b * e
    BY <2>1
  <2>3. b * e >= 0 /\ b * e \in Int /\ b * q \in Int
    OBVIOUS
  <2> QED
    BY <2>2, <2>3
<1>3. q = s /\ b * q \in Int
  BY <1>1, <1>2
<1> QED
  BY <1>3

(* Within one turn of the buffer the offset grows with the stream.         *)
LEMMA OffsetGrows ==
    ASSUME NEW a \in Nat, NEW b \in Nat \ {0}, NEW d \in Nat, (a % b) + d < b
    PROVE  (a + d) % b = (a % b) + d
<1>1. /\ a % b \in Nat /\ (a + d) % b \in Nat /\ (a + d) % b < b
      /\ a \div b \in Int /\ (a + d) \div b \in Int
  OBVIOUS
<1>2. a = b * (a \div b) + (a % b)
  OBVIOUS
<1>3. a + d = b * ((a + d) \div b) + ((a + d) % b)
  OBVIOUS
<1>4. b * (a \div b) \in Int
  BY <1>1
<1>5. b * (a \div b) + ((a % b) + d) = b * ((a + d) \div b) + ((a + d) % b)
  BY <1>1, <1>2, <1>3, <1>4
<1> DEFINE q == a \div b
           s == (a + d) \div b
           x == (a % b) + d
           y == (a + d) % b
<1>6. q \in Int /\ s \in Int /\ x \in Nat /\ y \in Nat /\ x < b /\ y < b /\ b \in Nat
  BY <1>1
<1>7. b * q + x = b * s + y
  BY <1>5
<1> HIDE DEF q, s, x, y
<1>8. x = y
  BY <1>6, <1>7, DivisionUnique
<1> QED
  BY <1>8 DEF x, y

(* The variables of the data path.                                         *)
DataOK ==
    /\ have_return \in BOOLEAN /\ reflects \in BOOLEAN
    /\ cpc \in {"idle", "chunk", "recv", "drain", "done"}
    /\ bytes_to_send \in Nat /\ bytes_sent \in Nat /\ log \in Seq(0..(BufLen - 1))
    /\ tx_used \in 0..CtFifoSize /\ rx_used \in 0..CtFifoSize /\ held \in Nat

(* A chunk ends where the buffer does, where the fifo is full, or where    *)
(* there is no more to send.                                               *)
LEMMA ChunkFits ==
    ASSUME DataOK
    PROVE  /\ bytes_sent % BufLen \in 0..(BufLen - 1)
           /\ \A written \in Written :
                 /\ written \in Nat /\ written =< bytes_to_send
                 /\ tx_used + written =< CtFifoSize
                 /\ (bytes_sent % BufLen) + written =< BufLen
<1>1. BufLen \in Nat \ {0} /\ CtFifoSize \in Nat
  BY ClientAssumption
<1>2. bytes_sent % BufLen \in 0..(BufLen - 1)
  BY <1>1 DEF DataOK
<1> DEFINE o == bytes_sent % BufLen
<1> HIDE DEF o
<1>3. Chunk = Least(Least(BufLen - o, bytes_to_send), CtFifoSize - tx_used)
  BY DEF Chunk, o
<1>4. /\ Chunk \in Nat /\ Chunk =< bytes_to_send
      /\ tx_used + Chunk =< CtFifoSize /\ o + Chunk =< BufLen
  BY <1>1, <1>2, <1>3 DEF Least, DataOK, o
<1>5. \A written \in Written :
         /\ written \in Nat /\ written =< bytes_to_send
         /\ tx_used + written =< CtFifoSize /\ o + written =< BufLen
  BY <1>1, <1>2, <1>4 DEF Written, DataOK, o
<1> QED
  BY <1>2, <1>5 DEF o

(* What send_test_chunk appends continues the pattern.                     *)
LEMMA SendKeeps ==
    ASSUME DataOK, PatternSent, SendTestChunk
    PROVE  DataOK' /\ PatternSent'
<1>0. BufLen \in Nat \ {0} /\ CtFifoSize \in Nat
  BY ClientAssumption
<1>1. PICK written \in Written :
         /\ bytes_to_send' = bytes_to_send - written
         /\ bytes_sent' = bytes_sent + written
         /\ log' = log \o [k \in 1..written |-> (bytes_sent % BufLen) + k - 1]
         /\ tx_used' = tx_used + written
         /\ cpc' = IF have_return THEN "recv" ELSE AtLoop(bytes_to_send')
  BY DEF SendTestChunk
<1> DEFINE o == bytes_sent % BufLen
           new == [k \in 1..written |-> o + k - 1]
<1>2. /\ o \in 0..(BufLen - 1) /\ written \in Nat /\ written =< bytes_to_send
      /\ tx_used + written =< CtFifoSize /\ o + written =< BufLen
  BY ChunkFits
<1>3. \A k \in 1..written : (bytes_sent + (k - 1)) % BufLen = o + (k - 1)
  <2> SUFFICES ASSUME NEW k \in 1..written
               PROVE  (bytes_sent + (k - 1)) % BufLen = o + (k - 1)
    OBVIOUS
  <2>1. k - 1 \in Nat /\ o + (k - 1) < BufLen
    BY <1>0, <1>2
  <2> QED
    BY <1>0, <2>1, OffsetGrows DEF DataOK
<1> HIDE DEF o
<1>4. new \in Seq(0..(BufLen - 1)) /\ Len(new) = written
  BY <1>0, <1>2
<1>5. log' = log \o new /\ log \in Seq(0..(BufLen - 1)) /\ bytes_sent \in Nat
  BY <1>1 DEF o, DataOK
<1> HIDE DEF new
<1>6. /\ log' \in Seq(0..(BufLen - 1)) /\ Len(log') = Len(log) + written
      /\ \A k \in 1..Len(log') :
            log'[k] = IF k =< Len(log) THEN log[k] ELSE new[k - Len(log)]
  <2> DEFINE T == 0..(BufLen - 1)
  <2>1. log \in Seq(T) /\ new \in Seq(T)
    BY <1>4, <1>5
  <2> HIDE DEF T
  <2>2. /\ log \o new \in Seq(T) /\ Len(log \o new) = Len(log) + Len(new)
        /\ \A k \in 1..(Len(log) + Len(new)) :
              (log \o new)[k] = IF k =< Len(log) THEN log[k] ELSE new[k - Len(log)]
    BY <2>1, ConcatProperties
  <2>3. log' \in Seq(0..(BufLen - 1))
    BY <1>5, <2>2 DEF T
  <2> QED
    BY <1>4, <1>5, <2>2, <2>3
<1>7. Len(log) = bytes_sent /\ \A k \in 1..Len(log) : log[k] = (k - 1) % BufLen
  BY DEF PatternSent
<1>8. \A k \in 1..Len(log') : log'[k] = (k - 1) % BufLen
  <2> SUFFICES ASSUME NEW k \in 1..Len(log') PROVE log'[k] = (k - 1) % BufLen
    OBVIOUS
  <2>1. CASE k =< Len(log)
    BY <1>5, <1>6, <1>7, <2>1
  <2>2. CASE ~(k =< Len(log))
    <3> DEFINE d == k - bytes_sent
    <3>1. d \in 1..written /\ bytes_sent + (d - 1) = k - 1
      BY <1>2, <1>5, <1>6, <1>7, <2>2
    <3>2. log'[k] = new[d]
      BY <1>6, <1>7, <2>2
    <3> HIDE DEF d
    <3>3. new[d] = o + (d - 1)
      BY <1>0, <1>2, <3>1 DEF new
    <3>4. (bytes_sent + (d - 1)) % BufLen = o + (d - 1)
      BY <1>3, <3>1
    <3> QED
      BY <3>1, <3>2, <3>3, <3>4
  <2> QED
    BY <2>1, <2>2
<1>9. PatternSent'
  BY <1>1, <1>6, <1>7, <1>8 DEF PatternSent
<1>10. /\ bytes_to_send' \in Nat /\ bytes_sent' \in Nat /\ tx_used' \in 0..CtFifoSize
       /\ cpc' \in {"idle", "chunk", "recv", "drain", "done"}
  BY <1>0, <1>1, <1>2 DEF DataOK, AtLoop
<1>11. UNCHANGED <<have_return, reflects, rx_used, held>>
  BY DEF SendTestChunk, option
<1> QED
  BY <1>6, <1>9, <1>10, <1>11 DEF DataOK

(* The other steps of the client and those of its peer send nothing.       *)
LEMMA OthersKeep ==
    ASSUME DataOK, PatternSent,
           BeginSend \/ RecvTestChunk \/ DrainOver \/ Peer \/ UNCHANGED client
    PROVE  DataOK' /\ PatternSent'
<1>0. {BufLen, CtFifoSize, PeerBuf} \subseteq Nat \ {0}
  BY ClientAssumption
<1> USE DEF client, option, progress, fifos
<1>1. UNCHANGED <<have_return, reflects, bytes_to_send, bytes_sent, log>>
  BY DEF BeginSend, RecvTestChunk, DrainOver, Peer, PeerRead, PeerWrite
<1>2. cpc' \in {"idle", "chunk", "recv", "drain", "done"}
  BY DEF DataOK, BeginSend, RecvTestChunk, DrainOver, Peer, PeerRead, PeerWrite, AtLoop
<1>3. tx_used' \in 0..CtFifoSize /\ rx_used' \in 0..CtFifoSize /\ held' \in Nat
  <2>1. CASE BeginSend \/ DrainOver \/ UNCHANGED client
    BY <2>1 DEF DataOK, BeginSend, DrainOver
  <2>2. CASE RecvTestChunk
    BY <1>0, <2>2 DEF DataOK, RecvTestChunk, Received, Least
  <2>3. CASE PeerRead
    BY <1>0, <2>3 DEF DataOK, PeerRead, Least
  <2>4. CASE PeerWrite
    BY <1>0, <2>4 DEF DataOK, PeerWrite, Least
  <2> QED
    BY <2>1, <2>2, <2>3, <2>4 DEF Peer
<1> QED
  BY <1>1, <1>2, <1>3 DEF DataOK, PatternSent

-----------------------------------------------------------------------------
(* The control path.                                                       *)

USE DEF config, app, vpp

(* The requests as they are taken off their queue.                         *)
LEMMA RequestsTaken ==
    /\ Head(<<"ATTACH", "BIND">>) = "ATTACH" /\ Tail(<<"ATTACH", "BIND">>) = <<"BIND">>
    /\ \A r \in {"ATTACH", "BIND", "CONNECT", "DETACH"} :
          Head(<<r>>) = r /\ Tail(<<r>>) = <<>> /\ <<r>> # <<>> /\ Append(<<>>, r) = <<r>>
    /\ <<"ATTACH", "BIND">> # <<>> /\ <<"ATTACH", "BIND">> # <<"BIND">>
    /\ <<>> \o <<"ATTACH", "BIND">> = <<"ATTACH", "BIND">>
    /\ <<>> \o <<"ATTACH">> = <<"ATTACH">>
OBVIOUS

(* A queue with one more at its end, and without its head.                 *)
LEMMA Appended ==
    ASSUME NEW T, NEW q \in Seq(T), NEW e \in T
    PROVE  /\ Append(q, e) \in Seq(T) /\ Len(q) \in Nat /\ Len(Append(q, e)) = Len(q) + 1
           /\ Append(q, e)[Len(q) + 1] = e /\ Append(q, e) # <<>>
           /\ \A k \in 1..Len(q) : Append(q, e)[k] = q[k]
OBVIOUS

LEMMA Taken ==
    ASSUME NEW T, NEW q \in Seq(T), q # <<>>
    PROVE  /\ Head(q) = q[1] /\ Head(q) \in T /\ Tail(q) \in Seq(T)
           /\ Len(q) \in Nat \ {0} /\ Len(Tail(q)) = Len(q) - 1 /\ 1 \in 1..Len(q)
           /\ \A k \in 1..(Len(q) - 1) :
                 k + 1 \in 1..Len(q) /\ k + 1 > 1 /\ Tail(q)[k] = q[k + 1]
OBVIOUS

(* The options are fixed.                                                  *)
LEMMA RoleFixed == [Next]_vars => role' = role
<1> SUFFICES ASSUME [Next]_vars PROVE role' = role
  OBVIOUS
<1>1. CASE MainThread
  BY <1>1 DEF MainThread, Start, WaitDone, WaitFailed, SubNull, SessionDisconnected,
     ConnectRefused, ServerRx, ClientLoopEnd, ClientSend, ClientData, ClientDetach,
     SessionBound, SessionAccepted, SessionConnected, Crash, Handled
<1>2. CASE VppReplies \/ VppTraffic
  BY <1>2 DEF VppReplies, VppTraffic, VppAttach, VppBind, VppConnect, VppDetach,
     VppAccept, VppDisconnect, VppRx
<1>3. CASE RxThread \/ RxRefused \/ RxUnmap
  BY <1>3 DEF RxThread, RxRefused, RxUnmap, Crash
<1>4. CASE Late \/ ClientDrained \/ PeerStep \/ UNCHANGED vars
  BY <1>4 DEF Late, ClientDrained, PeerStep, vars
<1> QED
  BY <1>1, <1>2, <1>3, <1>4 DEF Next

(* The server's requests and the replies to them.                          *)
ServerPart == Pipelined /\ ReadyMeansBound /\ QueueComes

(* Steps that leave requests and replies alone: of the event loop, of no   *)
(* thread that matters, or the end of the process once the attach is       *)
(* answered and its reply handled.                                         *)
LEMMA QuietServer ==
    ASSUME IInv, role' = role, role = "server",
           UNCHANGED <<requests, api, attached, bound, queue>>, trouble \subseteq trouble',
           \/ pc' = pc /\ state' = state
           \/ pc = "loop" /\ pc' \in {"loop", "crash"} /\ state' \in {state, "READY"}
           \/ /\ pc' = "crash" /\ state' = state /\ requests # <<"ATTACH", "BIND">>
              /\ \A k \in 1..Len(api) : api[k] \notin AttachReplies
    PROVE  ServerPart'
<1>1. Pipelined /\ ReadyMeansBound /\ QueueComes
  BY DEF IInv
<1>2. Pipelined'
  BY <1>1 DEF Pipelined
<1>3. ReadyMeansBound'
  BY <1>1 DEF ReadyMeansBound
<1>4. QueueComes'
  BY <1>1 DEF QueueComes
<1> QED
  BY <1>2, <1>3, <1>4 DEF ServerPart

LEMMA ServerStart ==
    ASSUME IInv, role = "server", Start
    PROVE  ServerPart'
<1>1. /\ requests = <<>> /\ api = <<>> /\ state = "START" /\ ~attached /\ ~bound
  BY DEF IInv, Pipelined, Start
<1>2. requests' = <<"ATTACH", "BIND">> /\ pc' = "wait"
  BY <1>1, RequestsTaken DEF Start, FirstRequests
<1>3. UNCHANGED <<role, api, state, attached, bound>>
  BY DEF Start
<1> QED
  BY <1>1, <1>2, <1>3, RequestsTaken
     DEF ServerPart, Pipelined, ReadyMeansBound, QueueComes

LEMMA ServerWait ==
    ASSUME IInv, role = "server", WaitDone \/ WaitFailed
    PROVE  ServerPart'
<1>1. Pipelined /\ ReadyMeansBound /\ QueueComes
  BY DEF IInv
<1>2. /\ UNCHANGED <<role, requests, api, state, queue, attached, bound, trouble>>
      /\ pc = "wait"
      /\ \/ pc' = "loop" /\ state = "READY"
         \/ pc' = "exit" /\ (state = "FAILED" \/ (requests = <<>> /\ api = <<>>))
  BY <1>1 DEF WaitDone, WaitFailed, Awaited, GivesUp, Pipelined
<1>3. Pipelined'
  BY <1>1, <1>2, RequestsTaken DEF Pipelined
<1>4. ReadyMeansBound'
  BY <1>1, <1>2 DEF ReadyMeansBound
<1>5. QueueComes'
  BY <1>1, <1>2 DEF QueueComes
<1> QED
  BY <1>3, <1>4, <1>5 DEF ServerPart

(* A reply is handled: READY comes of a granted bind alone.                *)
LEMMA ServerReply ==
    ASSUME IInv, role = "server", RxThread
    PROVE  ServerPart'
<1>1. TypeOK /\ Pipelined /\ ReadyMeansBound /\ QueueComes
  BY DEF IInv
<1>2. /\ UNCHANGED <<role, pc, requests, attached, bound, trouble>>
      /\ api # <<>> /\ api' = Tail(api) /\ state' = StateAfter(Head(api))
      /\ queue' = (queue \/ Head(api) = "ATTACHED")
  BY DEF RxThread
<1>3. /\ Head(api) = api[1] /\ 1 \in 1..Len(api) /\ Len(api') = Len(api) - 1
      /\ \A k \in 1..Len(api') :
            k + 1 \in 1..Len(api) /\ k + 1 > 1 /\ api'[k] = api[k + 1]
      /\ Head(api) \in AttachReplies \cup BindReplies \cup {"DETACHED"}
  BY <1>1, <1>2, Taken DEF TypeOK
<1>4. Head(api) # "DETACHED"
  BY <1>1, <1>3 DEF Pipelined
<1>5. /\ Head(api) = "BOUND" => state' = "READY"
      /\ state' = "READY" => Head(api) = "BOUND" \/ state = "READY"
  BY <1>2, <1>3, <1>4 DEF RxThread, BindRefused, StateAfter, StateAfterAttach,
                          AttachReplies, BindReplies
<1>6. \A k \in 1..Len(api') : api'[k] \in BindReplies
  BY <1>1, <1>3 DEF Pipelined
<1>7. \A r \in BindReplies : r \notin AttachReplies /\ r # "DETACHED"
  BY DEF BindReplies, AttachReplies
<1>8. Pipelined'
  <2>1. ~(pc = "start" \/ requests = <<"ATTACH", "BIND">>)
    BY <1>1, <1>2 DEF Pipelined
  <2>2. \A k \in 1..Len(api') : requests = <<>>
    BY <1>1, <1>3, <1>6 DEF Pipelined
  <2> QED
    BY <1>1, <1>2, <1>6, <1>7, <2>1, <2>2 DEF Pipelined
<1>9. ReadyMeansBound'
  BY <1>1, <1>2, <1>3, <1>5 DEF ReadyMeansBound
<1>10. QueueComes'
  <2>1. queue \/ Head(api) = "ATTACHED" => queue'
    BY <1>2, Zenon
  <2> QED
    BY <1>1, <1>2, <1>3, <2>1 DEF QueueComes
<1> QED
  BY <1>8, <1>9, <1>10 DEF ServerPart

LEMMA ServerAttach ==
    ASSUME IInv, role = "server", NEW reply \in AttachReplies, VppAttach(reply)
    PROVE  ServerPart'
<1>1. TypeOK /\ Pipelined
  BY DEF IInv
<1>2. requests = <<"ATTACH", "BIND">>
  BY <1>1, RequestsTaken DEF VppAttach, Pipelined
<1>3. /\ api = <<>> /\ state = "START" /\ ~bound /\ pc = "wait"
  BY <1>1, <1>2, RequestsTaken DEF Pipelined
<1>4. /\ UNCHANGED <<role, pc, state, queue, bound>> /\ requests' = <<"BIND">>
      /\ api' = <<reply>> /\ attached' = (reply # "ATTACH_FAILED")
      /\ reply = "NO_SEGMENT" => "no_segment" \in trouble'
  BY <1>2, <1>3, RequestsTaken DEF VppAttach
<1>5. /\ Len(<<reply>>) = 1 /\ <<reply>>[1] = reply /\ <<reply>> # <<>>
      /\ reply \notin BindReplies /\ reply # "BOUND" /\ reply # "DETACHED"
  BY DEF AttachReplies, BindReplies
<1>6. Pipelined'
  BY <1>3, <1>4, <1>5, RequestsTaken DEF Pipelined
<1>7. ReadyMeansBound'
  BY <1>3, <1>4, <1>5 DEF ReadyMeansBound
<1>8. QueueComes'
  <2>1. attached' => reply = "ATTACHED" \/ reply = "NO_SEGMENT"
    BY <1>4 DEF AttachReplies
  <2> QED
    BY <1>4, <1>5, <2>1 DEF QueueComes
<1> QED
  BY <1>6, <1>7, <1>8 DEF ServerPart

LEMMA ServerBind ==
    ASSUME IInv, role = "server", NEW ok \in BOOLEAN, VppBind(ok)
    PROVE  ServerPart'
<1>1. TypeOK /\ Pipelined /\ ReadyMeansBound /\ QueueComes
  BY DEF IInv
<1>2. requests = <<"BIND">>
  BY <1>1, RequestsTaken DEF VppBind, Pipelined
<1> DEFINE reply == IF ok THEN "BOUND" ELSE "BIND_FAILED"
<1>3. /\ UNCHANGED <<role, pc, state, queue, attached, trouble>> /\ requests' = <<>>
      /\ api' = Append(api, reply) /\ bound' = ok /\ (ok => attached)
  BY <1>2, RequestsTaken DEF VppBind
<1>4. reply \in BindReplies /\ (reply = "BOUND" <=> ok)
  BY DEF BindReplies
<1> HIDE DEF reply
<1>5. /\ Len(api) \in Nat /\ Len(api') = Len(api) + 1 /\ api'[Len(api) + 1] = reply
      /\ \A k \in 1..Len(api) : api'[k] = api[k]
      /\ api' # <<>>
  <2> DEFINE T == AttachReplies \cup BindReplies \cup {"DETACHED"}
  <2>1. api \in Seq(T) /\ reply \in T
    BY <1>1, <1>4 DEF TypeOK
  <2> HIDE DEF T
  <2> QED
    BY <1>3, <2>1, Appended
<1>6. \A r \in BindReplies : r \notin AttachReplies /\ r # "DETACHED"
  BY DEF BindReplies, AttachReplies
<1>7. Pipelined'
  BY <1>1, <1>2, <1>3, <1>4, <1>5, <1>6, RequestsTaken DEF Pipelined
<1>8. ReadyMeansBound'
  <2>1. ~bound /\ pc # "start" /\ state # "READY" /\ pc # "loop"
    BY <1>1, <1>2, RequestsTaken DEF ReadyMeansBound, Pipelined
  <2>2. \A k \in 1..Len(api) : api[k] \notin BindReplies
    BY <1>1, <1>2, RequestsTaken DEF Pipelined
  <2>3. \A k \in 1..Len(api') :
           /\ api'[k] = "BOUND" => ok
           /\ api'[k] = "BIND_FAILED" => ~ok
    <3>1. \A k \in 1..Len(api') : k \in 1..Len(api) \/ k = Len(api) + 1
      BY <1>5
    <3>2. reply = "BIND_FAILED" => ~ok
      BY DEF reply
    <3> QED
      BY <1>4, <1>5, <2>2, <3>1, <3>2 DEF BindReplies
  <2>4. bound' <=> ok
    BY <1>3
  <2> QED
    BY <1>3, <2>1, <2>3, <2>4 DEF ReadyMeansBound
<1>9. QueueComes'
  BY <1>1, <1>3, <1>5 DEF QueueComes, TypeOK
<1> QED
  BY <1>7, <1>8, <1>9 DEF ServerPart

-----------------------------------------------------------------------------
(* The server's events, its pool and its hash.                             *)
EventPart == EventsTyped /\ ServerEvents /\ HashSound

LEMMA QuietEvents ==
    ASSUME IInv, trouble \subseteq trouble',
           UNCHANGED <<role, mq, fifo_index, hash, evt_q, sessions, up, bound>>
    PROVE  EventPart'
<1>1. EventsTyped /\ ServerEvents /\ HashSound
  BY DEF IInv
<1>2. EventsTyped'
  BY <1>1 DEF EventsTyped, ServerEvent, ClientEvent
<1>3. ServerEvents'
  BY <1>1 DEF ServerEvents, EventSound, EventsOnce
<1>4. HashSound'
  BY <1>1 DEF HashSound
<1> QED
  BY <1>2, <1>3, <1>4 DEF EventPart

(* Names that are not mixed up.                                            *)
LEMMA Distinct ==
    /\ None \notin Index /\ Listener \notin Handles /\ Listener \in Owners
    /\ Handles \subseteq Owners /\ 0 \in Index
BY ControlAssumption DEF None, Index, Listener, Owners

(* What VPP adds to the queue must be sound, and not the second of its     *)
(* kind.                                                                   *)
LEMMA PostEvent ==
    ASSUME IInv, role = "server", NEW e \in ServerEvent, mq' = Append(mq, e),
           UNCHANGED <<role, fifo_index, hash, evt_q, sessions>>,
           bound', trouble \subseteq trouble', up \subseteq up', EventSound(e)',
           \A k \in 1..Len(mq) :
              ~ (/\ e.type \in {"BOUND", "ACCEPTED"} /\ mq[k].type = e.type
                 /\ mq[k].owner = e.owner)
    PROVE  EventPart'
<1>1. EventsTyped /\ ServerEvents /\ HashSound
  BY DEF IInv
<1>2. mq \in Seq(ServerEvent)
  BY <1>1 DEF EventsTyped
<1>3. /\ mq' \in Seq(ServerEvent) /\ Len(mq) \in Nat /\ Len(mq') = Len(mq) + 1
      /\ mq'[Len(mq) + 1] = e /\ \A k \in 1..Len(mq) : mq'[k] = mq[k]
  BY <1>2, Appended
<1>4. EventsTyped'
  BY <1>3 DEF EventsTyped, ServerEvent
<1>5. \A k \in 1..Len(mq) : EventSound(mq[k])
  BY <1>1 DEF ServerEvents
<1>6. \A k \in 1..Len(mq') : k \in 1..Len(mq) \/ k = Len(mq) + 1
  BY <1>3
<1>7. \A k \in 1..Len(mq') : EventSound(mq[k])'
  BY <1>3, <1>5, <1>6 DEF EventSound
<1>8. EventsOnce'
  BY <1>1, <1>3, <1>6 DEF EventsOnce, ServerEvents
<1>9. ServerEvents'
  BY <1>1, <1>7, <1>8 DEF ServerEvents
<1>10. HashSound'
  BY <1>1 DEF HashSound
<1> QED
  BY <1>4, <1>9, <1>10 DEF EventPart

(* The head of the queue, and the rest, in which it does not come again.   *)
LEMMA TakeEvent ==
    ASSUME IInv, role = "server", mq # <<>>
    PROVE  /\ Head(mq) \in ServerEvent /\ EventSound(Head(mq)) /\ bound
           /\ Tail(mq) \in Seq(ServerEvent)
           /\ \A k \in 1..Len(Tail(mq)) :
                 /\ EventSound(Tail(mq)[k]) /\ Tail(mq)[k] \in ServerEvent
                 /\ ~ (/\ Head(mq).type \in {"BOUND", "ACCEPTED"}
                       /\ Tail(mq)[k].type = Head(mq).type
                       /\ Tail(mq)[k].owner = Head(mq).owner)
           /\ \A k, l \in 1..Len(Tail(mq)) :
                 /\ Tail(mq)[k].type \in {"BOUND", "ACCEPTED"}
                 /\ Tail(mq)[k].type = Tail(mq)[l].type
                 /\ Tail(mq)[k].owner = Tail(mq)[l].owner
                 => k = l
<1>1. EventsTyped /\ ServerEvents
  BY DEF IInv
<1>2. mq \in Seq(ServerEvent) /\ bound
  BY <1>1 DEF EventsTyped, ServerEvents
<1> DEFINE t == Tail(mq)
<1>3. /\ Head(mq) = mq[1] /\ Head(mq) \in ServerEvent /\ t \in Seq(ServerEvent)
      /\ Len(mq) \in Nat \ {0} /\ Len(t) = Len(mq) - 1 /\ 1 \in 1..Len(mq)
      /\ \A k \in 1..(Len(mq) - 1) :
            k + 1 \in 1..Len(mq) /\ k + 1 > 1 /\ t[k] = mq[k + 1]
  BY <1>2, Taken
<1> HIDE DEF t
<1>4. \A k \in 1..Len(mq) : EventSound(mq[k])
  BY <1>1 DEF ServerEvents
<1>5. \A k \in 1..Len(t) : k + 1 \in 1..Len(mq) /\ k + 1 # 1 /\ t[k] = mq[k + 1]
  BY <1>3
<1>6. \A k \in 1..Len(t) : EventSound(t[k]) /\ t[k] \in ServerEvent
  BY <1>2, <1>3, <1>4, <1>5
<1>7. EventSound(Head(mq))
  BY <1>3, <1>4
<1>8. \A k, l \in 1..Len(mq) :
        /\ mq[k].type \in {"BOUND", "ACCEPTED"} /\ mq[k].type = mq[l].type
        /\ mq[k].owner = mq[l].owner
        => k = l
  BY <1>1 DEF ServerEvents, EventsOnce
<1>9. \A k \in 1..Len(t) :
        ~ (/\ Head(mq).type \in {"BOUND", "ACCEPTED"} /\ t[k].type = Head(mq).type
           /\ t[k].owner = Head(mq).owner)
  BY <1>3, <1>5, <1>8
<1>10. \A k, l \in 1..Len(t) :
         /\ t[k].type \in {"BOUND", "ACCEPTED"} /\ t[k].type = t[l].type
         /\ t[k].owner = t[l].owner
         => k = l
  <2> SUFFICES ASSUME NEW k \in 1..Len(t), NEW l \in 1..Len(t),
                      t[k].type \in {"BOUND", "ACCEPTED"}, t[k].type = t[l].type,
                      t[k].owner = t[l].owner
               PROVE  k = l
    OBVIOUS
  <2>1. k + 1 = l + 1
    BY <1>5, <1>8
  <2> QED
    BY <1>3, <2>1
<1> QED
  BY <1>2, <1>3, <1>6, <1>7, <1>9, <1>10 DEF t

(* What is left of the queue stays sound if the state it speaks of does.   *)
LEMMA HandleEvent ==
    ASSUME IInv, role = "server", role' = role, mq # <<>>, mq' = Tail(mq), bound' = bound,
           \A k \in 1..Len(mq') : EventSound(Tail(mq)[k]) => EventSound(mq[k])',
           \A h \in Handles : hash'[h] # None => h \in up',
           fifo_index'[Listener] # None => fifo_index'[Listener] \in evt_q',
           HashSound'
    PROVE  EventPart'
<1>1. /\ Tail(mq) \in Seq(ServerEvent) /\ bound
      /\ \A k \in 1..Len(Tail(mq)) : EventSound(Tail(mq)[k])
  BY TakeEvent
<1>2. EventsTyped'
  BY <1>1 DEF EventsTyped, ServerEvent
<1>3. EventsOnce'
  BY TakeEvent DEF EventsOnce
<1>4. \A k \in 1..Len(mq') : EventSound(mq[k])'
  BY <1>1
<1>5. ServerEvents'
  BY <1>1, <1>3, <1>4 DEF ServerEvents
<1> QED
  BY <1>2, <1>5 DEF EventPart

(* session_bound_handler: it is the first session, or at least no other    *)
(* was the listener's.                                                     *)
LEMMA EventBound ==
    ASSUME IInv, role = "server", NEW i \in Index, SessionBound(i)
    PROVE  EventPart'
<1>0. TypeOK /\ HashSound /\ ServerEvents
  BY DEF IInv
<1>1. /\ mq # <<>> /\ Head(mq).type = "BOUND" /\ mq' = Tail(mq)
      /\ i \notin sessions /\ sessions' = sessions \cup {i} /\ evt_q' = evt_q \cup {i}
      /\ fifo_index' = [fifo_index EXCEPT ![Listener] = i]
      /\ UNCHANGED <<role, hash, up, bound, trouble>>
  BY DEF SessionBound, Takes, Handled, PoolGet
<1>2. fifo_index[Listener] = None /\ Head(mq).owner = Listener
  BY <1>1, TakeEvent DEF EventSound
<1>3. fifo_index'[Listener] = i /\ i # None
  BY <1>0, <1>1, Distinct DEF TypeOK
<1>4. \A k \in 1..Len(mq') : EventSound(Tail(mq)[k]) => EventSound(mq[k])'
  <2> SUFFICES ASSUME NEW k \in 1..Len(mq'), EventSound(mq'[k]) PROVE EventSound(mq[k])'
    BY <1>1
  <2>1. mq'[k].type = "BOUND" => mq'[k].owner = Listener
    BY DEF EventSound
  <2>2. mq'[k].type # "BOUND"
    BY <1>1, <1>2, <2>1, TakeEvent
  <2>3. mq'[k].index \in Index => mq'[k].index # fifo_index[Listener]
    BY <1>2, Distinct
  <2> QED
    BY <1>1, <2>2, <2>3 DEF EventSound
<1>5. HashSound'
  BY <1>0, <1>1, <1>2, <1>3 DEF HashSound
<1> QED
  BY <1>0, <1>1, <1>3, <1>4, <1>5, HandleEvent DEF ServerEvents

(* session_accepted_handler: the handle is not in the hash.                *)
LEMMA EventAccepted ==
    ASSUME IInv, role = "server", NEW i \in Index, SessionAccepted(i)
    PROVE  EventPart'
<1>0. TypeOK /\ HashSound /\ ServerEvents
  BY DEF IInv
<1> DEFINE h == Head(mq).owner
<1>1. /\ mq # <<>> /\ Head(mq).type = "ACCEPTED" /\ mq' = Tail(mq)
      /\ i \notin sessions /\ sessions' = sessions \cup {i} /\ evt_q' = evt_q \ {i}
      /\ fifo_index' = [fifo_index EXCEPT ![h] = i] /\ hash' = [hash EXCEPT ![h] = i]
      /\ UNCHANGED <<role, up, bound, trouble>>
  BY DEF SessionAccepted, Takes, Handled, PoolGet, HashSet
<1>2. h \in up /\ h \in Handles /\ hash[h] = None
  BY <1>0, <1>1, TakeEvent DEF EventSound, TypeOK
<1>3. \A k \in 1..Len(Tail(mq)) :
         Tail(mq)[k].type = "ACCEPTED" => Tail(mq)[k].owner # h
  BY <1>1, TakeEvent
<1> HIDE DEF h
<1>4. /\ fifo_index'[Listener] = fifo_index[Listener] /\ i # None
      /\ hash'[h] = i /\ \A g \in Handles \ {h} : hash'[g] = hash[g]
  BY <1>0, <1>1, <1>2, Distinct DEF TypeOK
<1>5. \A k \in 1..Len(mq') : EventSound(Tail(mq)[k]) => EventSound(mq[k])'
  BY <1>0, <1>1, <1>3, <1>4 DEF EventSound, TypeOK
<1>6. HashSound'
  <2> DEFINE Hashed == {g \in Handles : hash[g] # None}
  <2>1. /\ \A f, g \in Hashed : hash[f] = hash[g] => f = g
        /\ sessions = {hash[g] : g \in Hashed} \cup ({fifo_index[Listener]} \ {None})
        /\ \A g \in Hashed : hash[g] # fifo_index[Listener]
    BY <1>0 DEF HashSound
  <2>2. {g \in Handles : hash'[g] # None} = Hashed \cup {h} /\ h \notin Hashed
    BY <1>2, <1>4
  <2>3. \A g \in Hashed : hash'[g] = hash[g] /\ hash[g] # i
    BY <1>1, <1>4, <2>1, <2>2
  <2>4. i # fifo_index[Listener]
    BY <1>1, <1>4, <2>1
  <2>5. {hash'[g] : g \in Hashed \cup {h}} = {hash[g] : g \in Hashed} \cup {i}
    BY <1>4, <2>3
  <2> HIDE DEF Hashed
  <2>6. \A f, g \in Hashed \cup {h} : hash'[f] = hash'[g] => f = g
    BY <1>4, <2>1, <2>3
  <2>7. \A g \in Hashed \cup {h} : hash'[g] # fifo_index'[Listener]
    BY <1>4, <2>1, <2>3, <2>4
  <2>8. sessions' = {hash'[g] : g \in Hashed \cup {h}} \cup ({fifo_index'[Listener]} \ {None})
    BY <1>1, <1>4, <2>1, <2>5
  <2> QED
    BY <2>2, <2>6, <2>7, <2>8 DEF HashSound
<1>7. fifo_index'[Listener] # None => fifo_index'[Listener] \in evt_q'
  <2>1. fifo_index[Listener] # None => fifo_index[Listener] \in sessions
    BY <1>0 DEF HashSound
  <2> QED
    BY <1>0, <1>1, <1>4, <2>1 DEF ServerEvents
<1>8. \A g \in Handles : hash'[g] # None => g \in up'
  BY <1>0, <1>1, <1>2, <1>4 DEF ServerEvents
<1> QED
  BY <1>1, <1>5, <1>6, <1>7, <1>8, HandleEvent

(* session_disconnected_handler, where it comes to its end.                *)
LEMMA EventDisconnected ==
    ASSUME IInv, role = "server", SessionDisconnected, pc' # "crash"
    PROVE  EventPart'
<1>0. TypeOK /\ HashSound /\ ServerEvents
  BY DEF IInv
<1> DEFINE h == Head(mq).owner
           i == hash[h]
<1>1. /\ mq # <<>> /\ Head(mq).type = "DISCONNECTED" /\ mq' = Tail(mq)
      /\ sessions' = sessions \ {i} /\ hash' = [hash EXCEPT ![h] = None]
      /\ UNCHANGED <<role, up, bound, trouble, evt_q, fifo_index>>
  BY DEF SessionDisconnected, Takes, Handled, Crash
<1>2. h \in Handles
  BY <1>1, TakeEvent DEF EventSound
<1> HIDE DEF h
<1>3. hash'[h] = None /\ \A g \in Handles \ {h} : hash'[g] = hash[g]
  BY <1>0, <1>1, <1>2 DEF TypeOK
<1>4. \A k \in 1..Len(mq') : EventSound(Tail(mq)[k]) => EventSound(mq[k])'
  BY <1>0, <1>1, <1>3 DEF EventSound, TypeOK
<1>5. HashSound'
  <2> DEFINE Hashed == {g \in Handles : hash[g] # None}
  <2>1. /\ \A f, g \in Hashed : hash[f] = hash[g] => f = g
        /\ sessions = {hash[g] : g \in Hashed} \cup ({fifo_index[Listener]} \ {None})
        /\ \A g \in Hashed : hash[g] # fifo_index[Listener]
    BY <1>0 DEF HashSound
  <2>2. {g \in Handles : hash'[g] # None} = Hashed \ {h}
    BY <1>2, <1>3
  <2>3. \A g \in Hashed \ {h} : hash'[g] = hash[g] /\ hash[g] # i
    BY <1>2, <1>3, <2>1
  <2>4. i # fifo_index[Listener] \/ i = None
    BY <1>2, <2>1
  <2>5. {hash'[g] : g \in Hashed \ {h}} = {hash[g] : g \in Hashed} \ {i}
    <3>1. \A g \in Hashed : g = h => hash[g] = i
      OBVIOUS
    <3> QED
      BY <2>3, <3>1
  <2>6. sessions' = {hash'[g] : g \in Hashed \ {h}} \cup ({fifo_index'[Listener]} \ {None})
    BY <1>1, <2>1, <2>4, <2>5
  <2> HIDE DEF Hashed
  <2>7. \A f, g \in Hashed \ {h} : hash'[f] = hash'[g] => f = g
    BY <2>1, <2>3
  <2>8. \A g \in Hashed \ {h} : hash'[g] # fifo_index'[Listener]
    BY <1>1, <2>1, <2>3
  <2> QED
    BY <2>2, <2>6, <2>7, <2>8 DEF HashSound
<1>6. \A g \in Handles : hash'[g] # None => g \in up'
  BY <1>0, <1>1, <1>3 DEF ServerEvents
<1> QED
  BY <1>0, <1>1, <1>4, <1>5, <1>6, HandleEvent DEF ServerEvents

(* The events that VPP posts.                                              *)
LEMMA EventPosted ==
    ASSUME IInv, role = "server",
           \/ \E h \in Handles : VppAccept(h) \/ VppDisconnect(h)
           \/ \E o \in Owners : VppRx(o)
    PROVE  EventPart'
<1>0. TypeOK /\ HashSound /\ ServerEvents
  BY DEF IInv
<1>1. ASSUME NEW h \in Handles, VppAccept(h) PROVE EventPart'
  <2> DEFINE e == Event("ACCEPTED", h, None)
  <2>1. /\ e \in ServerEvent /\ e.type = "ACCEPTED" /\ e.owner = h
    BY Distinct DEF Event, ServerEvent
  <2>2. h \notin up /\ hash[h] = None
    BY <1>0, <1>1 DEF VppAccept, ServerEvents
  <2>3. /\ mq' = Append(mq, e) /\ up' = up \cup {h} /\ bound'
        /\ UNCHANGED <<role, fifo_index, hash, evt_q, sessions, trouble>>
    BY <1>1 DEF VppAccept
  <2> HIDE DEF e
  <2>4. EventSound(e)'
    BY <2>1, <2>2, <2>3 DEF EventSound
  <2>5. \A k \in 1..Len(mq) : ~(mq[k].type = "ACCEPTED" /\ mq[k].owner = h)
    BY <1>0, <2>2 DEF ServerEvents, EventSound
  <2> QED
    BY <2>1, <2>3, <2>4, <2>5, PostEvent
<1>2. ASSUME NEW h \in Handles, VppDisconnect(h) PROVE EventPart'
  <2> DEFINE e == Event("DISCONNECTED", h, None)
  <2>1. /\ e \in ServerEvent /\ e.type = "DISCONNECTED" /\ e.owner = h
    BY Distinct DEF Event, ServerEvent
  <2>3. /\ mq' = Append(mq, e) /\ trouble \subseteq trouble' /\ bound'
        /\ UNCHANGED <<role, fifo_index, hash, evt_q, sessions, up>>
    BY <1>2 DEF VppDisconnect
  <2> HIDE DEF e
  <2>4. EventSound(e)'
    BY <2>1 DEF EventSound
  <2> QED
    BY <2>1, <2>3, <2>4, PostEvent
<1>3. ASSUME NEW o \in Owners, VppRx(o) PROVE EventPart'
  <2>0. (IF fifo_index[o] = None THEN 0 ELSE fifo_index[o]) \in Index
    BY <1>0, Distinct DEF TypeOK
  <2>1. PICK i \in Index : i = IF fifo_index[o] = None THEN 0 ELSE fifo_index[o]
    BY <2>0
  <2>2. fifo_index[o] = None => "early_rx" \in trouble'
    BY <1>3 DEF VppRx
  <2> DEFINE e == Event("RX", o, i)
  <2>3. /\ mq' = Append(mq, e) /\ trouble \subseteq trouble' /\ bound'
        /\ UNCHANGED <<role, fifo_index, hash, evt_q, sessions, up>>
    BY <1>3, <2>1 DEF VppRx
  <2>4. /\ e \in ServerEvent /\ e.type = "RX" /\ e.owner = o /\ e.index = i
    BY DEF Event, ServerEvent
  <2>5. o = Listener => "early_rx" \in trouble' \/ i = fifo_index'[Listener]
    BY <2>1, <2>2, <2>3
  <2> HIDE DEF e
  <2>6. EventSound(e)'
    BY <2>4, <2>5 DEF EventSound
  <2> QED
    BY <2>3, <2>4, <2>6, PostEvent
<1> QED
  BY <1>1, <1>2, <1>3

(* The event of the bind is the first.                                     *)
LEMMA EventBind ==
    ASSUME IInv, role = "server", NEW ok \in BOOLEAN, VppBind(ok)
    PROVE  EventPart'
<1>0. TypeOK /\ HashSound /\ ServerEvents /\ Pipelined /\ ReadyMeansBound
  BY DEF IInv
<1>1. ~bound
  BY <1>0, RequestsTaken DEF VppBind, ReadyMeansBound, Pipelined
<1>2. mq = <<>> /\ fifo_index[Listener] = None
  BY <1>0, <1>1 DEF ServerEvents
<1>3. /\ UNCHANGED <<role, fifo_index, hash, evt_q, sessions, up, trouble>>
      /\ bound' = ok
      /\ mq' = IF ok THEN Append(mq, Event("BOUND", Listener, None)) ELSE mq
  BY DEF VppBind
<1>4. CASE ok = FALSE
  <2>1. bound' = bound
    BY <1>0, <1>1, <1>3, <1>4, Zenon DEF TypeOK
  <2>2. mq' = mq
    BY <1>3, <1>4
  <2> QED
    BY <1>3, <2>1, <2>2, QuietEvents
<1>5. CASE ok = TRUE
  <2> DEFINE e == Event("BOUND", Listener, None)
  <2>1. e \in ServerEvent /\ e.type = "BOUND" /\ e.owner = Listener
    BY Distinct DEF Event, ServerEvent
  <2>2. mq' = Append(mq, e) /\ bound'
    BY <1>3, <1>5
  <2> HIDE DEF e
  <2>3. EventSound(e)'
    BY <1>2, <1>3, <2>1 DEF EventSound
  <2>4. Len(mq) = 0
    BY <1>2
  <2> QED
    BY <1>3, <2>1, <2>2, <2>3, <2>4, PostEvent
<1> QED
  BY <1>4, <1>5

(* A message of the API ends the process.                                  *)
LEMMA ServerEnds ==
    ASSUME IInv, role = "server", RxRefused \/ RxUnmap
    PROVE  ServerPart' /\ EventPart'
<1>1. TypeOK /\ Pipelined
  BY DEF IInv
<1>2. /\ pc' = "crash" /\ trouble \subseteq trouble'
      /\ UNCHANGED <<role, requests, api, attached, bound, queue, state>>
      /\ UNCHANGED <<mq, fifo_index, hash, evt_q, sessions, up>>
  BY DEF RxRefused, RxUnmap, Crash
<1>3. /\ api # <<>> \/ attached
      /\ api # <<>> => Head(api) \notin AttachReplies
  BY DEF RxRefused, RxUnmap, BindRefused, AttachReplies
<1>4. api # <<>> => Head(api) = api[1]
  BY <1>1, Taken DEF TypeOK
<1>5. \A k \in 1..Len(api) : api[k] \notin AttachReplies
  <2> SUFFICES ASSUME NEW k \in 1..Len(api) PROVE api[k] \notin AttachReplies
    OBVIOUS
  <2>1. CASE k > 1
    BY <1>1, <2>1 DEF Pipelined, BindReplies, AttachReplies
  <2>2. CASE ~(k > 1)
    <3>1. k = 1 /\ api # <<>>
      BY <1>1, <2>2 DEF TypeOK
    <3> QED
      BY <1>3, <1>4, <3>1
  <2> QED
    BY <2>1, <2>2
<1>6. requests # <<"ATTACH", "BIND">>
  BY <1>1, <1>3 DEF Pipelined
<1>7. ServerPart'
  BY <1>2, <1>5, <1>6, QuietServer
<1> QED
  BY <1>2, <1>7, QuietEvents

(* Every step of a server's behaviour keeps its two parts.                 *)
LEMMA ServerStep ==
    ASSUME IInv, [Next]_vars, role = "server"
    PROVE  ServerPart' /\ EventPart'
<1>0. TypeOK /\ Pipelined /\ role' = role
  BY RoleFixed DEF IInv
<1>1. pc # "send" /\ pc # "detach"
  BY <1>0 DEF Pipelined
<1>2. mq # <<>> => Head(mq).type \in {"BOUND", "ACCEPTED", "DISCONNECTED", "RX"}
  BY TakeEvent DEF ServerEvent
<1>3. CASE Start
  BY <1>3, ServerStart, QuietEvents DEF Start
<1>4. CASE WaitDone \/ WaitFailed
  BY <1>4, ServerWait, QuietEvents DEF WaitDone, WaitFailed
<1>5. ASSUME NEW why, pc = "loop", Crash(why) PROVE ServerPart' /\ EventPart'
  BY <1>5, QuietServer, QuietEvents DEF Crash
<1>6. CASE SubNull
  BY <1>5, <1>6 DEF SubNull, Looping
<1>7. ASSUME NEW i \in Index, SessionBound(i) \/ SessionAccepted(i)
      PROVE  ServerPart' /\ EventPart'
  <2>1. ServerPart'
    BY <1>0, <1>7, QuietServer DEF SessionBound, SessionAccepted, Takes, Looping, Handled
  <2> QED
    BY <1>7, <2>1, EventBound, EventAccepted
<1>8. CASE SessionDisconnected
  <2>1. pc = "loop"
    BY <1>8 DEF SessionDisconnected, Takes, Looping
  <2>2. CASE pc' = "crash"
    <3>1. Crash("null_evt_q")
      BY <1>0, <1>8, <2>2 DEF SessionDisconnected, Handled
    <3> QED
      BY <1>5, <2>1, <3>1
  <2>3. CASE pc' # "crash"
    <3>1. ServerPart'
      BY <1>0, <1>8, <2>1, <2>3, QuietServer DEF SessionDisconnected, Handled, Crash
    <3> QED
      BY <1>8, <2>3, <3>1, EventDisconnected
  <2> QED
    BY <2>2, <2>3
<1>9. CASE ServerRx
  <2>1. pc = "loop" /\ mq # <<>>
    BY <1>9 DEF ServerRx, Takes, Looping
  <2>2. \/ Crash("bad_session")
        \/ /\ Handled
           /\ UNCHANGED <<state, sessions, evt_q, hash, connected, cut_through,
                          fifo_index, answered, trouble>>
    BY <1>9 DEF ServerRx
  <2>3. CASE Crash("bad_session")
    BY <1>5, <2>1, <2>3
  <2>4. CASE /\ Handled
             /\ UNCHANGED <<state, sessions, evt_q, hash, connected, cut_through,
                            fifo_index, answered, trouble>>
    <3>1. /\ mq' = Tail(mq) /\ pc' = "loop"
          /\ UNCHANGED <<role, queue, requests, api, attached, bound, up>>
      BY <2>4 DEF Handled
    <3>2. ServerPart'
      BY <2>1, <2>4, <3>1, QuietServer
    <3>3. ServerEvents /\ HashSound /\ HashSound'
      BY <2>4, <3>1 DEF IInv, HashSound
    <3>4. \A k \in 1..Len(mq') : EventSound(Tail(mq)[k]) => EventSound(mq[k])'
      BY <2>4, <3>1 DEF EventSound
    <3> QED
      BY <2>1, <2>4, <3>1, <3>2, <3>3, <3>4, HandleEvent DEF ServerEvents
  <2> QED
    BY <2>2, <2>3, <2>4
<1>10. CASE RxThread \/ RxRefused \/ RxUnmap
  <2>1. CASE RxThread
    BY <2>1, ServerReply, QuietEvents DEF RxThread
  <2>2. CASE RxRefused \/ RxUnmap
    BY <2>2, ServerEnds DEF RxRefused, RxUnmap
  <2> QED
    BY <1>10, <2>1, <2>2
<1>11. ASSUME NEW reply \in AttachReplies, VppAttach(reply)
       PROVE  ServerPart' /\ EventPart'
  <2>1. /\ UNCHANGED <<role, mq, fifo_index, hash, evt_q, sessions, up, bound>>
        /\ trouble \subseteq trouble'
    BY <1>11 DEF VppAttach
  <2> QED
    BY <1>11, <2>1, ServerAttach, QuietEvents
<1>12. ASSUME NEW ok \in BOOLEAN, VppBind(ok) PROVE ServerPart' /\ EventPart'
  BY <1>12, ServerBind, EventBind
<1>13. CASE VppTraffic
  <2>1. /\ UNCHANGED <<role, requests, api, attached, bound, queue, pc, state>>
        /\ trouble \subseteq trouble'
    BY <1>13 DEF VppTraffic, VppAccept, VppDisconnect, VppRx
  <2> QED
    BY <1>13, <2>1, QuietServer, EventPosted DEF VppTraffic
<1>14. CASE UNCHANGED vars
  BY <1>14, QuietServer, QuietEvents DEF vars
<1>15. ~ (\/ ConnectRefused \/ ClientLoopEnd \/ ClientSend \/ ClientData
          \/ ClientDetach \/ ClientDrained \/ PeerStep \/ Late
          \/ \E i \in Index : SessionConnected(i))
  BY <1>1, <1>2 DEF ConnectRefused, ClientLoopEnd, ClientSend, ClientData,
     ClientDetach, ClientDrained, PeerStep, Late, SessionConnected, Takes
<1>16. ~ (VppDetach \/ \E type \in ConnectEvents : VppConnect(type))
  BY <1>0, RequestsTaken DEF VppDetach, VppConnect, Pipelined
<1> QED
  BY <1>3, <1>4, <1>6, <1>7, <1>8, <1>9, <1>10, <1>11, <1>12, <1>13, <1>14, <1>15, <1>16
     DEF Next, MainThread, VppReplies

-----------------------------------------------------------------------------
(* The client.                                                             *)
ClientPart == ClientTurns /\ EventsTyped /\ HashSound

(* A client's hash stays empty.                                            *)
LEMMA EmptyHash ==
    ASSUME role' = "client", hash' = [h \in Handles |-> None]
    PROVE  HashSound'
BY DEF HashSound

(* A client's step that leaves the queue of events alone, or posts or      *)
(* takes one.                                                              *)
LEMMA ClientEvents ==
    ASSUME IInv, role = "client", role' = role, UNCHANGED <<hash, bound>>,
           \/ mq' = mq
           \/ mq # <<>> /\ mq' = Tail(mq)
           \/ \E type \in ConnectEvents : mq' = Append(mq, Event(type, None, None))
    PROVE  EventsTyped' /\ HashSound' /\ ~bound' /\ hash' = [h \in Handles |-> None]
<1>1. EventsTyped /\ ClientTurns
  BY DEF IInv
<1>2. hash' = [h \in Handles |-> None] /\ ~bound'
  BY <1>1 DEF ClientTurns
<1>3. mq \in Seq(ClientEvent)
  BY <1>1 DEF EventsTyped
<1>4. \A type \in ConnectEvents : Event(type, None, None) \in ClientEvent
  BY DEF Event, ClientEvent
<1>5. mq' \in Seq(ClientEvent)
  BY <1>3, <1>4, Appended, Taken
<1>6. EventsTyped'
  BY <1>5 DEF EventsTyped, ClientEvent
<1> QED
  BY <1>2, <1>6, EmptyHash

(* What a client's queue may hold.                                         *)
LEMMA ClientHead ==
    ASSUME IInv, role = "client", mq # <<>>
    PROVE  Head(mq).type \in ConnectEvents
<1>1. mq \in Seq(ClientEvent)
  BY DEF IInv, EventsTyped
<1>2. Head(mq) \in ClientEvent
  BY <1>1, Taken
<1> QED
  BY <1>2 DEF ClientEvent

(* A client's steps that handle an event.                                  *)
LEMMA ClientHandles ==
    ASSUME IInv, role = "client",
           ConnectRefused \/ \E i \in Index : SessionConnected(i)
    PROVE  ClientPart'
<1>0. TypeOK /\ ClientTurns
  BY DEF IInv
<1>1. /\ mq # <<>> /\ mq' = Tail(mq) /\ pc = "loop"
      /\ pc' = IF late THEN "send" ELSE "loop"
      /\ UNCHANGED <<role, queue, requests, api, late, bound, hash>>
  BY DEF ConnectRefused, SessionConnected, Takes, Looping, Handled
<1>2. /\ api = <<>> /\ queue /\ requests = <<>> /\ NoSession /\ state = "ATTACHED"
      /\ Len(mq) =< 1
  BY <1>0, <1>1 DEF ClientTurns
<1>3. mq' = <<>>
  BY <1>1, <1>2 DEF IInv, EventsTyped
<1>4. EventsTyped' /\ HashSound' /\ ~bound' /\ hash' = [h \in Handles |-> None]
  BY <1>1, ClientEvents
<1>5. (NoSession' /\ state' = "ATTACHED") \/ HasSession'
  <2>1. CASE ConnectRefused
    BY <1>2, <2>1 DEF ConnectRefused, NoSession
  <2>2. ASSUME NEW i \in Index, SessionConnected(i) PROVE HasSession'
    <3>1. sessions' = {i} /\ i # None
      BY <1>2, <2>2, Distinct DEF SessionConnected, PoolGet, NoSession
    <3> QED
      BY <1>2, <2>2, <3>1 DEF SessionConnected, HasSession, NoSession
  <2> QED
    BY <2>1, <2>2
<1>6. Len(mq') =< 1
  BY <1>3
<1>7. ClientTurns'
  BY <1>1, <1>2, <1>3, <1>4, <1>5, <1>6 DEF ClientTurns
<1> QED
  BY <1>4, <1>7 DEF ClientPart

(* Its other steps.                                                        *)
LEMMA ClientMoves ==
    ASSUME IInv, role = "client",
           \/ Start \/ WaitDone \/ WaitFailed \/ ClientLoopEnd \/ ClientSend
           \/ ClientData \/ ClientDrained \/ ClientDetach \/ PeerStep \/ Late
    PROVE  ClientPart'
<1>0. TypeOK /\ ClientTurns
  BY DEF IInv
<1>1. UNCHANGED <<role, mq, bound, hash, sessions, evt_q, connected, cut_through, state,
                  queue, api>>
  BY DEF Start, WaitDone, WaitFailed, ClientLoopEnd, ClientSend, Crash, ClientData,
         ClientDrained, ClientDetach, PeerStep, Late
<1>2. EventsTyped' /\ HashSound' /\ ~bound' /\ hash' = [h \in Handles |-> None]
  BY <1>1, ClientEvents
<1>3. (NoSession' <=> NoSession) /\ (HasSession' <=> HasSession)
  BY <1>1 DEF NoSession, HasSession
<1>4. CASE Start
  <2>1. requests' = <<"ATTACH">> /\ pc' = "wait" /\ pc = "start"
    BY <1>0, <1>4, RequestsTaken DEF Start, FirstRequests, ClientTurns
  <2> QED
    BY <1>0, <1>1, <1>2, <1>3, <2>1, RequestsTaken DEF ClientTurns, ClientPart
<1>5. CASE WaitDone
  <2>1. CASE pc = "detach"
    BY <1>0, <1>1, <1>2, <1>5, <2>1 DEF WaitDone, ClientTurns, ClientPart
  <2>2. CASE pc = "wait"
    <3>1. /\ pc' = "loop" /\ requests = <<>> /\ state = "ATTACHED" /\ api = <<>>
          /\ queue /\ mq = <<>> /\ NoSession
      BY <1>0, <1>5, <2>2 DEF WaitDone, Awaited, ClientTurns
    <3>2. requests' = <<"CONNECT">>
      BY <1>5, <2>2, <3>1, RequestsTaken DEF WaitDone
    <3>3. mq' = <<>> /\ Len(mq') =< 1
      BY <1>1, <3>1
    <3> QED
      BY <1>1, <1>2, <1>3, <3>1, <3>2, <3>3 DEF ClientTurns, ClientPart
  <2> QED
    BY <1>5, <2>1, <2>2 DEF WaitDone
<1>6. CASE WaitFailed
  BY <1>0, <1>1, <1>2, <1>6 DEF WaitFailed, ClientTurns, ClientPart
<1>7. CASE ClientLoopEnd
  <2>1. ~NoSession \/ state # "ATTACHED"
    <3>1. Cardinality({}) = 0
      BY FS_EmptySet
    <3> QED
      BY <1>7, <3>1 DEF ClientLoopEnd, ClientLoopDone, NoSession
  <2>2. HasSession /\ requests = <<>> /\ pc' = "send" /\ requests' = requests
    BY <1>0, <1>7, <2>1 DEF ClientLoopEnd, ClientTurns
  <2> QED
    BY <1>1, <1>2, <1>3, <2>2 DEF ClientTurns, ClientPart
<1>8. CASE ClientSend \/ ClientData \/ ClientDrained \/ PeerStep
  <2>1. pc = "send" /\ pc' \in {"send", "crash"} /\ UNCHANGED <<requests, late>>
    BY <1>8 DEF ClientSend, Crash, ClientData, ClientDrained, PeerStep
  <2> QED
    BY <1>0, <1>1, <1>2, <1>3, <2>1 DEF ClientTurns, ClientPart
<1>9. CASE ClientDetach
  <2>1. pc' = "detach" /\ requests' = <<"DETACH">>
    BY <1>0, <1>9, RequestsTaken DEF ClientDetach, ClientTurns
  <2> QED
    BY <1>1, <1>2, <2>1 DEF ClientTurns, ClientPart
<1>10. CASE Late
  <2>1. pc' = pc /\ requests' = requests /\ late' = TRUE
    BY <1>10 DEF Late
  <2> QED
    BY <1>0, <1>1, <1>2, <1>3, <2>1 DEF ClientTurns, ClientPart
<1> QED
  BY <1>4, <1>5, <1>6, <1>7, <1>8, <1>9, <1>10

(* What the RX thread and VPP do while it waits.                           *)
LEMMA ClientReplies ==
    ASSUME IInv, role = "client",
           \/ RxThread \/ VppDetach
           \/ \E reply \in AttachReplies : VppAttach(reply)
           \/ \E type \in ConnectEvents : VppConnect(type)
    PROVE  ClientPart'
<1>0. TypeOK /\ ClientTurns
  BY DEF IInv
<1>1. UNCHANGED <<role, pc, bound, hash, sessions, evt_q, connected, cut_through, late>>
  BY DEF RxThread, VppDetach, VppAttach, VppConnect
<1>2. EventsTyped' /\ HashSound' /\ ~bound' /\ hash' = [h \in Handles |-> None]
  BY <1>1, ClientEvents DEF RxThread, VppDetach, VppAttach, VppConnect
<1>3. (NoSession' <=> NoSession) /\ (HasSession' <=> HasSession)
  BY <1>1 DEF NoSession, HasSession
<1>4. CASE RxThread
  <2>1. /\ api # <<>> /\ api' = Tail(api) /\ state' = StateAfter(Head(api))
        /\ queue' = (queue \/ Head(api) = "ATTACHED") /\ UNCHANGED <<requests, mq>>
    BY <1>4 DEF RxThread
  <2>2. pc # "start" /\ pc # "loop"
    BY <1>0, <2>1 DEF ClientTurns
  <2>3. ASSUME pc = "wait"
        PROVE  requests' = <<>> /\ api' = <<>> /\ (state' = "ATTACHED" => queue')
    <3>1. requests = <<>> /\ Len(api) =< 1 /\ state = "START"
      BY <1>0, <2>1, <2>3 DEF ClientTurns
    <3>2. api' = <<>>
      BY <1>0, <2>1, <3>1 DEF TypeOK
    <3>3. state' = "ATTACHED" => Head(api) = "ATTACHED"
      <4>1. Head(api) \in AttachReplies \cup BindReplies \cup {"DETACHED"}
        BY <1>0, <2>1, Taken DEF TypeOK
      <4> QED
        BY <2>1, <3>1, <4>1 DEF StateAfter, StateAfterAttach, AttachReplies, BindReplies
    <3>4. Head(api) = "ATTACHED" => queue'
      BY <2>1, Zenon
    <3> QED
      BY <2>1, <3>1, <3>2, <3>3, <3>4
  <2>4. api' = <<>> => Len(api') =< 1
    OBVIOUS
  <2> QED
    BY <1>0, <1>1, <1>2, <1>3, <2>1, <2>2, <2>3, <2>4 DEF ClientTurns, ClientPart
<1>5. ASSUME NEW reply \in AttachReplies, VppAttach(reply) PROVE ClientPart'
  <2>1. /\ requests # <<>> /\ Head(requests) = "ATTACH" /\ requests' = Tail(requests)
        /\ api' = Append(api, reply) /\ UNCHANGED <<mq, state, queue>>
    BY <1>5 DEF VppAttach
  <2>2. requests = <<"ATTACH">> /\ requests' = <<>>
    BY <1>0, <2>1, RequestsTaken DEF ClientTurns
  <2>3. pc # "start" /\ pc # "loop" /\ pc # "send"
    BY <1>0, <2>2, RequestsTaken DEF ClientTurns
  <2>4. pc = "wait" => api = <<>> /\ state = "START"
    BY <1>0, <2>1 DEF ClientTurns
  <2>5. pc = "wait" => Len(api') =< 1
    BY <2>1, <2>4
  <2> QED
    BY <1>0, <1>1, <1>2, <1>3, <2>1, <2>2, <2>3, <2>4, <2>5 DEF ClientTurns, ClientPart
<1>6. ASSUME NEW type \in ConnectEvents, VppConnect(type) PROVE ClientPart'
  <2>1. /\ requests # <<>> /\ Head(requests) = "CONNECT" /\ requests' = Tail(requests)
        /\ mq' = Append(mq, Event(type, None, None)) /\ UNCHANGED <<api, state, queue>>
    BY <1>6 DEF VppConnect
  <2>2. requests = <<"CONNECT">> /\ requests' = <<>>
    BY <1>0, <2>1, RequestsTaken DEF ClientTurns
  <2>3. pc # "start" /\ pc # "wait" /\ pc # "send"
    <3>1. <<"CONNECT">> # <<"ATTACH">>
      OBVIOUS
    <3> QED
      BY <1>0, <2>1, <2>2, <3>1 DEF ClientTurns
  <2>4. pc = "loop" => mq = <<>> /\ NoSession /\ state = "ATTACHED" /\ api = <<>> /\ queue
    BY <1>0, <2>1 DEF ClientTurns
  <2>5. pc = "loop" => Len(mq') =< 1
    BY <2>1, <2>4
  <2> QED
    BY <1>0, <1>1, <1>2, <1>3, <2>1, <2>2, <2>3, <2>4, <2>5 DEF ClientTurns, ClientPart
<1>7. CASE VppDetach
  <2>1. /\ requests # <<>> /\ Head(requests) = "DETACH" /\ requests' = Tail(requests)
        /\ UNCHANGED <<mq, state, queue>>
    BY <1>7 DEF VppDetach
  <2>2. requests = <<"DETACH">> /\ requests' = <<>>
    BY <1>0, <2>1, RequestsTaken DEF ClientTurns
  <2>3. pc \notin {"start", "wait", "loop", "send"}
    <3>1. <<"DETACH">> # <<"ATTACH">> /\ <<"DETACH">> # <<"CONNECT">>
      OBVIOUS
    <3> QED
      BY <1>0, <2>1, <2>2, <3>1 DEF ClientTurns
  <2> QED
    BY <1>1, <1>2, <2>2, <2>3 DEF ClientTurns, ClientPart
<1> QED
  BY <1>4, <1>5, <1>6, <1>7

(* A message of the API ends it as well.                                   *)
LEMMA ClientStops ==
    ASSUME IInv, role = "client", RxRefused \/ RxUnmap
    PROVE  ClientPart'
<1>1. pc' = "crash" /\ UNCHANGED <<role, requests, mq, bound, hash>>
  BY DEF RxRefused, RxUnmap, Crash
<1>2. EventsTyped' /\ HashSound' /\ ~bound' /\ hash' = [h \in Handles |-> None]
  BY <1>1, ClientEvents
<1>3. ClientTurns'
  BY <1>1, <1>2 DEF IInv, ClientTurns
<1> QED
  BY <1>2, <1>3 DEF ClientPart

LEMMA ClientStep ==
    ASSUME IInv, [Next]_vars, role = "client"
    PROVE  ClientPart'
<1>0. TypeOK /\ ClientTurns /\ role' = role
  BY RoleFixed DEF IInv
<1>1. CASE UNCHANGED vars
  <2>1. EventsTyped' /\ HashSound'
    BY <1>1, ClientEvents DEF vars
  <2>2. ClientTurns'
    BY <1>0, <1>1 DEF vars, ClientTurns, NoSession, HasSession
  <2> QED
    BY <2>1, <2>2 DEF ClientPart
<1>2. ~ (SubNull \/ SessionDisconnected \/ ServerRx
         \/ \E i \in Index : SessionBound(i) \/ SessionAccepted(i))
  BY <1>0, ClientHead DEF SubNull, SessionDisconnected, ServerRx, SessionBound,
     SessionAccepted, Takes, Looping, ClientTurns, ConnectEvents
<1>3. ~ (VppTraffic \/ \E ok \in BOOLEAN : VppBind(ok))
  BY <1>0, RequestsTaken DEF VppTraffic, VppAccept, VppDisconnect, VppRx, VppBind,
     ClientTurns
<1> QED
  BY <1>1, <1>2, <1>3, ClientHandles, ClientMoves, ClientReplies, ClientStops
     DEF Next, MainThread, VppReplies

(* The replies to a client.                                                *)
LEMMA RepliesStep ==
    ASSUME IInv, [Next]_vars
    PROVE  ClientReplied'
<1> DEFINE T == AttachReplies \cup {"DETACHED"}
<1>1. SUFFICES ASSUME role = "client", role' = role PROVE api' \in Seq(T)
  BY RoleFixed DEF ClientReplied
<1>2. api \in Seq(T)
  BY <1>1 DEF IInv, ClientReplied
<1>3. ~ \E ok \in BOOLEAN : VppBind(ok)
  BY <1>1, RequestsTaken DEF IInv, ClientTurns, VppBind
<1>4. \/ api' = api
      \/ api # <<>> /\ api' = Tail(api)
      \/ \E reply \in T : api' = Append(api, reply)
  <2>1. CASE MainThread
    BY <2>1 DEF MainThread, Start, WaitDone, WaitFailed, SubNull, SessionDisconnected,
       ConnectRefused, ServerRx, ClientLoopEnd, ClientSend, ClientData, ClientDetach,
       SessionBound, SessionAccepted, SessionConnected, Crash, Handled
  <2>2. CASE VppReplies
    BY <1>3, <2>2 DEF VppReplies, VppAttach, VppConnect, VppDetach
  <2>3. CASE VppTraffic \/ Late \/ ClientDrained \/ PeerStep \/ UNCHANGED vars
    BY <2>3 DEF VppTraffic, VppAccept, VppDisconnect, VppRx, Late, ClientDrained,
       PeerStep, vars
  <2>4. CASE RxThread \/ RxRefused \/ RxUnmap
    BY <2>4 DEF RxThread, RxRefused, RxUnmap, Crash
  <2> QED
    BY <2>1, <2>2, <2>3, <2>4 DEF Next
<1> HIDE DEF T
<1> QED
  BY <1>2, <1>4, Appended, Taken

-----------------------------------------------------------------------------
(* The types.                                                              *)

(* TypeOK without the data path.                                           *)
ControlOK ==
    /\ role \in {"server", "client"}
    /\ pc \in {"start", "wait", "loop", "send", "detach", "exit", "crash"}
    /\ state \in States /\ queue \in BOOLEAN
    /\ requests \in Seq({"ATTACH", "BIND", "CONNECT", "DETACH"})
    /\ api \in Seq(AttachReplies \cup BindReplies \cup {"DETACHED"})
    /\ sessions \subseteq Index /\ evt_q \subseteq Index
    /\ hash \in [Handles -> Index \cup {None}]
    /\ fifo_index \in [Owners -> Index \cup {None}]
    /\ connected \in Index /\ cut_through \in Index \cup {None} /\ late \in BOOLEAN
    /\ attached \in BOOLEAN /\ bound \in BOOLEAN /\ up \subseteq Handles
    /\ packets \in 0..MaxPackets /\ answered \subseteq Handles

LEMMA TypeParts == TypeOK <=> ControlOK /\ DataOK
BY DEF TypeOK, ControlOK, DataOK

(* The data path moves as EchoClient says, or not at all.                  *)
LEMMA DataStep ==
    ASSUME IInv, [Next]_vars
    PROVE  DataOK' /\ PatternSent'
<1>1. DataOK /\ PatternSent
  BY TypeParts DEF IInv
<1>2. \/ SendTestChunk
      \/ BeginSend \/ RecvTestChunk \/ DrainOver \/ Peer \/ UNCHANGED client
  <2>1. CASE MainThread
    BY <2>1 DEF MainThread, Start, WaitDone, WaitFailed, SubNull, SessionDisconnected,
       ConnectRefused, ServerRx, ClientLoopEnd, ClientSend, ClientData, ClientDetach,
       SessionBound, SessionAccepted, SessionConnected, Crash, Handled
  <2>2. CASE VppReplies \/ VppTraffic
    BY <2>2 DEF VppReplies, VppTraffic, VppAttach, VppBind, VppConnect, VppDetach,
       VppAccept, VppDisconnect, VppRx
  <2>3. CASE RxThread \/ RxRefused \/ RxUnmap
    BY <2>3 DEF RxThread, RxRefused, RxUnmap, Crash
  <2>4. CASE Late \/ ClientDrained \/ PeerStep \/ UNCHANGED vars
    BY <2>4 DEF Late, ClientDrained, PeerStep, vars
  <2> QED
    BY <2>1, <2>2, <2>3, <2>4 DEF Next
<1> QED
  BY <1>1, <1>2, SendKeeps, OthersKeep

(* The queues of requests and of replies.                                  *)
Requests == {"ATTACH", "BIND", "CONNECT", "DETACH"}
Replies  == AttachReplies \cup BindReplies \cup {"DETACHED"}

LEMMA QueueTypes ==
    ASSUME ControlOK
    PROVE  /\ \A r \in Requests : Append(requests, r) \in Seq(Requests)
           /\ requests # <<>> => Tail(requests) \in Seq(Requests)
           /\ requests \o FirstRequests \in Seq(Requests)
           /\ \A r \in Replies : Append(api, r) \in Seq(Replies)
           /\ api # <<>> => Tail(api) \in Seq(Replies) /\ Head(api) \in Replies
<1>1. requests \in Seq(Requests) /\ api \in Seq(Replies)
  BY DEF ControlOK, Requests, Replies
<1>2. FirstRequests \in Seq(Requests)
  <2>1. "ATTACH" \in Requests /\ "BIND" \in Requests
    BY DEF Requests
  <2>2. <<"ATTACH", "BIND">> \in Seq(Requests) /\ <<"ATTACH">> \in Seq(Requests)
    BY <2>1
  <2> QED
    BY <2>2 DEF FirstRequests
<1>3. requests \o FirstRequests \in Seq(Requests)
  BY <1>1, <1>2, ConcatProperties
<1>4. \A r \in Requests : Append(requests, r) \in Seq(Requests)
  BY <1>1, Appended
<1>5. \A r \in Replies : Append(api, r) \in Seq(Replies)
  BY <1>1, Appended
<1>6. requests # <<>> => Tail(requests) \in Seq(Requests)
  BY <1>1, Taken
<1>7. api # <<>> => Tail(api) \in Seq(Replies) /\ Head(api) \in Replies
  BY <1>1, Taken
<1> QED
  BY <1>3, <1>4, <1>5, <1>6, <1>7

LEMMA TypeStep ==
    ASSUME IInv, [Next]_vars
    PROVE  ControlOK'
<1>0. ControlOK
  BY TypeParts DEF IInv
<1>1. /\ ControlOK <=>
           /\ role \in {"server", "client"}
           /\ pc \in {"start", "wait", "loop", "send", "detach", "exit", "crash"}
           /\ requests \in Seq(Requests) /\ api \in Seq(Replies)
           /\ state \in States /\ queue \in BOOLEAN
           /\ sessions \subseteq Index /\ evt_q \subseteq Index
           /\ hash \in [Handles -> Index \cup {None}]
           /\ fifo_index \in [Owners -> Index \cup {None}]
           /\ connected \in Index /\ cut_through \in Index \cup {None}
           /\ late \in BOOLEAN
           /\ attached \in BOOLEAN /\ bound \in BOOLEAN /\ up \subseteq Handles
           /\ packets \in 0..MaxPackets /\ answered \subseteq Handles
  BY DEF ControlOK, Requests, Replies
<1>2. CASE Start \/ WaitDone \/ WaitFailed \/ ClientLoopEnd \/ ClientDetach
  <2>1. /\ UNCHANGED <<role, app, api, fifo_index, vpp>>
        /\ pc' \in {"wait", "loop", "send", "detach", "exit"}
    BY <1>2 DEF Start, WaitDone, WaitFailed, ClientLoopEnd, ClientDetach
  <2>2. requests' \in Seq(Requests)
    BY <1>0, <1>2, QueueTypes DEF Start, WaitDone, WaitFailed, ClientLoopEnd,
       ClientDetach, Requests, ControlOK
  <2> QED
    BY <1>0, <2>1, <2>2 DEF ControlOK, Requests
<1>3. ASSUME NEW why, Crash(why) PROVE ControlOK'
  BY <1>0, <1>3 DEF Crash, ControlOK
<1>4. CASE ClientSend \/ ClientData \/ ClientDrained \/ PeerStep
  BY <1>0, <1>3, <1>4 DEF ClientSend, ClientData, ClientDrained, PeerStep, ControlOK
<1>5. CASE Late \/ UNCHANGED vars
  BY <1>0, <1>5 DEF Late, vars, ControlOK
<1>6. ASSUME NEW i \in Index, SessionBound(i) \/ SessionAccepted(i) \/ SessionConnected(i)
      PROVE  ControlOK'
  <2>1. /\ UNCHANGED <<role, queue, requests, api, late, attached, bound, up, packets>>
        /\ pc' \in {"loop", "send"} /\ state' \in {"READY", "FAILED"}
        /\ sessions' = sessions \cup {i} /\ evt_q' \subseteq evt_q \cup {i}
        /\ connected' \in {connected, i} /\ cut_through' \in {cut_through, i}
        /\ hash' = hash \/ \E h : hash' = [hash EXCEPT ![h] = i]
        /\ \/ fifo_index' = fifo_index
           \/ \E o : fifo_index' = [fifo_index EXCEPT ![o] = i]
    BY <1>6 DEF SessionBound, SessionAccepted, SessionConnected, Handled, PoolGet, HashSet
  <2>2. answered' \subseteq Handles
    <3>1. CASE SessionAccepted(i)
      <4>1. /\ mq # <<>> /\ Head(mq).type = "ACCEPTED"
            /\ answered' = answered \cup {Head(mq).owner}
        BY <3>1 DEF SessionAccepted, Takes
      <4>2. role = "server"
        BY <1>0, <4>1, ClientHead DEF ConnectEvents, ControlOK
      <4>3. Head(mq).owner \in up
        BY <4>1, <4>2, TakeEvent DEF EventSound
      <4> QED
        BY <1>0, <4>1, <4>3 DEF ControlOK
    <3> QED
      BY <1>0, <1>6, <3>1 DEF SessionBound, SessionConnected, ControlOK
  <2>3. hash' \in [Handles -> Index \cup {None}]
    BY <1>0, <2>1 DEF ControlOK
  <2>4. fifo_index' \in [Owners -> Index \cup {None}]
    BY <1>0, <2>1 DEF ControlOK
  <2>5. state' \in States
    BY <2>1 DEF States
  <2>6. /\ role' \in {"server", "client"} /\ queue' \in BOOLEAN
        /\ requests' \in Seq(Requests) /\ api' \in Seq(Replies)
        /\ late' \in BOOLEAN /\ attached' \in BOOLEAN /\ bound' \in BOOLEAN
        /\ up' \subseteq Handles /\ packets' \in 0..MaxPackets
    BY <1>0, <1>1, <2>1
  <2>7. /\ sessions' \subseteq Index /\ evt_q' \subseteq Index /\ connected' \in Index
        /\ cut_through' \in Index \cup {None}
        /\ pc' \in {"start", "wait", "loop", "send", "detach", "exit", "crash"}
    BY <1>0, <2>1 DEF ControlOK
  <2> QED
    BY <2>2, <2>3, <2>4, <2>5, <2>6, <2>7 DEF ControlOK, Requests, Replies
<1>7. CASE SubNull \/ SessionDisconnected \/ ConnectRefused \/ ServerRx
  <2>1. CASE \E why : Crash(why)
    BY <1>3, <2>1
  <2>2. CASE ~ \E why : Crash(why)
    <3>1. /\ UNCHANGED <<role, queue, requests, api, late, attached, bound, up, packets,
                         state, evt_q, connected, cut_through, fifo_index, answered>>
          /\ pc' \in {"loop", "send"} /\ sessions' \subseteq sessions
          /\ hash' = hash \/ \E h : hash' = [hash EXCEPT ![h] = None]
      BY <1>7, <2>2 DEF SubNull, SessionDisconnected, ConnectRefused, ServerRx, Handled
    <3>2. hash' \in [Handles -> Index \cup {None}]
      BY <1>0, <3>1 DEF ControlOK
    <3> QED
      BY <1>0, <3>1, <3>2 DEF ControlOK
  <2> QED
    BY <2>1, <2>2
<1>8. CASE RxThread
  <2>1. /\ UNCHANGED <<role, pc, requests, sessions, evt_q, hash, connected, cut_through,
                       late, fifo_index, vpp>>
        /\ api # <<>> /\ api' = Tail(api) /\ state' = StateAfter(Head(api))
    BY <1>8 DEF RxThread
  <2>2. queue' \in BOOLEAN
    BY <1>8, Zenon DEF RxThread
  <2>3. state' \in States
    BY <1>0, <2>1 DEF StateAfter, StateAfterAttach, States, ControlOK
  <2>4. api' \in Seq(Replies)
    BY <1>0, <2>1, QueueTypes
  <2> QED
    BY <1>0, <2>1, <2>2, <2>3, <2>4 DEF ControlOK, Replies
<1>9. CASE RxRefused \/ RxUnmap
  BY <1>3, <1>9 DEF RxRefused, RxUnmap
<1>10. CASE VppReplies
  <2>1. /\ UNCHANGED <<role, pc, app, fifo_index, up, packets, answered>>
        /\ requests # <<>> /\ requests' = Tail(requests)
        /\ api' = api \/ \E r \in Replies : api' = Append(api, r)
    BY <1>10 DEF VppReplies, VppAttach, VppBind, VppConnect, VppDetach, Replies, BindReplies
  <2>2. attached' \in BOOLEAN /\ bound' \in BOOLEAN
    <3>1. ASSUME NEW reply \in AttachReplies, VppAttach(reply)
          PROVE  attached' \in BOOLEAN /\ bound' = bound
      BY <3>1, Zenon DEF VppAttach
    <3> QED
      BY <1>0, <1>10, <3>1 DEF VppReplies, VppBind, VppConnect, VppDetach, ControlOK
  <2>3. requests' \in Seq(Requests) /\ api' \in Seq(Replies)
    BY <1>0, <1>1, <2>1, QueueTypes
  <2> QED
    BY <1>0, <2>1, <2>2, <2>3 DEF ControlOK, Requests, Replies
<1>11. CASE VppTraffic
  <2>1. /\ UNCHANGED <<role, pc, app, requests, api, fifo_index, attached, bound, answered>>
        /\ up' = up \/ \E h \in Handles : up' = up \cup {h}
        /\ packets' = packets \/ (packets < MaxPackets /\ packets' = packets + 1)
    BY <1>11 DEF VppTraffic, VppAccept, VppDisconnect, VppRx
  <2>2. packets' \in 0..MaxPackets /\ up' \subseteq Handles
    BY <1>0, <2>1, ControlAssumption DEF ControlOK
  <2> QED
    BY <1>0, <2>1, <2>2 DEF ControlOK
<1> QED
  BY <1>2, <1>4, <1>5, <1>6, <1>7, <1>8, <1>10, <1>11, <1>9 DEF Next, MainThread

-----------------------------------------------------------------------------
(* The crashes.                                                            *)

(* The server sleeps on a queue that is NULL.                              *)
LEMMA CrashAsleep ==
    ASSUME IInv, SubNull
    PROVE  CrashCauses'
<1>0. TypeOK /\ Pipelined /\ ReadyMeansBound /\ QueueComes /\ ClientTurns
  BY DEF IInv
<1>1. /\ pc = "loop" /\ ~queue /\ UNCHANGED <<role, queue>> /\ trouble \subseteq trouble'
  BY DEF SubNull, Looping, Crash
<1>2. role = "server"
  BY <1>0, <1>1 DEF ClientTurns, TypeOK
<1>3. attached
  BY <1>0, <1>1, <1>2 DEF ReadyMeansBound
<1>4. ~(api # <<>> /\ api[1] = "ATTACHED")
  <2>1. api # <<>> => 1 \in 1..Len(api)
    BY <1>0 DEF TypeOK
  <2> QED
    BY <1>0, <1>1, <1>2, <2>1 DEF Pipelined, AttachReplies
<1>5. "no_segment" \in trouble
  BY <1>0, <1>1, <1>2, <1>3, <1>4 DEF QueueComes
<1> QED
  BY <1>1, <1>2, <1>5 DEF CrashCauses

(* The server handles an event of an accepted session, or data that came   *)
(* before its listener's session was there.                                *)
LEMMA CrashHandling ==
    ASSUME IInv, SessionDisconnected \/ ServerRx, pc' = "crash"
    PROVE  CrashCauses'
<1>0. TypeOK /\ ServerEvents /\ HashSound
  BY DEF IInv
<1>1. /\ queue /\ mq # <<>> /\ Head(mq).type \in {"DISCONNECTED", "RX"}
  BY DEF SessionDisconnected, ServerRx, Takes
<1>2. role = "server"
  BY <1>0, <1>1, ClientHead DEF ConnectEvents, TypeOK
<1>3. /\ UNCHANGED <<queue, mq>> /\ trouble \subseteq trouble'
  BY <1>2 DEF SessionDisconnected, ServerRx, Crash, Handled
<1>4. Head(mq) \in ServerEvent /\ EventSound(Head(mq))
  BY <1>1, <1>2, TakeEvent
<1>5. Head(mq).owner \in Handles \/ Head(mq).owner = Listener
  BY <1>4 DEF ServerEvent, Owners
<1>6. CASE Head(mq).owner \in Handles
  BY <1>1, <1>3, <1>6 DEF CrashCauses
<1>7. CASE Head(mq).owner = Listener
  <2>1. Head(mq).type = "RX"
    BY <1>1, <1>4, <1>7, Distinct DEF EventSound
  <2>2. ~(Head(mq).index \in sessions /\ (have_return => Head(mq).index \in evt_q))
    BY <1>2, <2>1 DEF SessionDisconnected, ServerRx, Takes, Handled
  <2>3. "early_rx" \in trouble
    <3>1. SUFFICES ASSUME Head(mq).index = fifo_index[Listener] PROVE FALSE
      BY <1>4, <1>7, <2>1 DEF EventSound
    <3>2. fifo_index[Listener] # None
      BY <1>4, <2>1, <3>1, Distinct DEF EventSound
    <3>3. fifo_index[Listener] \in sessions /\ fifo_index[Listener] \in evt_q
      BY <1>0, <1>2, <3>2 DEF HashSound, ServerEvents
    <3> QED
      BY <2>2, <3>1, <3>3
  <2> QED
    BY <1>1, <1>3, <1>7, <2>1, <2>3 DEF CrashCauses
<1> QED
  BY <1>5, <1>6, <1>7

(* The client sends on a session that it does not have, or that is not cut *)
(* through.                                                                *)
LEMMA CrashSending ==
    ASSUME IInv, ClientSend, pc' = "crash"
    PROVE  CrashCauses'
<1>0. TypeOK /\ Pipelined /\ ClientTurns
  BY DEF IInv
<1>1. pc = "send" /\ role = "client"
  BY <1>0 DEF ClientSend, Pipelined, TypeOK
<1>2. HasSession \/ (NoSession /\ late)
  BY <1>0, <1>1 DEF ClientTurns
<1>3. /\ Crash("no_session")
      /\ ~(SendIndex \in sessions /\ (bytes_to_send > 0 => SendIndex \in evt_q))
  BY <1>1 DEF ClientSend
<1>4. UNCHANGED <<role, late, sessions, bytes_to_send, cut_through, connected>>
  BY <1>3 DEF Crash, client, progress
<1> QED
  BY <1>1, <1>2, <1>3, <1>4 DEF CrashCauses, HasSession, NoSession, SendIndex

(* After it no thread of the process runs; VPP may still answer.           *)
LEMMA CrashStays ==
    ASSUME IInv, pc = "crash", [Next]_vars
    PROVE  CrashCauses'
<1>0. /\ TypeOK /\ CrashCauses /\ Pipelined /\ ReadyMeansBound
      /\ EventsTyped /\ ServerEvents /\ ClientTurns
  BY DEF IInv
<1>1. VppReplies \/ UNCHANGED vars
  <2>1. ~MainThread
    BY DEF MainThread, Start, WaitDone, WaitFailed, SubNull, SessionDisconnected,
       ConnectRefused, ServerRx, ClientLoopEnd, ClientSend, ClientData, ClientDetach,
       SessionBound, SessionAccepted, SessionConnected, Takes, Looping
  <2>2. ~(RxThread \/ RxRefused \/ RxUnmap \/ Late \/ ClientDrained \/ PeerStep
          \/ VppTraffic)
    BY DEF RxThread, RxRefused, RxUnmap, Late, ClientDrained, PeerStep, VppTraffic, VppAccept,
       VppDisconnect, VppRx, Running
  <2> QED
    BY <2>1, <2>2 DEF Next
<1>2. CASE role = "server"
  <2>1. CASE requests = <<>>
    <3>1. UNCHANGED vars
      BY <1>1, <2>1 DEF VppReplies, VppAttach, VppBind, VppConnect, VppDetach
    <3> QED
      BY <1>0, <3>1 DEF vars, CrashCauses, client, progress
  <2>2. CASE requests # <<>>
    <3>1. mq = <<>>
      BY <1>0, <1>2, <2>2 DEF ReadyMeansBound, ServerEvents
    <3>2. ~(api # <<>> /\ Head(api) = "BIND_FAILED")
      <4>1. api # <<>> => Head(api) = api[1] /\ 1 \in 1..Len(api)
        BY <1>0, Taken DEF TypeOK
      <4> QED
        BY <1>0, <1>2, <2>2, <4>1 DEF Pipelined, BindReplies
    <3>3. UNCHANGED <<role, queue>> /\ trouble \subseteq trouble'
      BY <1>1 DEF VppReplies, VppAttach, VppBind, VppConnect, VppDetach, vars
    <3> QED
      BY <1>0, <1>2, <3>1, <3>2, <3>3 DEF CrashCauses
  <2> QED
    BY <2>1, <2>2
<1>3. CASE role = "client"
  <2>1. /\ UNCHANGED <<pc, role, queue, late, sessions, cut_through, connected,
                       bytes_to_send>>
        /\ trouble \subseteq trouble'
    BY <1>1 DEF VppReplies, VppAttach, VppBind, VppConnect, VppDetach, vars, client, progress
  <2>2. mq # <<>> => mq' # <<>> /\ Head(mq') = Head(mq)
    <3>1. mq' = mq \/ \E type \in ConnectEvents : mq' = Append(mq, Event(type, None, None))
      <4>1. ~ \E ok \in BOOLEAN : VppBind(ok)
        <5>1. requests = <<>> \/ Head(requests) # "BIND"
          BY <1>0, <1>3, RequestsTaken DEF ClientTurns
        <5> QED
          BY <5>1 DEF VppBind
      <4> QED
        BY <1>1, <4>1 DEF VppReplies, VppAttach, VppConnect, VppDetach, vars
    <3>2. SUFFICES ASSUME mq # <<>>, NEW type \in ConnectEvents,
                          mq' = Append(mq, Event(type, None, None))
                   PROVE  mq' # <<>> /\ Head(mq') = Head(mq)
      BY <3>1
    <3> DEFINE T == ClientEvent
    <3>3. mq \in Seq(T) /\ Event(type, None, None) \in T
      BY <1>0, <1>3 DEF EventsTyped, ClientEvent, Event
    <3> HIDE DEF T
    <3>4. /\ Append(mq, Event(type, None, None)) \in Seq(T) /\ mq' # <<>>
          /\ \A k \in 1..Len(mq) : mq'[k] = mq[k]
      BY <3>2, <3>3, Appended
    <3>5. Head(mq) = mq[1] /\ 1 \in 1..Len(mq)
      BY <3>2, <3>3, Taken
    <3>6. Head(mq') = mq'[1]
      BY <3>2, <3>4, Taken
    <3> QED
      BY <3>4, <3>5, <3>6
  <2> QED
    BY <1>0, <1>3, <2>1, <2>2 DEF CrashCauses
<1> QED
  BY <1>0, <1>2, <1>3 DEF TypeOK

(* A message of the API that the RX thread cannot print.                   *)
LEMMA CrashPrinting ==
    ASSUME IInv, RxRefused \/ RxUnmap
    PROVE  CrashCauses'
<1>1. CASE RxUnmap
  BY <1>1 DEF RxUnmap, Crash, CrashCauses
<1>2. CASE RxRefused
  <2>0. TypeOK /\ ReadyMeansBound /\ ClientReplied
    BY DEF IInv
  <2>1. /\ api # <<>> /\ Head(api) = "BIND_FAILED" /\ UNCHANGED <<role, api, bound>>
    BY <1>2 DEF RxRefused, BindRefused, Crash
  <2>2. Head(api) = api[1] /\ 1 \in 1..Len(api)
    BY <2>0, <2>1, Taken DEF TypeOK
  <2>3. role = "server"
    <3>1. role = "client" => Head(api) \in AttachReplies \cup {"DETACHED"}
      BY <2>0, <2>1, Taken DEF ClientReplied
    <3> QED
      BY <2>0, <2>1, <3>1 DEF AttachReplies, TypeOK
  <2>4. ~bound
    BY <2>0, <2>1, <2>2, <2>3 DEF ReadyMeansBound
  <2> QED
    BY <2>1, <2>3, <2>4 DEF CrashCauses
<1> QED
  BY <1>1, <1>2

LEMMA CrashStep ==
    ASSUME IInv, [Next]_vars
    PROVE  CrashCauses'
<1>1. SUFFICES ASSUME pc # "crash", pc' = "crash" PROVE CrashCauses'
  BY CrashStays DEF CrashCauses
<1>2. ~(VppReplies \/ VppTraffic \/ RxThread \/ Late \/ ClientDrained \/ PeerStep
        \/ UNCHANGED vars)
  BY <1>1 DEF VppReplies, VppTraffic, VppAttach, VppBind, VppConnect, VppDetach,
     VppAccept, VppDisconnect, VppRx, RxThread, Late, ClientDrained, PeerStep, vars
<1>3. ~(Start \/ WaitDone \/ WaitFailed \/ ConnectRefused \/ ClientLoopEnd \/ ClientData
        \/ ClientDetach
        \/ \E i \in Index : SessionBound(i) \/ SessionAccepted(i) \/ SessionConnected(i))
  BY <1>1 DEF Start, WaitDone, WaitFailed, ConnectRefused, ClientLoopEnd, ClientData,
     ClientDetach, SessionBound, SessionAccepted, SessionConnected, Handled
<1> QED
  BY <1>1, <1>2, <1>3, CrashAsleep, CrashHandling, CrashSending, CrashPrinting
     DEF Next, MainThread

-----------------------------------------------------------------------------
LEMMA InitInv == Init => IInv
<1> SUFFICES ASSUME Init PROVE IInv
  OBVIOUS
<1>1. TypeOK
  <2>1. ControlOK
    <3>1. /\ role \in {"server", "client"} /\ pc = "start" /\ state \in States
          /\ queue \in BOOLEAN /\ late \in BOOLEAN /\ attached \in BOOLEAN
          /\ bound \in BOOLEAN /\ sessions = {} /\ evt_q = {} /\ up = {} /\ answered = {}
      BY DEF Init, States
    <3>2. requests = <<>> /\ api = <<>>
      BY DEF Init
    <3>3. /\ hash \in [Handles -> Index \cup {None}]
          /\ fifo_index \in [Owners -> Index \cup {None}]
          /\ connected \in Index /\ cut_through \in Index \cup {None}
      BY Distinct DEF Init
    <3>4. packets \in 0..MaxPackets
      BY ControlAssumption DEF Init
    <3> QED
      BY <3>1, <3>2, <3>3, <3>4 DEF ControlOK
  <2>2. DataOK
    BY ClientAssumption DEF Init, InitClient, DataOK
  <2> QED
    BY <2>1, <2>2, TypeParts
<1>2. PatternSent
  BY DEF Init, InitClient, PatternSent
<1>3. EventsTyped
  BY DEF Init, EventsTyped
<1>4. Pipelined /\ ReadyMeansBound /\ QueueComes
  BY DEF Init, Pipelined, ReadyMeansBound, QueueComes
<1>5. ServerEvents
  BY Distinct DEF Init, ServerEvents, EventsOnce
<1>6. HashSound
  BY Distinct DEF Init, HashSound
<1>7. ClientTurns
  BY DEF Init, ClientTurns, NoSession
<1>8. CrashCauses /\ ClientReplied
  BY DEF Init, CrashCauses, ClientReplied
<1> QED
  BY <1>1, <1>2, <1>3, <1>4, <1>5, <1>6, <1>7, <1>8 DEF IInv

LEMMA NextInv ==
    ASSUME IInv, [Next]_vars
    PROVE  IInv'
<1>1. TypeOK' /\ PatternSent' /\ ClientReplied' /\ CrashCauses'
  <2>1. ControlOK' /\ DataOK' /\ PatternSent'
    BY DataStep, TypeStep
  <2>2. TypeOK'
    BY <2>1 DEF TypeOK, ControlOK, DataOK
  <2> QED
    BY <2>1, <2>2, RepliesStep, CrashStep
<1>2. role' = role /\ role \in {"server", "client"}
  BY RoleFixed DEF IInv, TypeOK
<1>3. CASE role = "server"
  <2>1. /\ Pipelined' /\ ReadyMeansBound' /\ QueueComes'
        /\ EventsTyped' /\ ServerEvents' /\ HashSound'
    BY <1>3, ServerStep DEF ServerPart, EventPart
  <2>2. ClientTurns'
    BY <1>2, <1>3 DEF ClientTurns
  <2> QED
    BY <1>1, <2>1, <2>2 DEF IInv
<1>4. CASE role = "client"
  <2>1. ClientTurns' /\ EventsTyped' /\ HashSound'
    BY <1>4, ClientStep DEF ClientPart
  <2>2. Pipelined' /\ ReadyMeansBound' /\ QueueComes' /\ ServerEvents'
    BY <1>2, <1>4 DEF Pipelined, ReadyMeansBound, QueueComes, ServerEvents
  <2> QED
    BY <1>1, <2>1, <2>2 DEF IInv
<1> QED
  BY <1>2, <1>3, <1>4

(* The two threads of the application, its peer and VPP keep the inductive *)
(* invariant, as server and as client.                                     *)
THEOREM Invariance == Spec => []IInv
<1>1. Init => IInv
  BY InitInv
<1>2. IInv /\ [Next]_vars => IInv'
  BY NextInv
<1> QED
  BY <1>1, <1>2, PTL DEF Spec

(* Every variable of the application, of VPP and of the fifos keeps its    *)
(* type: a session index that is used lies in the pool.                    *)
THEOREM TypeCorrect == Spec => []TypeOK
<1>1. IInv => TypeOK
  BY DEF IInv
<1> QED
  BY <1>1, Invariance, PTL

(* The client's stream repeats test_data: send_test_chunk never reads past *)
(* the end of the buffer and never loses its place in it.                  *)
THEOREM PatternCorrect == Spec => []PatternSent
<1>1. IInv => PatternSent
  BY DEF IInv
<1> QED
  BY <1>1, Invariance, PTL

(* The server is in server_handle_event_queue only when VPP has attached   *)
(* the application and bound its listener, though udp_server_test pipelines*)
(* the two requests and both replies write utm->state.                     *)
THEOREM LoopCorrect == Spec => []LoopMeansBound
<1>1. IInv => LoopMeansBound
  BY DEF IInv, ReadyMeansBound, LoopMeansBound
<1> QED
  BY <1>1, Invariance, PTL

(* session_index_by_vpp_handles and the pool agree after any sequence of   *)
(* bound, accepted and disconnected events.                                *)
THEOREM HashCorrect == Spec => []HashSound
<1>1. IInv => HashSound
  BY DEF IInv
<1> QED
  BY <1>1, Invariance, PTL

(* No step but the seven listed dereferences a pointer the program does    *)
(* not have.                                                               *)
THEOREM CrashCorrect == Spec => []CrashCauses
<1>1. IInv => CrashCauses
  BY DEF IInv
<1> QED
  BY <1>1, Invariance, PTL

-----------------------------------------------------------------------------
(* The parser of addresses.  The scanner is followed by induction on the   *)
(* characters; the library's theorem takes an operator as a parameter, so  *)
(* induction is derived here for a set, from the order of Nat.             *)

LEMMA OneBefore ==
    ASSUME NEW x \in Nat, NEW y \in Nat, y < x
    PROVE  <<y, x>> \in OpToRel(<, Nat)
BY DEF OpToRel

(* What holds of zero and, with a number, of the next one holds of all.    *)
LEMMA Counting ==
    ASSUME NEW S, 0 \in S, \A n \in Nat : n \in S => n + 1 \in S
    PROVE  Nat \subseteq S
<1> DEFINE T == Nat \ S
<1> SUFFICES ASSUME T # {} PROVE FALSE
  OBVIOUS
<1>1. PICK x \in T : \A y \in T : ~ (<<y, x>> \in OpToRel(<, Nat))
  BY NatLessThanWellFounded, WFMin, Zenon
<1>2. x \in Nat \ {0} /\ x - 1 \in Nat /\ x - 1 < x /\ (x - 1) + 1 = x
  OBVIOUS
<1>3. <<x - 1, x>> \in OpToRel(<, Nat)
  BY <1>2, OneBefore
<1>4. x - 1 \in T
  BY <1>2
<1> QED
  BY <1>1, <1>3, <1>4, Zenon

LEMMA CountingTo ==
    ASSUME NEW n \in Nat, NEW S, 0 \in S, \A k \in 0..(n - 1) : k \in S => k + 1 \in S
    PROVE  \A k \in 0..n : k \in S
<1> DEFINE T == {k \in Nat : k =< n => k \in S}
<1>1. 0 \in T
  OBVIOUS
<1>2. ASSUME NEW k \in Nat, k \in T PROVE k + 1 \in T
  <2>1. ASSUME k + 1 =< n PROVE k \in 0..(n - 1) /\ k \in S
    BY <1>2, <2>1
  <2> QED
    BY <2>1
<1> HIDE DEF T
<1>3. Nat \subseteq T
  BY <1>1, <1>2, Counting
<1> QED
  BY <1>3 DEF T

(* The scanner turn by turn.                                               *)
LEMMA MaxLast ==
    ASSUME NEW n \in Nat, NEW s \in SUBSET (1..(n + 1)), n + 1 \in s
    PROVE  Max(s) = n + 1 /\ s \ {n + 1} \in SUBSET (1..n)
<1>1. \A y \in s : n + 1 >= y /\ y \in Int
  OBVIOUS
<1>2. Max(s) \in s /\ \A y \in s : Max(s) >= y
  BY <1>1, Zenon DEF Max
<1>3. Max(s) = n + 1
  <2>1. n + 1 >= Max(s) /\ Max(s) >= n + 1 /\ Max(s) \in Int
    BY <1>1, <1>2
  <2> QED
    BY <2>1
<1> QED
  BY <1>3

(* f is what a fold over text computes for each set of places in it.       *)
Folds6(f, text, n) ==
    f = [s \in SUBSET (1..n) |->
            IF s = {} THEN Start6 ELSE Scan(f[s \ {Max(s)}], text[Max(s)])]

LEMMA Folds6Exist ==
    ASSUME NEW text, NEW len \in Nat
    PROVE  \E f : Folds6(f, text, len)
<1> DEFINE S == {n \in 0..len : \E f : Folds6(f, text, n)}
<1>1. 0 \in S
  <2>1. 1..0 = {} /\ SUBSET {} = {{}} /\ 0 \in 0..len
    OBVIOUS
  <2>2. Folds6([s \in {{}} |-> Start6], text, 0)
    BY <2>1 DEF Folds6
  <2> QED
    BY <2>1, <2>2
<1>2. ASSUME NEW n \in 0..(len - 1), n \in S PROVE n + 1 \in S
  <2>1. PICK f : Folds6(f, text, n)
    BY <1>2
  <2> DEFINE D == SUBSET (1..n)
             E == SUBSET (1..(n + 1))
             g == [s \in E |-> IF n + 1 \in s THEN Scan(f[s \ {n + 1}], text[n + 1]) ELSE f[s]]
  <2>2. ASSUME NEW s \in E
        PROVE  g[s] = IF s = {} THEN Start6 ELSE Scan(g[s \ {Max(s)}], text[Max(s)])
    <3>1. CASE n + 1 \in s
      <4>1. Max(s) = n + 1 /\ s \ {n + 1} \in E /\ n + 1 \notin s \ {n + 1} /\ s # {}
        BY <3>1, MaxLast
      <4>2. g[s] = Scan(f[s \ {n + 1}], text[n + 1]) /\ g[s \ {n + 1}] = f[s \ {n + 1}]
        BY <3>1, <4>1
      <4> HIDE DEF g
      <4> QED
        BY <4>1, <4>2
    <3>2. CASE n + 1 \notin s
      <4>1. s \in D
        BY <3>2
      <4>2. s \ {Max(s)} \in D /\ s \ {Max(s)} \in E /\ n + 1 \notin s \ {Max(s)}
        BY <3>2, <4>1
      <4>3. g[s] = f[s] /\ g[s \ {Max(s)}] = f[s \ {Max(s)}]
        BY <3>2, <4>2
      <4>4. f[s] = IF s = {} THEN Start6 ELSE Scan(f[s \ {Max(s)}], text[Max(s)])
        BY <2>1, <4>1 DEF Folds6
      <4> HIDE DEF g
      <4> QED
        BY <4>3, <4>4
    <3> QED
      BY <3>1, <3>2
  <2>3. g = [s \in E |-> IF s = {} THEN Start6 ELSE Scan(g[s \ {Max(s)}], text[Max(s)])]
    <3>1. g = [s \in E |-> g[s]]
      OBVIOUS
    <3> HIDE DEF g, E
    <3> QED
      BY <2>2, <3>1, Zenon
  <2> HIDE DEF g
  <2>4. Folds6(g, text, n + 1)
    BY <2>3, Zenon DEF Folds6
  <2>5. n + 1 \in 0..len
    OBVIOUS
  <2> QED
    BY <2>4, <2>5
<1>3. len \in S
  <2> HIDE DEF S
  <2> QED
    BY <1>1, <1>2, CountingTo
<1> QED
  BY <1>3

(* What the scanner has after each character.                              *)
Scans(v, text) ==
    /\ v[0] = Start6
    /\ \A k \in 0..(Len(text) - 1) : v[k + 1] = Scan(v[k], text[k + 1])

LEMMA ScanTurns ==
    ASSUME NEW C, NEW text \in Seq(C)
    PROVE  \E v : Scans(v, text) /\ FoldLeft(Scan, Start6, text) = v[Len(text)]
<1> DEFINE n == Len(text)
<1>1. n \in Nat /\ DOMAIN text = 1..n
  OBVIOUS
<1>2. PICK w : Folds6(w, text, n)
  BY <1>1, Folds6Exist
<1>3. PICK f : Folds6(f, text, n) /\ FoldLeft(Scan, Start6, text) = f[1..n]
  <2> HIDE DEF n
  <2>1. w = [s \in SUBSET (1..n) |->
                IF s = {} THEN Start6 ELSE Scan(w[s \ {Max(s)}], text[Max(s)])]
    BY <1>2 DEF Folds6
  <2>2. \E f : /\ f = [s \in SUBSET (DOMAIN text) |->
                         IF s = {} THEN Start6 ELSE Scan(f[s \ {Max(s)}], text[Max(s)])]
               /\ FoldLeft(Scan, Start6, text) = f[DOMAIN text]
    BY <1>1, <2>1, Zenon DEF FoldLeft, MapThenFoldSet
  <2> QED
    BY <1>1, <2>2 DEF Folds6
<1> DEFINE v == [k \in 0..n |-> f[1..k]]
<1>4. v[0] = Start6
  <2>1. 1..0 = {} /\ {} \in SUBSET (1..n) /\ v[0] = f[1..0]
    BY <1>1
  <2> QED
    BY <1>3, <2>1 DEF Folds6
<1>5. ASSUME NEW k \in 0..(n - 1) PROVE v[k + 1] = Scan(v[k], text[k + 1])
  <2>1. /\ 1..(k + 1) \in SUBSET (1..(k + 1)) /\ k + 1 \in 1..(k + 1)
        /\ (1..(k + 1)) \ {k + 1} = 1..k /\ 1..(k + 1) \in SUBSET (1..n)
        /\ 1..(k + 1) # {} /\ k \in Nat
    <3> HIDE DEF n
    <3>1. k \in Nat /\ k + 1 =< n
      BY <1>1
    <3>2. k + 1 \in 1..(k + 1) /\ (1..(k + 1)) \ {k + 1} = 1..k
      BY <3>1
    <3>3. 1..(k + 1) \in SUBSET (1..n)
      BY <1>1, <3>1
    <3> QED
      BY <3>1, <3>2, <3>3
  <2>2. Max(1..(k + 1)) = k + 1
    BY <2>1, MaxLast
  <2>3. f[1..(k + 1)] = Scan(f[1..k], text[k + 1])
    <3> DEFINE s == 1..(k + 1)
    <3>1. f[s] = Scan(f[s \ {Max(s)}], text[Max(s)])
      <4> HIDE DEF s
      <4>1. s \in SUBSET (1..n) /\ s # {}
        BY <2>1 DEF s
      <4> QED
        BY <1>3, <4>1 DEF Folds6
    <3> QED
      BY <2>1, <2>2, <3>1
  <2>4. v[k] = f[1..k] /\ v[k + 1] = f[1..(k + 1)]
    BY <1>1
  <2> QED
    BY <2>3, <2>4
<1>6. v[n] = f[1..n]
  BY <1>1
<1>7. Scans(v, text)
  <2> HIDE DEF v
  <2> QED
    BY <1>4, <1>5 DEF Scans
<1> QED
  BY <1>3, <1>6, <1>7

(* The scanner over characters of C, and the powers of Base: quads of d    *)
(* digits are below limit[d].                                              *)
Scanners(C) == [result : {"scan", "stop", "fail"}, stored : Seq(Nat), quad : Nat,
                digits : Nat, colons : Nat, double : Nat, rest : Seq(C)]

Powers(limit) ==
    /\ limit \in [0..QuadDigits -> Nat] /\ limit[0] = 1
    /\ \A d \in 0..(QuadDigits - 1) : limit[d + 1] = limit[d] * Base

(* Another digit adds at most a factor of Base.                            *)
LEMMA DigitFits ==
    ASSUME NEW b \in Nat, NEW q \in Nat, NEW a \in Nat, NEW d \in 0..(b - 1), q < a
    PROVE  q * b + d < a * b
<1>1. PICK e \in Nat : a = (q + 1) + e
  <2>1. a - (q + 1) \in Nat /\ a = (q + 1) + (a - (q + 1))
    OBVIOUS
  <2> QED
    BY <2>1
<1>2. a * b = (q * b + b) + e * b
  BY <1>1
<1>3. q * b \in Nat /\ e * b \in Nat
  OBVIOUS
<1> QED
  BY <1>2, <1>3

LEMMA PowersGrow ==
    ASSUME NEW limit, Powers(limit)
    PROVE  \A d \in 0..QuadDigits : limit[d] =< limit[QuadDigits]
<1> USE ParseAssumption
<1> DEFINE S == {k \in 0..QuadDigits : limit[QuadDigits - k] =< limit[QuadDigits]}
<1>1. 0 \in S
  BY DEF Powers
<1>2. ASSUME NEW k \in 0..(QuadDigits - 1), k \in S PROVE k + 1 \in S
  <2> DEFINE d == QuadDigits - (k + 1)
  <2>1. d \in 0..(QuadDigits - 1) /\ d + 1 = QuadDigits - k /\ k + 1 \in 0..QuadDigits
    OBVIOUS
  <2>2. limit[d] \in Nat /\ limit[QuadDigits] \in Nat
        /\ limit[d + 1] = limit[d] * Base /\ limit[d + 1] =< limit[QuadDigits]
    BY <1>2, <2>1 DEF Powers
  <2> DEFINE a == limit[d]
             z == limit[QuadDigits]
  <2>3. a =< a * Base
    <3>1. PICK e \in Nat : Base = 1 + e
      <4>1. Base - 1 \in Nat /\ Base = 1 + (Base - 1)
        OBVIOUS
      <4> QED
        BY <4>1
    <3>2. a \in Nat
      BY <2>2
    <3> HIDE DEF a
    <3>3. a * Base = a + a * e /\ a * e \in Nat
      BY <3>1, <3>2
    <3> QED
      BY <3>2, <3>3
  <2>4. a \in Nat /\ z \in Nat /\ a * Base \in Nat /\ a * Base =< z
    BY <2>2
  <2>5. a =< z
    <3> HIDE DEF a, z
    <3> QED
      BY <2>3, <2>4
  <2> QED
    BY <2>1, <2>5
<1> HIDE DEF S
<1>3. \A k \in 0..QuadDigits : k \in S
  BY <1>1, <1>2, CountingTo
<1> SUFFICES ASSUME NEW d \in 0..QuadDigits PROVE limit[d] =< limit[QuadDigits]
  OBVIOUS
<1>4. QuadDigits - d \in 0..QuadDigits /\ QuadDigits - (QuadDigits - d) = d
  OBVIOUS
<1> QED
  BY <1>3, <1>4 DEF S

(* What is stored fits into the array and its elements; a quad under way   *)
(* has a place in it, and the "::" is at or before its end.                *)
InBounds(st, limit) ==
    /\ Len(st.stored) =< Quads /\ st.digits =< QuadDigits
    /\ \A i \in 1..Len(st.stored) : st.stored[i] < limit[QuadDigits]
    /\ st.quad < limit[st.digits]
    /\ st.digits > 0 => Len(st.stored) < Quads
    /\ st.double = Quads \/ st.double =< Len(st.stored)

LEMMA StartInBounds ==
    ASSUME NEW C, NEW limit, Powers(limit)
    PROVE  Start6 \in Scanners(C) /\ InBounds(Start6, limit)
BY ParseAssumption DEF Start6, Scanners, InBounds, Powers

LEMMA EndQuadInBounds ==
    ASSUME NEW C, NEW limit, Powers(limit), NEW st \in Scanners(C), InBounds(st, limit)
    PROVE  EndQuad(st) \in Scanners(C) /\ InBounds(EndQuad(st), limit)
           /\ EndQuad(st).double = st.double
<1> USE ParseAssumption
<1>1. CASE st.digits = 0
  BY <1>1 DEF EndQuad
<1>2. CASE st.digits # 0
  <2> DEFINE q == Append(st.stored, st.quad)
             r == [result |-> st.result, stored |-> q, quad |-> 0, digits |-> 0,
                   colons |-> st.colons, double |-> st.double, rest |-> st.rest]
  <2>1. /\ st.stored \in Seq(Nat) /\ st.quad \in Nat /\ st.digits \in Nat
        /\ Len(st.stored) < Quads /\ st.digits \in 0..QuadDigits
    BY <1>2 DEF Scanners, InBounds
  <2>2. st.quad < limit[QuadDigits]
    <3>1. st.quad < limit[st.digits] /\ limit[st.digits] =< limit[QuadDigits]
      BY <2>1, PowersGrow DEF InBounds
    <3>2. limit[st.digits] \in Nat /\ limit[QuadDigits] \in Nat
      BY <2>1 DEF Powers
    <3> QED
      BY <2>1, <3>1, <3>2
  <2>3. /\ q \in Seq(Nat) /\ Len(q) = Len(st.stored) + 1
        /\ \A i \in 1..Len(q) : q[i] = IF i =< Len(st.stored) THEN st.stored[i] ELSE st.quad
    BY <2>1
  <2>4. \A i \in 1..Len(q) : q[i] < limit[QuadDigits]
    BY <2>1, <2>2, <2>3 DEF InBounds
  <2>5. EndQuad(st) = r
    BY <1>2 DEF EndQuad, Scanners
  <2> HIDE DEF q
  <2>6. r \in Scanners(C)
    BY <2>3 DEF Scanners
  <2>7. Len(st.stored) \in Nat /\ limit[0] = 1
        /\ (st.double = Quads \/ st.double =< Len(st.stored)) /\ st.double \in Nat
    BY <2>1 DEF Powers, InBounds, Scanners
  <2>8. InBounds(r, limit)
    BY <2>1, <2>3, <2>4, <2>7 DEF InBounds
  <2> QED
    BY <2>5, <2>6, <2>8
<1> QED
  BY <1>1, <1>2

(* The updates of the scanner's state that a character causes.             *)
LEMMA StateUpdates ==
    ASSUME NEW C, NEW st \in Scanners(C)
    PROVE  /\ \A n \in Nat : [st EXCEPT !.colons = n] \in Scanners(C)
           /\ \A n \in Nat : [st EXCEPT !.double = n] \in Scanners(C)
           /\ \A q, n \in Nat :
                 [st EXCEPT !.quad = q, !.digits = n, !.colons = 0] \in Scanners(C)
BY DEF Scanners

(* Every character keeps the scanner within bounds.                        *)
LEMMA ScanInBounds ==
    ASSUME NEW C, NEW limit, Powers(limit), NEW st \in Scanners(C), InBounds(st, limit),
           NEW c \in C
    PROVE  Scan(st, c) \in Scanners(C) /\ InBounds(Scan(st, c), limit)
<1> USE ParseAssumption
<1> DEFINE Stop == st.result = "stop" \/ c \notin Alphabet \/ (c = COLON /\ st.colons = 2)
           Full6 == Len(st.stored) >= Quads \/ (c # COLON /\ st.digits >= QuadDigits)
<1>0. /\ st.stored \in Seq(Nat) /\ Len(st.stored) \in Nat /\ st.quad \in Nat
      /\ st.digits \in Nat /\ st.colons \in Nat /\ st.double \in Nat /\ st.rest \in Seq(C)
  BY DEF Scanners
<1>1. CASE st.result = "fail"
  BY <1>1 DEF Scan
<1>2. CASE st.result # "fail" /\ Stop
  <2>1. Scan(st, c) = [st EXCEPT !.result = "stop", !.rest = Append(st.rest, c)]
    BY <1>2 DEF Scan
  <2>2. Append(st.rest, c) \in Seq(C)
    BY <1>0
  <2>3. Scan(st, c) \in Scanners(C)
    BY <2>1, <2>2 DEF Scanners
  <2>4. InBounds(Scan(st, c), limit)
    BY <2>1 DEF InBounds, Scanners
  <2> QED
    BY <2>3, <2>4
<1>3. CASE st.result # "fail" /\ ~Stop /\ Full6
  <2>1. Scan(st, c) = [st EXCEPT !.result = "fail"]
    BY <1>3 DEF Scan
  <2> QED
    BY <2>1 DEF Scanners, InBounds
<1>4. CASE st.result # "fail" /\ ~Stop /\ ~Full6 /\ c = COLON
  <2> DEFINE s1 == [st EXCEPT !.colons = st.colons + 1]
             s2 == SaveDoubleColon(s1)
  <2>1. Scan(st, c) = EndQuad(s2)
    BY <1>4 DEF Scan
  <2>2. s1 \in Scanners(C) /\ InBounds(s1, limit) /\ Len(s1.stored) < Quads
    <3>1. st.colons + 1 \in Nat
      BY <1>0
    <3>2. s1 \in Scanners(C)
      BY <3>1, StateUpdates
    <3>3. /\ s1.stored = st.stored /\ s1.digits = st.digits /\ s1.quad = st.quad
          /\ s1.double = st.double
      BY DEF Scanners
    <3>4. Len(st.stored) < Quads
      BY <1>0, <1>4
    <3> HIDE DEF s1
    <3> QED
      BY <3>2, <3>3, <3>4 DEF InBounds
  <2> HIDE DEF s1
  <2>3. s2 \in Scanners(C) /\ InBounds(s2, limit)
    <3>1. CASE s1.colons # 2
      BY <2>2, <3>1 DEF SaveDoubleColon
    <3>2. CASE s1.colons = 2 /\ s1.double < Quads
      <4>1. s2 = [s1 EXCEPT !.result = "fail"]
        BY <3>2 DEF SaveDoubleColon
      <4> QED
        BY <2>2, <4>1 DEF Scanners, InBounds
    <3>3. CASE s1.colons = 2 /\ ~(s1.double < Quads)
      <4>1. s2 = [s1 EXCEPT !.double = Len(s1.stored)]
        BY <3>3 DEF SaveDoubleColon
      <4>2. Len(s1.stored) \in Nat
        BY <2>2 DEF Scanners
      <4>3. s2 \in Scanners(C)
        <5> DEFINE m == Len(s1.stored)
        <5>1. s2 = [s1 EXCEPT !.double = m] /\ m \in Nat
          BY <4>1, <4>2
        <5> HIDE DEF m, s2
        <5>2. [s1 EXCEPT !.double = m] \in Scanners(C)
          BY <2>2, <5>1, StateUpdates
        <5> QED
          BY <5>1, <5>2
      <4>4. /\ s2.stored = s1.stored /\ s2.digits = s1.digits /\ s2.quad = s1.quad
            /\ s2.double = Len(s1.stored)
        BY <2>2, <4>1 DEF Scanners
      <4> HIDE DEF s2
      <4> QED
        BY <2>2, <4>2, <4>3, <4>4 DEF InBounds
    <3> QED
      BY <3>1, <3>2, <3>3
  <2> HIDE DEF s2
  <2> QED
    BY <2>1, <2>3, EndQuadInBounds
<1>5. CASE st.result # "fail" /\ ~Stop /\ ~Full6 /\ c # COLON
  <2>1. Scan(st, c) = [st EXCEPT !.quad = st.quad * Base + c, !.digits = st.digits + 1,
                                 !.colons = 0]
    BY <1>5 DEF Scan
  <2>2. c \in 0..(Base - 1) /\ Base \in Nat /\ st.digits \in 0..(QuadDigits - 1)
        /\ Len(st.stored) < Quads
    BY <1>0, <1>5 DEF Alphabet, Digits, COLON
  <2>3. /\ limit[st.digits] \in Nat /\ limit[st.digits + 1] = limit[st.digits] * Base
        /\ st.quad < limit[st.digits]
    <3>1. st.digits \in 0..QuadDigits
      BY <2>2
    <3> QED
      BY <2>2, <3>1 DEF Powers, InBounds
  <2> DEFINE q == st.quad * Base + c
             e == st.digits + 1
  <2>4. q < limit[e]
    BY <1>0, <2>2, <2>3, DigitFits
  <2>5. q \in Nat /\ e \in Nat /\ e =< QuadDigits
    BY <1>0, <2>2
  <2> HIDE DEF q, e
  <2>6. Scan(st, c) = [st EXCEPT !.quad = q, !.digits = e, !.colons = 0]
    BY <2>1 DEF q, e
  <2>7. Scan(st, c) \in Scanners(C)
    <3>1. [st EXCEPT !.quad = q, !.digits = e, !.colons = 0] \in Scanners(C)
      BY <2>5, StateUpdates
    <3> QED
      BY <2>6, <3>1
  <2>8. InBounds(Scan(st, c), limit)
    BY <2>2, <2>4, <2>5, <2>6 DEF Scanners, InBounds
  <2> QED
    BY <2>7, <2>8
<1> QED
  BY <1>1, <1>2, <1>3, <1>4, <1>5

LEMMA ConcatBelow ==
    ASSUME NEW a \in Seq(Nat), NEW b \in Seq(Nat), NEW z \in Nat,
           \A i \in 1..Len(a) : a[i] < z, \A i \in 1..Len(b) : b[i] < z
    PROVE  /\ a \o b \in Seq(Nat) /\ Len(a \o b) = Len(a) + Len(b)
           /\ \A i \in 1..Len(a \o b) : (a \o b)[i] < z
<1>1. a \o b \in Seq(Nat) /\ Len(a \o b) = Len(a) + Len(b)
  OBVIOUS
<1>2. Len(a) \in Nat /\ Len(b) \in Nat
  OBVIOUS
<1>3. ASSUME NEW i \in 1..(Len(a) + Len(b)) PROVE (a \o b)[i] < z
  <2>1. CASE i =< Len(a)
    <3>1. i \in 1..Len(a) /\ (a \o b)[i] = a[i]
      BY <1>2, <2>1
    <3> QED
      BY <3>1
  <2>2. CASE i > Len(a)
    <3>1. i - Len(a) \in 1..Len(b) /\ (a \o b)[i] = b[i - Len(a)]
      BY <1>2, <2>2
    <3> QED
      BY <3>1
  <2> QED
    BY <1>2, <2>1, <2>2
<1> QED
  BY <1>1, <1>3

(* Expanding the "::" fills the array, with what it held and with zeros.   *)
LEMMA ExpandFills ==
    ASSUME NEW quads \in Seq(Nat), NEW double \in Nat, NEW z \in Nat, z > 0,
           Len(quads) =< Quads, double = Quads \/ double =< Len(quads),
           \A i \in 1..Len(quads) : quads[i] < z
    PROVE  /\ Expand(quads, double) \in Seq(Nat)
           /\ Len(Expand(quads, double)) =< Quads
           /\ double # Quads => Len(Expand(quads, double)) = Quads
           /\ \A i \in 1..Len(Expand(quads, double)) : Expand(quads, double)[i] < z
<1> USE ParseAssumption
<1>1. CASE double = Quads
  BY <1>1 DEF Expand
<1>2. CASE double # Quads
  <2> DEFINE n == Len(quads)
             a == SubSeq(quads, 1, double)
             b == [i \in 1..(Quads - n) |-> 0]
             d == SubSeq(quads, double + 1, n)
  <2>1. n \in Nat /\ double =< n /\ n =< Quads
    BY <1>2
  <2>2. /\ a \in Seq(Nat) /\ Len(a) = double /\ \A i \in 1..Len(a) : a[i] = quads[i]
    BY <2>1
  <2>3. b \in Seq(Nat) /\ Len(b) = Quads - n /\ \A i \in 1..Len(b) : b[i] = 0
    BY <2>1
  <2>4. /\ d \in Seq(Nat) /\ Len(d) = n - double
        /\ \A i \in 1..Len(d) : d[i] = quads[double + i] /\ double + i \in 1..n
    BY <2>1
  <2>5. Expand(quads, double) = a \o b \o d
    BY <1>2 DEF Expand
  <2>6. /\ \A i \in 1..Len(a) : a[i] < z
        /\ \A i \in 1..Len(b) : b[i] < z
        /\ \A i \in 1..Len(d) : d[i] < z
    BY <2>1, <2>2, <2>3, <2>4
  <2> HIDE DEF a, b, d
  <2>7. /\ a \o b \in Seq(Nat) /\ Len(a \o b) = Len(a) + Len(b)
        /\ \A i \in 1..Len(a \o b) : (a \o b)[i] < z
    BY <2>2, <2>3, <2>6, ConcatBelow
  <2> DEFINE ab == a \o b
  <2> HIDE DEF ab
  <2>8. /\ ab \o d \in Seq(Nat) /\ Len(ab \o d) = Len(ab) + Len(d)
        /\ \A i \in 1..Len(ab \o d) : (ab \o d)[i] < z
    <3>1. ab \in Seq(Nat) /\ \A i \in 1..Len(ab) : ab[i] < z
      BY <2>7 DEF ab
    <3> QED
      BY <2>4, <2>6, <3>1, ConcatBelow
  <2>9. Len(ab) + Len(d) = Quads
    BY <2>1, <2>2, <2>3, <2>4, <2>7 DEF ab
  <2> QED
    BY <1>2, <2>5, <2>8, <2>9 DEF ab
<1> QED
  BY <1>1, <1>2

(* unformat_ip6_address never leaves its array of quads, whatever text it  *)
(* is given: no quad is stored behind its end, every quad fits into its    *)
(* digits, and an address that is returned has exactly as many quads as    *)
(* the array.                                                              *)
THEOREM ParserInBounds ==
    ASSUME NEW C, NEW text \in Seq(C), NEW limit, Powers(limit)
    PROVE  LET last == EndQuad(FoldLeft(Scan, Start6, text))
           IN  /\ Len(last.stored) =< Quads
               /\ last.double = Quads \/ last.double =< Len(last.stored)
               /\ Unformat(text).ok =>
                     Unformat(text).addr \in [1..Quads -> 0..(limit[QuadDigits] - 1)]
<1> DEFINE st == FoldLeft(Scan, Start6, text)
           last == EndQuad(st)
           quads == Expand(last.stored, last.double)
<1>1. PICK v : Scans(v, text) /\ st = v[Len(text)]
  BY ScanTurns
<1>2. st \in Scanners(C) /\ InBounds(st, limit)
  <2> HIDE DEF st
  <2> DEFINE S == {k \in 0..Len(text) : v[k] \in Scanners(C) /\ InBounds(v[k], limit)}
  <2>1. Len(text) \in Nat
    OBVIOUS
  <2>2. 0 \in S
    <3>1. v[0] = Start6 /\ 0 \in 0..Len(text)
      BY <1>1, <2>1 DEF Scans
    <3>2. Start6 \in Scanners(C) /\ InBounds(Start6, limit)
      BY StartInBounds
    <3> QED
      BY <3>1, <3>2
  <2>3. ASSUME NEW k \in 0..(Len(text) - 1), k \in S PROVE k + 1 \in S
    <3>1. text[k + 1] \in C /\ k + 1 \in 0..Len(text)
      OBVIOUS
    <3>2. v[k + 1] = Scan(v[k], text[k + 1])
      BY <1>1 DEF Scans
    <3>3. v[k] \in Scanners(C) /\ InBounds(v[k], limit)
      BY <2>3
    <3> QED
      BY <3>1, <3>2, <3>3, ScanInBounds
  <2> HIDE DEF S
  <2>4. \A k \in 0..Len(text) : k \in S
    BY <2>1, <2>2, <2>3, CountingTo
  <2> QED
    BY <1>1, <2>1, <2>4 DEF S
<1> HIDE DEF st
<1>3. last \in Scanners(C) /\ InBounds(last, limit)
  BY <1>2, EndQuadInBounds
<1> HIDE DEF last
<1>4. /\ last.stored \in Seq(Nat) /\ last.double \in Nat /\ Len(last.stored) =< Quads
      /\ last.double = Quads \/ last.double =< Len(last.stored)
      /\ \A i \in 1..Len(last.stored) : last.stored[i] < limit[QuadDigits]
  BY <1>3 DEF Scanners, InBounds
<1>5. limit[QuadDigits] \in Nat /\ limit[QuadDigits] > 0
  <2>1. limit[0] = 1 /\ limit[0] =< limit[QuadDigits] /\ limit[QuadDigits] \in Nat
    BY ParseAssumption, PowersGrow DEF Powers
  <2> QED
    BY <2>1
<1>6. /\ quads \in Seq(Nat) /\ Len(quads) =< Quads
      /\ \A i \in 1..Len(quads) : quads[i] < limit[QuadDigits]
  BY <1>4, <1>5, ExpandFills
<1> HIDE DEF quads
<1>7. ASSUME ~(st.result = "fail" \/ Len(quads) < Quads)
      PROVE  quads \in [1..Quads -> 0..(limit[QuadDigits] - 1)]
  <2>1. Len(quads) = Quads
    BY <1>6, <1>7, ParseAssumption
  <2> QED
    BY <1>5, <1>6, <2>1
<1>8. Unformat(text) = IF st.result = "fail" \/ Len(quads) < Quads THEN Fails
                       ELSE [ok |-> TRUE, addr |-> quads, rest |-> st.rest]
  BY DEF Unformat, st, last, quads
<1>9. Unformat(text).ok => Unformat(text).addr \in [1..Quads -> 0..(limit[QuadDigits] - 1)]
  BY <1>7, <1>8 DEF Fails
<1> QED
  BY <1>4, <1>9 DEF last, st
=============================================================================
