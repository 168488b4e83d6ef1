--------------------------- MODULE UdpEchoControl ----------------------------
(***************************************************************************)
(* The control path of udp-echo/main.c, as server and as client: the main  *)
(* thread (udp_server_test, client_test, the loops that take events off    *)
(* our_event_queue), the API RX thread that runs the vl_api_*_t_handlers,  *)
(* and VPP, with its request queue, the replies on the API queue and the   *)
(* events on the application's message queue.  The two threads share       *)
(* utm->state and utm->our_event_queue and nothing orders them.  What the  *)
(* client does once it has a session is EchoClient, whose steps are those  *)
(* of the main thread.                                                     *)
(*                                                                         *)
(* is_connected is 0 for every URI the program parses (main looks at the   *)
(* fifth character); time_to_stop is never set.                            *)
(***************************************************************************)
EXTENDS Integers, Sequences, FiniteSets, EchoClient

CONSTANTS Handles,      \* VPP's handles of accepted sessions
          MaxSessions,  \* bound: elements of the session pool
          MaxPackets    \* bound: RX events VPP posts

ASSUME ControlAssumption ==
    /\ IsFiniteSet(Handles) /\ "listener" \notin Handles
    /\ MaxSessions \in Nat \ {0} /\ MaxPackets \in Nat

VARIABLES
    role,         \* i_am_server
    pc,           \* where the main thread is
    state,        \* utm->state
    queue,        \* utm->our_event_queue is not NULL
    requests,     \* API requests VPP has not handled
    api,          \* API replies the RX thread has not handled
    mq,           \* events on our_event_queue
    sessions,     \* utm->sessions: indices in use
    evt_q,        \* the sessions whose vpp_evt_q is not NULL
    hash,         \* utm->session_index_by_vpp_handles
    fifo_index,   \* client_session_index in the fifos of a session of VPP
    connected,    \* utm->connected_session
    cut_through,  \* utm->cut_through_session_index
    late,         \* client_test's 100 seconds have passed
    attached,     \* VPP knows the application
    bound,        \* VPP has bound the listener
    up,           \* sessions VPP has accepted
    packets,      \* RX events posted so far
    answered,     \* ACCEPTED_REPLYs that VPP has received
    trouble       \* history: what went wrong so far

config == <<role, client>>
app  == <<state, queue, sessions, evt_q, hash, connected, cut_through, late>>
vpp  == <<attached, bound, up, packets, answered>>
vars == <<config, pc, app, requests, api, mq, fifo_index, vpp, trouble>>

None     == -1
Index    == 0..(MaxSessions - 1)
Listener == "listener"               \* VPP's name for the bound session
Running  == pc \notin {"exit", "crash"}
Owners   == Handles \cup {Listener}

(* What VPP may answer to the requests.                                    *)
AttachReplies == {"ATTACHED", "ATTACH_FAILED", "NO_SEGMENT"}
BindReplies   == {"BOUND", "BIND_FAILED"}
ConnectEvents == {"CONNECTED", "CUT_THROUGH", "CONNECTED_BAD_URI", "CONNECT_FAILED"}

(* The states of connection_state_t that a run can show.                   *)
States == {"START", "ATTACHED", "READY", "FAILED", "DETACHED"}

-----------------------------------------------------------------------------
(* main, up to udp_server_test or client_test.                             *)
Init ==
    /\ role \in {"server", "client"} /\ InitClient
    /\ role = "server" => ~reflects /\ bytes_to_send = 0   \* it looks at neither
    /\ pc = "start" /\ state = "START" /\ queue = FALSE
    /\ requests = <<>> /\ api = <<>> /\ mq = <<>>
    /\ sessions = {} /\ evt_q = {} /\ hash = [h \in Handles |-> None]
    /\ fifo_index = [o \in Owners |-> None]
    /\ connected = 0 /\ cut_through = None /\ late = FALSE
    /\ attached = FALSE /\ bound = FALSE /\ up = {} /\ packets = 0 /\ answered = {}
    /\ trouble = {}

-----------------------------------------------------------------------------
(* The main thread.                                                        *)

(* udp_server_test sends the bind request right behind the attach request, *)
(* without waiting; client_test only attaches.                             *)
FirstRequests == IF role = "server" THEN <<"ATTACH", "BIND">> ELSE <<"ATTACH">>

Start ==
    /\ pc = "start"
    /\ requests' = requests \o FirstRequests
    /\ pc' = "wait"
    /\ UNCHANGED <<config, app, api, mq, fifo_index, vpp, trouble>>

(* The state wait_for_state_change was called for.                         *)
Awaited == IF pc = "detach" THEN "DETACHED"
           ELSE IF role = "server" THEN "READY" ELSE "ATTACHED"

(* wait_for_state_change returns 0.  The client goes on to connect; the    *)
(* server to server_handle_event_queue, whose own wait for STATE_READY is  *)
(* over at once, the reply that set it being the last one.                 *)
WaitDone ==
    /\ pc \in {"wait", "detach"} /\ state = Awaited
    /\ pc' = IF pc = "detach" THEN "exit" ELSE "loop"
    /\ requests' = IF pc = "wait" /\ role = "client"
                     THEN Append(requests, "CONNECT") ELSE requests
    /\ UNCHANGED <<config, app, api, mq, fifo_index, vpp, trouble>>

GivesUpMutant == state = "FAILED"

(* STATE_FAILED, or 600 seconds, far more than VPP and the RX thread take  *)
(* to answer what they answer at all.                                      *)
GivesUp == state = "FAILED" \/ (requests = <<>> /\ api = <<>>)

(* It returns -1, and the program exits.                                   *)
WaitFailed ==
    /\ pc \in {"wait", "detach"} /\ state # Awaited
    /\ GivesUp
    /\ pc' = "exit"
    /\ UNCHANGED <<config, app, requests, api, mq, fifo_index, vpp, trouble>>

Crash(why) ==
    /\ pc' = "crash"
    /\ trouble' = trouble \cup {why}
    /\ UNCHANGED <<config, app, requests, api, mq, fifo_index, vpp>>

ClientLoopShortMutant == state # "START"
ClientLoopLongMutant == state = "FAILED"

(* The condition of client_test's loop has become false.                   *)
ClientLoopDone == Cardinality(sessions) = 1 \/ state = "FAILED"

(* The server's loop has no condition.                                     *)
Looping == pc = "loop" /\ (role = "client" => ~ClientLoopDone)

(* svm_msg_q_sub on a NULL queue.                                          *)
SubNull == Looping /\ ~queue /\ Crash("null_queue")

(* The event at the head of the queue, which the main thread is handling.  *)
Takes(type) == Looping /\ queue /\ mq # <<>> /\ Head(mq).type = type

(* After a handler returns: client_test's test of the 100 seconds.         *)
Handled ==
    /\ mq' = Tail(mq)
    /\ pc' = IF role = "client" /\ late THEN "send" ELSE "loop"
    /\ UNCHANGED <<config, queue, requests, api, late,
                   attached, bound, up, packets>>

(* pool_get: the free element put last.  main has put 200000 elements from *)
(* the first to the last for the server, the client's pool starts empty.   *)
PoolGet(i) ==
    /\ i \in Index \ sessions
    /\ \A j \in Index \ sessions : IF role = "server" THEN j =< i ELSE i =< j
    /\ sessions' = sessions \cup {i}

(* session_bound_handler                                                   *)
SessionBound(i) ==
    /\ Takes("BOUND") /\ PoolGet(i)
    /\ evt_q' = evt_q \cup {i}
    /\ fifo_index' = [fifo_index EXCEPT ![Listener] = i]
    /\ state' = "READY"
    /\ Handled
    /\ UNCHANGED <<hash, connected, cut_through, answered, trouble>>

HashSetMutant(h, i) == [hash EXCEPT ![h] = IF i > 0 THEN i - 1 ELSE i]

(* hash_set(session_index_by_vpp_handles, mp->handle, session_index)       *)
HashSet(h, i) == [hash EXCEPT ![h] = i]

(* session_accepted_handler: the session is zeroed, its vpp_evt_q is not   *)
(* set.                                                                    *)
SessionAccepted(i) ==
    /\ Takes("ACCEPTED") /\ PoolGet(i)
    /\ LET h == Head(mq).owner IN
          /\ hash' = HashSet(h, i)
          /\ fifo_index' = [fifo_index EXCEPT ![h] = i]
          /\ answered' = answered \cup {h}
    /\ evt_q' = evt_q \ {i}
    /\ state' = "READY"
    /\ Handled
    /\ UNCHANGED <<connected, cut_through, trouble>>

(* session_disconnected_handler: after hash_unset and pool_put the reply   *)
(* goes to session->vpp_evt_q; a handle the hash does not know is ignored. *)
SessionDisconnected ==
    /\ Takes("DISCONNECTED")
    /\ LET h == Head(mq).owner
           i == hash[h]
       IN  IF i = None \/ i \in evt_q
             THEN /\ hash' = [hash EXCEPT ![h] = None]
                  /\ sessions' = sessions \ {i}
                  /\ Handled
                  /\ UNCHANGED <<state, evt_q, connected, cut_through,
                                 fifo_index, answered, trouble>>
             ELSE Crash("null_evt_q")

(* session_connected_handler: a refused connect changes nothing.           *)
ConnectRefused ==
    /\ Takes("CONNECT_FAILED")
    /\ Handled
    /\ UNCHANGED <<state, sessions, evt_q, hash, connected, cut_through,
                   fifo_index, answered, trouble>>

(* The cut-through case, the usual one, and the one where unformat_uri     *)
(* rejects the URI that VPP has understood.                                *)
SessionConnected(i) ==
    /\ Looping /\ queue /\ mq # <<>>
    /\ Head(mq).type \in {"CUT_THROUGH", "CONNECTED", "CONNECTED_BAD_URI"}
    /\ PoolGet(i)
    /\ LET ct == Head(mq).type = "CUT_THROUGH" IN
          /\ evt_q' = IF ct THEN evt_q \cup {i} ELSE evt_q
          /\ cut_through' = IF ct THEN i ELSE cut_through
          /\ connected' = IF ct THEN connected ELSE i
    /\ state' = IF Head(mq).type = "CONNECTED_BAD_URI" THEN "FAILED" ELSE "READY"
    /\ Handled
    /\ UNCHANGED <<hash, fifo_index, answered, trouble>>

(* server_handle_fifo_event_rx as far as the session's pointers go: it     *)
(* reads the fifos of the session at the event's index, and to reflect it  *)
(* raises an event on the session's vpp_evt_q.                             *)
ServerRx ==
    /\ Takes("RX")
    /\ LET i == Head(mq).index IN
          IF i \in sessions /\ (have_return => i \in evt_q)
            THEN /\ Handled
                 /\ UNCHANGED <<state, sessions, evt_q, hash, connected,
                                cut_through, fifo_index, answered, trouble>>
            ELSE Crash("bad_session")

(* The client leaves its loop.                                             *)
ClientLoopEnd ==
    /\ pc = "loop" /\ role = "client"
    /\ ClientLoopDone
    /\ pc' = "send"
    /\ UNCHANGED <<config, app, requests, api, mq, fifo_index, vpp, trouble>>

(* The session client_send_data is called with.                            *)
SendIndex == IF cut_through # None THEN cut_through ELSE connected

(* client_send_data is called: app_send raises its event on the session's  *)
(* vpp_evt_q, which the cut-through case alone has set.                    *)
ClientSend ==
    /\ pc = "send" /\ cpc = "idle"
    /\ IF SendIndex \in sessions /\ (bytes_to_send > 0 => SendIndex \in evt_q)
         THEN /\ BeginSend
              /\ UNCHANGED <<role, pc, app, requests, api, mq, fifo_index, vpp,
                             trouble>>
         ELSE Crash("no_session")

(* It sends and receives.                                                  *)
ClientData ==
    /\ pc = "send"
    /\ SendTestChunk \/ RecvTestChunk
    /\ UNCHANGED <<role, pc, app, requests, api, mq, fifo_index, vpp, trouble>>

ClientDrained ==
    /\ pc = "send"
    /\ DrainOver
    /\ UNCHANGED <<role, pc, app, requests, api, mq, fifo_index, vpp, trouble>>

(* It returns, and application_detach is called.                           *)
ClientDetach ==
    /\ pc = "send" /\ cpc = "done"
    /\ requests' = Append(requests, "DETACH")
    /\ pc' = "detach"
    /\ UNCHANGED <<config, app, api, mq, fifo_index, vpp, trouble>>

PeerStep ==
    /\ pc = "send"
    /\ Peer
    /\ UNCHANGED <<role, pc, app, requests, api, mq, fifo_index, vpp, trouble>>

(* 100 seconds pass in client_test.                                        *)
Late ==
    /\ role = "client" /\ pc = "loop" /\ ~late
    /\ late' = TRUE
    /\ UNCHANGED <<config, pc, state, queue, sessions, evt_q, hash,
                   connected, cut_through, requests, api, mq, fifo_index, vpp,
                   trouble>>

-----------------------------------------------------------------------------
(* The API RX thread.                                                      *)

BindRefusedMutant(reply) == FALSE   \* no test of mp->retval

(* vl_api_bind_uri_reply_t_handler: the test of mp->retval.                *)
BindRefused(reply) == reply = "BIND_FAILED"

(* vl_api_application_attach_reply_t_handler: without a segment, or when   *)
(* the segment cannot be attached, it returns and leaves the state alone.  *)
StateAfterAttach(reply) ==
    CASE reply = "ATTACH_FAILED" -> "FAILED"
      [] reply = "NO_SEGMENT"    -> state
      [] OTHER                   -> "ATTACHED"

StateAfter(reply) ==
    CASE reply \in AttachReplies -> StateAfterAttach(reply)
      [] reply \in BindReplies   -> "READY"
      [] OTHER -> "DETACHED"

RxThread ==
    /\ Running /\ api # <<>> /\ ~BindRefused(Head(api))
    /\ state' = StateAfter(Head(api))
    /\ queue' = (queue \/ Head(api) = "ATTACHED")
    /\ api' = Tail(api)
    /\ UNCHANGED <<config, pc, sessions, evt_q, hash, connected,
                   cut_through, late, requests, mq, fifo_index, vpp, trouble>>

(* The warning of a refused bind prints retval with format_api_error,      *)
(* which takes it for the address of utm: STATE_FAILED is never set.       *)
RxRefused ==
    /\ Running /\ api # <<>> /\ BindRefused(Head(api))
    /\ Crash("bind_refused")

(* VPP unmaps a segment of the application, which may happen at any time   *)
(* after the attach reply: both warnings of vl_api_unmap_segment_t_handler *)
(* print the handle as a string.  (A handle of 0 prints, and nothing else  *)
(* that the handlers of segments change is looked at.)                     *)
RxUnmap ==
    /\ Running /\ attached
    /\ api # <<>> => Head(api) \notin AttachReplies
    /\ Crash("unmap")

-----------------------------------------------------------------------------
(* VPP, modelled from the messages the handlers accept.                    *)

Event(type, owner, index) == [type |-> type, owner |-> owner, index |-> index]

VppAttach(reply) ==
    /\ requests # <<>> /\ Head(requests) = "ATTACH"
    /\ requests' = Tail(requests)
    /\ api' = Append(api, reply)
    /\ attached' = (reply # "ATTACH_FAILED")
    /\ trouble' = IF reply = "NO_SEGMENT" THEN trouble \cup {"no_segment"} ELSE trouble
    /\ UNCHANGED <<config, pc, app, mq, fifo_index, bound, up, packets,
                   answered>>

(* A bind is answered on both queues; a refused one ends the server before *)
(* session_bound_handler could see an event for it.                        *)
VppBind(ok) ==
    /\ requests # <<>> /\ Head(requests) = "BIND"
    /\ ok => attached
    /\ requests' = Tail(requests)
    /\ api' = Append(api, IF ok THEN "BOUND" ELSE "BIND_FAILED")
    /\ mq' = IF ok THEN Append(mq, Event("BOUND", Listener, None)) ELSE mq
    /\ bound' = ok
    /\ UNCHANGED <<config, pc, app, fifo_index, attached, up, packets,
                   answered, trouble>>

VppConnect(type) ==
    /\ requests # <<>> /\ Head(requests) = "CONNECT"
    /\ requests' = Tail(requests)
    /\ mq' = Append(mq, Event(type, None, None))
    /\ UNCHANGED <<config, pc, app, api, fifo_index, vpp, trouble>>

VppDetach ==
    /\ requests # <<>> /\ Head(requests) = "DETACH"
    /\ requests' = Tail(requests)
    /\ api' = Append(api, "DETACHED")
    /\ attached' = FALSE
    /\ UNCHANGED <<config, pc, app, mq, fifo_index, bound, up, packets,
                   answered, trouble>>

(* A session for the listener: the application is told.                    *)
VppAccept(h) ==
    /\ Running /\ bound /\ h \notin up
    /\ up' = up \cup {h}
    /\ mq' = Append(mq, Event("ACCEPTED", h, None))
    /\ UNCHANGED <<config, pc, app, requests, api, fifo_index,
                   attached, bound, packets, answered, trouble>>

(* The peer of a session closes it; the event may name a session that the  *)
(* application was not told of.                                            *)
VppDisconnect(h) ==
    /\ Running /\ bound /\ (h \in up => h \in answered)
    /\ ~ \E k \in 1..Len(mq) : mq[k].type = "DISCONNECTED" /\ mq[k].owner = h
    /\ h \notin up => "unknown" \notin trouble
    /\ trouble' = IF h \in up THEN trouble ELSE trouble \cup {"unknown"}
    /\ mq' = Append(mq, Event("DISCONNECTED", h, None))
    /\ UNCHANGED <<config, pc, app, requests, api, fifo_index, vpp>>

(* Data for a session: the event carries the index VPP finds in the fifo   *)
(* now, which is zero until the application has written its own.           *)
VppRx(o) ==
    /\ Running /\ bound /\ packets < MaxPackets
    /\ o = Listener \/ o \in answered
    /\ packets' = packets + 1
    /\ LET i == IF fifo_index[o] = None THEN 0 ELSE fifo_index[o] IN
          mq' = Append(mq, Event("RX", o, i))
    /\ trouble' = IF fifo_index[o] = None THEN trouble \cup {"early_rx"} ELSE trouble
    /\ UNCHANGED <<config, pc, app, requests, api, fifo_index,
                   attached, bound, up, answered>>

-----------------------------------------------------------------------------
MainThread ==
    \/ Start \/ WaitDone \/ WaitFailed \/ SubNull
    \/ SessionDisconnected \/ ConnectRefused \/ ServerRx
    \/ ClientLoopEnd \/ ClientSend \/ ClientData \/ ClientDetach
    \/ \E i \in Index : SessionBound(i) \/ SessionAccepted(i) \/ SessionConnected(i)

VppReplies ==
    \/ \E reply \in AttachReplies : VppAttach(reply)
    \/ \E ok \in BOOLEAN : VppBind(ok)
    \/ \E type \in ConnectEvents : VppConnect(type)
    \/ VppDetach

VppTraffic ==
    \/ \E h \in Handles : VppAccept(h) \/ VppDisconnect(h)
    \/ \E o \in Owners : VppRx(o)

Next ==
    \/ MainThread \/ RxThread \/ RxRefused \/ RxUnmap
    \/ Late \/ ClientDrained \/ PeerStep
    \/ VppReplies \/ VppTraffic

Spec == Init /\ [][Next]_vars

(* The two threads and the peer run, VPP answers requests, and time passes;*)
(* that a segment is unmapped is not needed.                               *)
FairSpec ==
    /\ Spec
    /\ WF_vars(MainThread) /\ WF_vars(RxThread \/ RxRefused)
    /\ WF_vars(VppReplies)
    /\ WF_vars(Late) /\ WF_vars(ClientDrained) /\ WF_vars(PeerStep)

-----------------------------------------------------------------------------
(* Properties.                                                             *)

TypeOK ==
    /\ role \in {"server", "client"} /\ have_return \in BOOLEAN
    /\ pc \in {"start", "wait", "loop", "send", "detach", "exit", "crash"}
    /\ state \in States /\ queue \in BOOLEAN
    /\ requests \in Seq({"ATTACH", "BIND", "CONNECT", "DETACH"})
    /\ api \in Seq(AttachReplies \cup BindReplies \cup {"DETACHED"})
    /\ sessions \subseteq Index /\ evt_q \subseteq Index
    /\ hash \in [Handles -> Index \cup {None}]
    /\ fifo_index \in [Owners -> Index \cup {None}]
    /\ connected \in Index /\ cut_through \in Index \cup {None} /\ late \in BOOLEAN
    /\ attached \in BOOLEAN /\ bound \in BOOLEAN /\ up \subseteq Handles
    /\ packets \in 0..MaxPackets /\ answered \subseteq Handles
    /\ cpc \in {"idle", "chunk", "recv", "drain", "done"} /\ reflects \in BOOLEAN
    /\ bytes_to_send \in Nat /\ bytes_sent \in Nat /\ log \in Seq(0..(BufLen - 1))
    /\ tx_used \in 0..CtFifoSize /\ rx_used \in 0..CtFifoSize /\ held \in Nat

(* The server enters its event loop only when VPP has attached and bound   *)
(* it, though it learns the outcome of the two pipelined requests through  *)
(* one variable that each reply overwrites.                                *)
LoopMeansBound ==
    role = "server" /\ pc = "loop" => attached /\ bound

(* The hash leads every accepted handle to a session in use of its own,    *)
(* never to the listener's, and the pool holds nothing else.               *)
HashSound ==
    LET Hashed == {h \in Handles : hash[h] # None} IN
    /\ \A g, h \in Hashed : hash[g] = hash[h] => g = h
    /\ role = "server" => sessions = {hash[h] : h \in Hashed}
                                       \cup ({fifo_index[Listener]} \ {None})
    /\ \A h \in Hashed : hash[h] # fifo_index[Listener]

(* The process crashes only so: the server sleeps on the queue that an     *)
(* attach reply without a segment left NULL; it handles data that came for *)
(* its listener before it had handled BOUND; it handles an event of an     *)
(* accepted session, whose vpp_evt_q is never set; the client uses the     *)
(* session of a connect that was refused after its 100 seconds; it sends   *)
(* on a session that is not cut through, whose vpp_evt_q is not set; the   *)
(* server's bind was refused, and the handler fails to say so; or VPP has  *)
(* unmapped a segment.                                                     *)
CrashCauses ==
    pc = "crash" =>
        \/ ~queue /\ role = "server" /\ "no_segment" \in trouble
        \/ queue /\ mq # <<>> /\ Head(mq).type = "RX"
                 /\ Head(mq).owner = Listener /\ "early_rx" \in trouble
        \/ queue /\ mq # <<>> /\ Head(mq).owner \in Handles
        \/ role = "client" /\ late /\ sessions = {}
        \/ role = "client" /\ bytes_to_send > 0 /\ cut_through = None /\ sessions = {connected}
        \/ role = "server" /\ ~bound /\ api # <<>> /\ Head(api) = "BIND_FAILED"
        \/ "unmap" \in trouble

(* Every wait for a state comes to an end, though the state may change     *)
(* again, or never, before the main thread looks at it.                    *)
WaitEnds == (pc \in {"wait", "detach"}) ~> (pc \notin {"wait", "detach"})

(* A client that VPP lets connect comes to an end: it sends all it has,    *)
(* though it never waits for the fifo, unless its peer reflects what it    *)
(* does not want back and the fifos fill up.                               *)
ConnectedClientEnds ==
    (role = "client" /\ sessions # {} /\ ~Choked) ~> (pc \in {"exit", "crash"})

(* The time base of the application is "For deadman timers": a client does *)
(* not wait forever to be connected.  It does not hold: the 100 seconds    *)
(* are looked at only after an event, and a refused connect is the last.   *)
ClientEnds == (role = "client" /\ ~Choked) ~> (pc \in {"exit", "crash"})
=============================================================================
