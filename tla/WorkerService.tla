---------------------------- MODULE WorkerService ----------------------------
(***************************************************************************)
(* What a worker of the VCL test server promises its clients: it serves    *)
(* sessions, each of which it takes in clean; of the sessions it serves it *)
(* takes the messages, each session's in order and one at a time, and it   *)
(* answers only a client that waits, on taking its question; it closes a   *)
(* session only when the client is gone or asks to exit; and it finishes   *)
(* exactly when it closes the last session.  There are no slots, no epoll  *)
(* set and no count of sessions here.                                      *)
(***************************************************************************)
EXTENDS Sequences

CONSTANTS Sessions,    \* handles of sessions
          Questions,   \* messages after which a client waits for an answer
          Exit         \* the one of them that asks to close the session

VARIABLES served,    \* sessions the worker serves
          gone,      \* sessions whose client has gone
          unread,    \* messages of each session that were not taken yet
          waiting,   \* sessions whose client waits for an answer
          status     \* of the worker: "serving", "finished" or "failed"

vars == <<served, gone, unread, waiting, status>>

Init ==
    /\ served = {} /\ gone = {} /\ waiting = {} /\ status = "serving"
    /\ unread = [f \in Sessions |-> <<>>]

(* The worker.                                                             *)
Accept(f) ==
    /\ f \notin served \cup gone \cup waiting /\ unread[f] = <<>>
    /\ served' = served \cup {f}
    /\ UNCHANGED <<gone, unread, waiting, status>>

Take(f) ==
    /\ f \in served /\ unread[f] # <<>>
    /\ unread' = [unread EXCEPT ![f] = Tail(unread[f])]
    /\ \/ UNCHANGED waiting
       \/ /\ f \in waiting /\ Head(unread[f]) \in Questions
          /\ waiting' = waiting \ {f}
    /\ UNCHANGED <<served, gone, status>>

Close(f) ==
    /\ f \in served
    /\ f \in gone \/ (unread[f] # <<>> /\ Head(unread[f]) = Exit)
    /\ served' = served \ {f} /\ gone' = gone \ {f} /\ waiting' = waiting \ {f}
    /\ unread' = [unread EXCEPT ![f] = <<>>]
    /\ status' = IF served' = {} THEN "finished" ELSE "serving"

Fail == status' = "failed" /\ UNCHANGED <<served, gone, unread, waiting>>

(* The clients.                                                            *)
Send(f, m) ==
    /\ f \notin gone \cup waiting
    /\ unread' = [unread EXCEPT ![f] = Append(unread[f], m)]
    /\ waiting' = IF m \in Questions THEN waiting \cup {f} ELSE waiting
    /\ UNCHANGED <<served, gone, status>>

Leave(f) ==
    /\ f \notin gone
    /\ gone' = gone \cup {f}
    /\ \/ UNCHANGED unread
       \/ unread' = [unread EXCEPT ![f] = <<>>]
    /\ UNCHANGED <<served, waiting, status>>

Next ==
    /\ status = "serving"
    /\ \/ Fail
       \/ \E f \in Sessions : Accept(f) \/ Take(f) \/ Close(f) \/ Leave(f)
       \/ \E f \in Sessions, m \in Questions \cup {"DATA"} : Send(f, m)

Spec == Init /\ [][Next]_vars
=============================================================================
