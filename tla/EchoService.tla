----------------------------- MODULE EchoService -----------------------------
(***************************************************************************)
(* What the UDP echo server promises about one session, seen from VPP:     *)
(* bytes arrive, and bytes leave in the order in which they arrived, none  *)
(* before it arrived; and the server holds at most Capacity of them.       *)
(* A byte is named by its position in the stream, so both ends are         *)
(* counters.                                                               *)
(***************************************************************************)
EXTENDS Integers

CONSTANT Capacity     \* bytes the server can hold

VARIABLES arrived,    \* bytes VPP has delivered to the session
          left        \* bytes that have left the server

vars == <<arrived, left>>

Init == arrived = 0 /\ left = 0

(* VPP delivers n more bytes.                                              *)
Arrive(n) ==
    /\ arrived + n - left =< Capacity
    /\ arrived' = arrived + n
    /\ UNCHANGED left

(* The next n bytes leave the server.                                      *)
Leave(n) ==
    /\ left + n =< arrived
    /\ left' = left + n
    /\ UNCHANGED arrived

(* A step moves at most Capacity bytes.                                    *)
Next == \E n \in 1..Capacity : Arrive(n) \/ Leave(n)

Spec == Init /\ [][Next]_vars
=============================================================================
