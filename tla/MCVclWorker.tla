----------------------------- MODULE MCVclWorker -----------------------------
(* Model of VclWorker and of the results in VclStats for TLC: the session   *)
(* handles are interchangeable.                                             *)
EXTENDS VclStats, TLC

FdSymmetry == Permutations(Fds)

(* A server started without -s.                                            *)
InitBuffer == Init /\ ~use_ds
BufferSpec == InitBuffer /\ [][Next]_vars
=============================================================================
