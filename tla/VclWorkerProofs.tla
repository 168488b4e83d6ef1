--------------------------- MODULE VclWorkerProofs ---------------------------
(***************************************************************************)
(* Proofs about VclWorker and VclStats, for any finite set of session      *)
(* handles, any pool size and any number of connections.                   *)
(***************************************************************************)
EXTENDS VclStats, FiniteSetTheorems, WellFoundedInduction, TLAPS

(* VCL hands out a handle again only after its session was closed, and a   *)
(* closed session is in no epoll set.                                      *)
HandleInUse == \A f \in Registered : peer[f] # "none"

(* The listener only ever reports EPOLLIN.                                 *)
ListenIn == \A e \in batch : e.data = LISTEN => e.events = "IN"

(* The inductive invariant.                                                *)
IInv ==
    /\ TypeOK /\ SlotOwnsSession /\ NfdsExact /\ SlotsAccounted
    /\ HandleInUse /\ ListenIn /\ BatchValid /\ StopsWhenAllClosed

USE VclAssumption

(* The initial states satisfy the invariant.                               *)
LEMMA InitInv == Init => IInv
<1> SUFFICES ASSUME Init PROVE IInv
  OBVIOUS
<1>1. Registered = {}
  BY DEF Init, Registered, NoSlot
<1>2. TypeOK
  <2>1. /\ pc \in {"loop", "read", "write", "done"} /\ failed \in BOOLEAN
        /\ awaits \in [Fds -> BOOLEAN]
    BY Zenon DEF Init
  <2>2. /\ batch \subseteq Entries /\ cur \in Slots /\ size \in 1..MaxSlots
        /\ alloc \subseteq 0..(size - 1) /\ slot_fd \in [Slots -> Fds \cup {NoFd}]
        /\ test \in [Slots -> {"NONE", "UNI", "BI", "ECHO"}]
        /\ rx \in [Slots -> 0..(Total + 1)]
        /\ nfds \in Int /\ ep \in [Fds -> Slots \cup {NoSlot}]
    BY DEF Init, Slots
  <2>3. /\ peer \in [Fds -> {"none", "up", "closed", "reset"}]
        /\ inbox \in [Fds -> Seq(Msgs)]
        /\ to_send \in [Fds -> 0..Total] /\ tx \in [Fds -> 0..TxRoom]
        /\ backlog \in Nat /\ conns \in 0..MaxConns
        /\ leaked \subseteq Slots /\ tainted \subseteq Slots /\ swallowed \subseteq Fds
    BY DEF Init
  <2> QED
    BY <2>1, <2>2, <2>3 DEF TypeOK
<1>3. NfdsExact
  BY <1>1, FS_EmptySet DEF NfdsExact, Init
<1>4. SlotOwnsSession /\ SlotsAccounted /\ HandleInUse
  BY <1>1 DEF SlotOwnsSession, SlotsAccounted, HandleInUse, Init
<1>5. ListenIn /\ BatchValid /\ StopsWhenAllClosed
  BY DEF ListenIn, BatchValid, StopsWhenAllClosed, Init
<1> QED
  BY <1>2, <1>3, <1>4, <1>5 DEF IInv

(* Closing a registered session takes exactly it out of the epoll set.     *)
LEMMA CloseOne ==
    ASSUME IInv, NEW f \in Registered, SessionClose(f)
    PROVE  /\ Registered' = Registered \ {f}
           /\ \A g \in Registered' : ep'[g] = ep[g]
           /\ Cardinality(Registered') = nfds - 1
           /\ \A g \in Registered' : peer'[g] = peer[g]
           /\ nfds - 1 = 0 <=> Registered' = {}
<1>1. /\ Registered' = Registered \ {f}
      /\ \A g \in Registered' : ep'[g] = ep[g] /\ peer'[g] = peer[g]
  BY DEF SessionClose, Registered, IInv, TypeOK
<1>2. IsFiniteSet(Registered) /\ IsFiniteSet(Registered')
  <2>1. Registered \subseteq Fds /\ Registered' \subseteq Fds
    BY DEF Registered
  <2> QED
    BY <2>1, FS_Subset
<1>3. Cardinality(Registered') = nfds - 1
  BY <1>1, <1>2, FS_RemoveElement DEF IInv, NfdsExact
<1>4. Cardinality(Registered') = 0 <=> Registered' = {}
  BY <1>2, FS_EmptySet
<1> QED
  BY <1>1, <1>3, <1>4

(* Steps that leave the pool, the epoll set and the set of handles in use  *)
(* alone keep the parts of the invariant that speak of them.               *)
LEMMA Untouched ==
    ASSUME IInv, UNCHANGED <<size, alloc, slot_fd, nfds, ep, leaked>>,
           \A f \in Fds : peer[f] # "none" => peer'[f] # "none"
    PROVE  /\ SlotOwnsSession' /\ NfdsExact' /\ SlotsAccounted' /\ HandleInUse'
           /\ Registered' = Registered
<1>1. Registered' = Registered
  BY DEF Registered
<1> QED
  BY <1>1 DEF IInv, SlotOwnsSession, NfdsExact, SlotsAccounted, HandleInUse,
              Registered

(* The parts of the invariant about the session of a connection: the one   *)
(* registered with slot i is slot_fd[i].                                   *)
LEMMA Owner ==
    ASSUME IInv, NEW i, \E f \in Registered : ep[f] = i
    PROVE  /\ slot_fd[i] \in Registered /\ ep[slot_fd[i]] = i
           /\ i \in alloc /\ i \notin leaked /\ i \in Slots
BY DEF IInv, SlotOwnsSession, Registered, TypeOK

(* A step that closes the session of slot i, with the slot abandoned or    *)
(* freed, keeps the invariant.                                             *)
LEMMA CloseInv ==
    ASSUME IInv, NEW i, \E f \in Registered : ep[f] = i,
           SessionClose(slot_fd[i]), nfds' = NfdsAfterClose, pc' = AfterClose,
           failed' = failed, size' = size, batch' \subseteq batch,
           \A e \in batch' : e.data # i,
           \/ alloc' = alloc /\ slot_fd' = slot_fd /\ leaked' = leaked \cup {i}
           \/ /\ alloc' = alloc \ {i} /\ leaked' = leaked
              /\ slot_fd' = [slot_fd EXCEPT ![i] = NoFd]
    PROVE  /\ SlotOwnsSession' /\ NfdsExact' /\ SlotsAccounted'
           /\ HandleInUse' /\ ListenIn' /\ BatchValid' /\ StopsWhenAllClosed'
<1> DEFINE f == slot_fd[i]
<1>1. f \in Registered /\ ep[f] = i /\ i \in alloc /\ i \notin leaked /\ i \in Slots
  BY Owner
<1>2. /\ Registered' = Registered \ {f}
      /\ \A g \in Registered' : ep'[g] = ep[g] /\ peer'[g] = peer[g]
      /\ nfds' = Cardinality(Registered')
      /\ pc' = "done" => Registered' = {}
      /\ pc' \notin {"read", "write"}
  BY <1>1, CloseOne DEF NfdsAfterClose, AfterClose
<1>3. \A g \in Registered' : g \in Registered /\ ep[g] # i /\ slot_fd[ep[g]] = g
  BY <1>1, <1>2 DEF IInv, SlotOwnsSession
<1>4. SlotOwnsSession'
  <2> SUFFICES ASSUME NEW g \in Registered'
               PROVE  ep'[g] \in alloc' \ leaked' /\ slot_fd'[ep'[g]] = g
    BY DEF SlotOwnsSession
  <2>1. ep'[g] = ep[g] /\ ep[g] # i /\ ep[g] \in alloc \ leaked /\ slot_fd[ep[g]] = g
    BY <1>2, <1>3 DEF IInv, SlotOwnsSession
  <2>2. slot_fd \in [Slots -> Fds \cup {NoFd}] /\ ep[g] \in Slots
    BY <2>1, <1>3, Owner DEF IInv, TypeOK
  <2> QED
    BY <2>1, <2>2
<1>5. SlotsAccounted'
  <2>1. alloc = {ep[g] : g \in Registered} \cup leaked
    BY DEF IInv, SlotsAccounted
  <2>2. {ep'[g] : g \in Registered'} = {ep[g] : g \in Registered} \ {i}
    BY <1>1, <1>2, <1>3
  <2> QED
    BY <1>1, <2>1, <2>2 DEF SlotsAccounted
<1>6. NfdsExact' /\ HandleInUse' /\ StopsWhenAllClosed'
  BY <1>2 DEF NfdsExact, HandleInUse, StopsWhenAllClosed, IInv
<1>7. BatchValid' /\ ListenIn'
  <2>1. \A e \in batch' : e.data # LISTEN => \E g \in Registered' : ep'[g] = e.data
    <3> SUFFICES ASSUME NEW e \in batch', e.data # LISTEN
                 PROVE  \E g \in Registered' : ep'[g] = e.data
      OBVIOUS
    <3>1. PICK g \in Registered : ep[g] = e.data
      BY DEF IInv, BatchValid
    <3>2. g # f
      BY <3>1, <1>1
    <3> QED
      BY <1>2, <3>1, <3>2
  <2> QED
    BY <2>1, <1>2 DEF BatchValid, ListenIn, IInv
<1> QED
  BY <1>4, <1>5, <1>6, <1>7

(* A step that adds a slot to the allocated and to the abandoned ones      *)
(* keeps the invariant.                                                    *)
LEMMA LeakInv ==
    ASSUME IInv, NEW i \in Slots, i \notin alloc,
           alloc' = alloc \cup {i}, leaked' = leaked \cup {i},
           UNCHANGED <<pc, failed, cur, nfds, ep>>, batch' \subseteq batch,
           \/ slot_fd' = slot_fd
           \/ \E f : slot_fd' = [slot_fd EXCEPT ![i] = f],
           \A f \in Fds : peer[f] # "none" => peer'[f] # "none"
    PROVE  /\ SlotOwnsSession' /\ NfdsExact' /\ SlotsAccounted'
           /\ HandleInUse' /\ ListenIn' /\ BatchValid' /\ StopsWhenAllClosed'
<1>1. Registered' = Registered
  BY DEF Registered
<1>2. \A g \in Registered : ep[g] \in alloc /\ ep[g] # i /\ ep[g] \in Slots /\ g \in Fds
  BY DEF IInv, SlotOwnsSession, Registered, TypeOK
<1>3. SlotOwnsSession'
  <2> SUFFICES ASSUME NEW g \in Registered
               PROVE  ep[g] \in alloc' \ leaked' /\ slot_fd'[ep[g]] = g
    BY <1>1 DEF SlotOwnsSession
  <2>1. ep[g] \in alloc \ leaked /\ slot_fd[ep[g]] = g /\ slot_fd \in [Slots -> Fds \cup {NoFd}]
    BY DEF IInv, SlotOwnsSession, TypeOK
  <2> QED
    BY <1>2, <2>1
<1>4. SlotsAccounted'
  BY <1>1 DEF IInv, SlotsAccounted
<1>5. NfdsExact' /\ HandleInUse' /\ StopsWhenAllClosed'
  BY <1>1, <1>2 DEF NfdsExact, HandleInUse, StopsWhenAllClosed, IInv
<1>6. BatchValid' /\ ListenIn'
  BY <1>1 DEF BatchValid, ListenIn, IInv
<1> QED
  BY <1>3, <1>4, <1>5, <1>6

(* Registering a new session with a free slot keeps the invariant.         *)
LEMMA RegisterInv ==
    ASSUME IInv, NEW i \in Slots, i \notin alloc, NEW f \in Fds,
           peer[f] = "none", peer' = [peer EXCEPT ![f] = "up"],
           alloc' = alloc \cup {i}, leaked' = leaked, nfds' = nfds + 1,
           ep' = [ep EXCEPT ![f] = i], slot_fd' = [slot_fd EXCEPT ![i] = f],
           UNCHANGED <<pc, failed, cur>>, pc = "loop", batch' \subseteq batch
    PROVE  /\ SlotOwnsSession' /\ NfdsExact' /\ SlotsAccounted'
           /\ HandleInUse' /\ ListenIn' /\ BatchValid' /\ StopsWhenAllClosed'
<1>1. f \notin Registered
  BY DEF IInv, HandleInUse
<1>2. i # NoSlot
  BY DEF Slots, NoSlot
<1>3. Registered' = Registered \cup {f} /\ ep'[f] = i
      /\ \A g \in Registered : ep'[g] = ep[g] /\ g # f
  BY <1>1, <1>2 DEF Registered, IInv, TypeOK
<1>4. \A g \in Registered : ep[g] \in alloc \ leaked /\ ep[g] # i /\ slot_fd[ep[g]] = g
                            /\ ep[g] \in Slots
  BY DEF IInv, SlotOwnsSession, Registered, TypeOK
<1>5. i \notin leaked
  BY DEF IInv, SlotsAccounted
<1>6. SlotOwnsSession'
  BY <1>3, <1>4, <1>5 DEF SlotOwnsSession, IInv, TypeOK
<1>7. SlotsAccounted'
  <2>1. {ep'[g] : g \in Registered'} = {ep[g] : g \in Registered} \cup {i}
    BY <1>3
  <2> QED
    BY <2>1 DEF IInv, SlotsAccounted
<1>8. NfdsExact'
  <2>1. IsFiniteSet(Registered)
    <3>1. Registered \subseteq Fds
      BY DEF Registered
    <3> QED
      BY <3>1, FS_Subset
  <2> QED
    BY <1>1, <1>3, <2>1, FS_AddElement DEF NfdsExact, IInv
<1>9. HandleInUse' /\ StopsWhenAllClosed'
  BY <1>3 DEF HandleInUse, StopsWhenAllClosed, IInv, Registered, TypeOK
<1>10. BatchValid' /\ ListenIn'
  BY <1>3 DEF BatchValid, ListenIn, IInv
<1> QED
  BY <1>6, <1>7, <1>8, <1>9, <1>10

(* An entry still in the batch is an entry, of the listener or of a slot.  *)
LEMMA EntryType ==
    ASSUME IInv, NEW e \in batch
    PROVE  /\ e \in Entries
           /\ e.data # LISTEN => \E f \in Registered : ep[f] = e.data
           /\ \A x \in batch \ {e} : x.data # e.data
BY DEF IInv, TypeOK, BatchValid

(* Closing a session keeps the types of what it changes.                   *)
LEMMA CloseType ==
    ASSUME TypeOK, NEW f \in Fds, SessionClose(f)
    PROVE  /\ ep' \in [Fds -> Slots \cup {NoSlot}]
           /\ peer' \in [Fds -> {"none", "up", "closed", "reset"}]
           /\ inbox' \in [Fds -> Seq(Msgs)]
           /\ to_send' \in [Fds -> 0..Total] /\ tx' \in [Fds -> 0..TxRoom]
           /\ awaits' \in [Fds -> BOOLEAN]
           /\ backlog' \in Nat /\ conns' \in 0..MaxConns
           /\ swallowed' \subseteq Fds
BY DEF TypeOK, SessionClose

(* conn_pool_alloc returns a slot of the pool, which only grows.           *)
LEMMA AllocType ==
    ASSUME TypeOK, NEW i \in Slots, ConnPoolAlloc(i)
    PROVE  /\ size' \in 1..MaxSlots /\ alloc' \subseteq 0..(size' - 1)
           /\ tainted' \subseteq Slots
           /\ i \notin alloc /\ alloc' = alloc \cup {i}
<1>1. SizeAfterAlloc \in 1..MaxSlots /\ size =< SizeAfterAlloc
  BY DEF TypeOK, SizeAfterAlloc, Expanded
<1> QED
  BY <1>1 DEF TypeOK, ConnPoolAlloc, FirstFree, Slots

(* Every step of the worker keeps the invariant.                           *)
LEMMA WorkerInv == ASSUME IInv, Worker PROVE IInv'
<1> USE DEF pool, conn, clients, history
<1>0. TypeOK
  BY DEF IInv
<1>1. CASE EpollWait
  <2>1. PICK choice \in [ReadyFds -> {"HUP", "ERR", "IN"}] :
             \E b \in SUBSET Ready(choice) : batch' = b
    BY <1>1 DEF EpollWait
  <2>2. /\ batch' \subseteq Ready(choice)
        /\ pc = "loop" /\ UNCHANGED <<pc, failed, cur, pool, conn, nfds, ep,
                                       clients, history>>
    BY <1>1, <2>1 DEF EpollWait
  <2>3. \A e \in Ready(choice) :
           /\ e \in Entries
           /\ e.data = LISTEN => e.events = "IN"
           /\ e.data # LISTEN => \E f \in Registered : ep[f] = e.data
    <3>1. \A f \in ReadyFds : /\ f \in Registered /\ ep[f] \in Slots
                              /\ choice[f] \in {"HUP", "ERR", "IN"}
      BY <1>0 DEF ReadyFds, Registered, TypeOK
    <3>2. LISTEN \notin Slots
      BY DEF LISTEN, Slots
    <3> SUFFICES ASSUME NEW e \in Ready(choice)
                 PROVE  /\ e \in Entries
                        /\ e.data = LISTEN => e.events = "IN"
                        /\ e.data # LISTEN => \E f \in Registered : ep[f] = e.data
      OBVIOUS
    <3>3. CASE e = [data |-> LISTEN, events |-> "IN"]
      BY <3>3 DEF Entries
    <3>4. ASSUME NEW f \in ReadyFds, e = [data |-> ep[f], events |-> choice[f]]
          PROVE  /\ e \in Entries
                 /\ e.data = LISTEN => e.events = "IN"
                 /\ e.data # LISTEN => \E g \in Registered : ep[g] = e.data
      BY <3>1, <3>2, <3>4 DEF Entries
    <3> QED
      BY <3>3, <3>4 DEF Ready
  <2>4. \A e1, e2 \in Ready(choice) : e1.data = e2.data => e1 = e2
    <3>1. \A f, g \in Registered : ep[f] = ep[g] => f = g
      BY DEF IInv, SlotOwnsSession
    <3>2. \A f \in Registered : ep[f] # LISTEN
      BY <1>0 DEF Registered, TypeOK, LISTEN, Slots, NoSlot
    <3> QED
      BY <3>1, <3>2 DEF Ready, ReadyFds
  <2>5. /\ SlotOwnsSession' /\ NfdsExact' /\ SlotsAccounted' /\ HandleInUse'
        /\ Registered' = Registered
    BY <2>2, Untouched
  <2>6. TypeOK'
    BY <1>0, <2>2, <2>3 DEF TypeOK
  <2>7. ListenIn' /\ BatchValid' /\ StopsWhenAllClosed'
    BY <2>2, <2>3, <2>4, <2>5 DEF ListenIn, BatchValid, StopsWhenAllClosed
  <2> QED
    BY <2>5, <2>6, <2>7 DEF IInv
<1>2. CASE EpollFail \/ ReadReset \/ ReadError
  <2>1. /\ UNCHANGED <<batch, cur, pool, conn, nfds, ep, clients, history>>
        /\ \/ pc' = "done" /\ failed' = TRUE
           \/ pc' = "loop" /\ failed' = failed
    BY <1>2 DEF EpollFail, ReadReset, ReadError
  <2>2. /\ SlotOwnsSession' /\ NfdsExact' /\ SlotsAccounted' /\ HandleInUse'
        /\ Registered' = Registered
    BY <2>1, Untouched
  <2>3. TypeOK'
    BY <1>0, <2>1 DEF TypeOK
  <2>4. ListenIn' /\ BatchValid' /\ StopsWhenAllClosed'
    BY <2>1, <2>2 DEF ListenIn, BatchValid, StopsWhenAllClosed, IInv
  <2> QED
    BY <2>2, <2>3, <2>4 DEF IInv
<1>3. ASSUME NEW e \in batch, HandleHup(e) PROVE IInv'
  <2>1. e.data # LISTEN
    BY <1>3 DEF HandleHup, IInv, ListenIn
  <2>2. \E f \in Registered : ep[f] = e.data
    BY <2>1, EntryType
  <2>3. slot_fd[e.data] \in Fds /\ e.data \in Slots
    BY <2>2, Owner DEF Registered
  <2>4. TypeOK'
    <3>1. SessionClose(slot_fd[e.data])
      BY <1>3 DEF HandleHup, HupSession
    <3>2. nfds' \in Int /\ pc' \in {"loop", "read", "write", "done"}
      BY <1>0, <1>3 DEF HandleHup, TypeOK, NfdsAfterClose, AfterClose
    <3> QED
      BY <1>0, <1>3, <2>3, <3>1, <3>2, CloseType DEF HandleHup, TypeOK
  <2>5. \A x \in batch' : x.data # e.data
    BY <1>3, EntryType DEF HandleHup
  <2> QED
    BY <1>3, <2>2, <2>4, <2>5, CloseInv DEF HandleHup, HupSession, IInv
<1>4. ASSUME NEW e \in batch, HandleIn(e) \/ HandleOther(e) \/ NewClientNoSlot(e)
      PROVE  IInv'
  <2>1. /\ UNCHANGED <<pool, conn, nfds, ep, clients, history>>
        /\ batch' \subseteq batch
    BY <1>4 DEF HandleIn, HandleOther, NewClientNoSlot
  <2>2. /\ SlotOwnsSession' /\ NfdsExact' /\ SlotsAccounted' /\ HandleInUse'
        /\ Registered' = Registered
    BY <2>1, Untouched
  <2>3. \/ pc' = "read" /\ cur' = e.data /\ failed' = failed /\ batch' = batch \ {e}
           /\ e.data # LISTEN
        \/ pc' = "done" /\ failed' = TRUE /\ cur' = cur
        \/ pc' = "loop" /\ failed' = failed /\ cur' = cur
    BY <1>4 DEF HandleIn, HandleOther, NewClientNoSlot
  <2>4. TypeOK'
    BY <1>0, <2>1, <2>3, EntryType DEF TypeOK, Entries
  <2>5. ListenIn' /\ BatchValid' /\ StopsWhenAllClosed'
    BY <2>1, <2>2, <2>3, EntryType DEF ListenIn, BatchValid, StopsWhenAllClosed, IInv
  <2> QED
    BY <2>2, <2>4, <2>5 DEF IInv
<1>5. ASSUME NEW e \in batch, NEW i \in Slots, NewClientNoAccept(e, i)
      PROVE  IInv'
  <2>1. ConnPoolAlloc(i)
    BY <1>5 DEF NewClientNoAccept
  <2>2. TypeOK'
    BY <1>0, <1>5, <2>1, AllocType DEF NewClientNoAccept, TypeOK
  <2> QED
    BY <1>0, <1>5, <2>1, <2>2, AllocType, LeakInv DEF NewClientNoAccept, IInv
<1>6. ASSUME NEW e \in batch, NEW i \in Slots, NEW f \in Fds,
             NewClientNoEpoll(e, i, f)
      PROVE  IInv'
  <2>1. ConnPoolAlloc(i) /\ Accept(f)
    BY <1>6 DEF NewClientNoEpoll
  <2>2. TypeOK'
    <3>1. /\ size' \in 1..MaxSlots /\ alloc' \subseteq 0..(size' - 1)
          /\ tainted' \subseteq Slots
      BY <1>0, <2>1, AllocType
    <3>2. /\ slot_fd' \in [Slots -> Fds \cup {NoFd}]
          /\ peer' \in [Fds -> {"none", "up", "closed", "reset"}] /\ backlog' \in Nat
          /\ UNCHANGED <<inbox, to_send, tx, awaits, conns>>
      BY <1>0, <1>6, <2>1 DEF NewClientNoEpoll, Accept, ConnFd, TypeOK
    <3>3. /\ batch' \subseteq Entries /\ leaked' \subseteq Slots
          /\ nfds' \in Int /\ ep' \in [Fds -> Slots \cup {NoSlot}]
          /\ UNCHANGED <<pc, failed, cur, test, rx, swallowed>>
      BY <1>0, <1>6 DEF NewClientNoEpoll, TypeOK
    <3> QED
      BY <1>0, <3>1, <3>2, <3>3 DEF TypeOK
  <2>3. \A g \in Fds : peer[g] # "none" => peer'[g] # "none"
    BY <1>0, <2>1 DEF Accept, TypeOK
  <2> QED
    BY <1>0, <1>6, <2>1, <2>2, <2>3, AllocType, LeakInv
       DEF NewClientNoEpoll, ConnFd, IInv
<1>7. ASSUME NEW e \in batch, NEW i \in Slots, NEW f \in Fds, NewClient(e, i, f)
      PROVE  IInv'
  <2>1. ConnPoolAlloc(i) /\ Accept(f)
    BY <1>7 DEF NewClient
  <2>2. TypeOK'
    <3>1. /\ size' \in 1..MaxSlots /\ alloc' \subseteq 0..(size' - 1)
          /\ tainted' \subseteq Slots
      BY <1>0, <2>1, AllocType
    <3>2. /\ slot_fd' \in [Slots -> Fds \cup {NoFd}]
          /\ peer' \in [Fds -> {"none", "up", "closed", "reset"}] /\ backlog' \in Nat
          /\ UNCHANGED <<inbox, to_send, tx, awaits, conns>>
      BY <1>0, <1>7, <2>1 DEF NewClient, Accept, ConnFd, TypeOK
    <3>3. /\ batch' \subseteq Entries /\ leaked' \subseteq Slots
          /\ nfds' \in Int /\ ep' \in [Fds -> Slots \cup {NoSlot}]
          /\ UNCHANGED <<pc, failed, cur, test, rx, swallowed>>
      BY <1>0, <1>7 DEF NewClient, TypeOK
    <3> QED
      BY <1>0, <3>1, <3>2, <3>3 DEF TypeOK
  <2> QED
    BY <1>0, <1>7, <2>1, <2>2, AllocType, RegisterInv
       DEF NewClient, ConnFd, Accept, IInv
<1>8. ASSUME NEW f \in Fds, NEW m \in Msgs, HandleCfg(f, m) \/ HandleData(f, m)
      PROVE  IInv'
  <2>1. /\ UNCHANGED <<pool, nfds, ep, leaked, failed, batch, cur, peer>>
        /\ pc' \in {"loop", "read", "write"} /\ pc = "read"
    BY <1>8 DEF HandleCfg, HandleData, Reads, AfterData
  <2>2. /\ SlotOwnsSession' /\ NfdsExact' /\ SlotsAccounted' /\ HandleInUse'
        /\ Registered' = Registered
    BY <2>1, Untouched
  <2>3. \A n \in 0..(Total + 1) : Counted(n) \in 0..(Total + 1)
    BY DEF Counted
  <2>4. inbox[f] \in Seq(Msgs) /\ inbox[f] # <<>> => Tail(inbox[f]) \in Seq(Msgs)
    OBVIOUS
  <2>5. TypeOK'
    <3>1. CASE HandleCfg(f, m)
      <4>1. RxAfter(m) \in 0..(Total + 1)
        <5>1. rx[cur] \in 0..(Total + 1)
          BY <1>0 DEF TypeOK
        <5>2. Counted(rx[cur]) \in 0..(Total + 1)
          BY <2>3, <5>1
        <5> QED
          BY <5>2 DEF RxAfter
      <4>2. TestAfter(m) \in {"NONE", "UNI", "BI", "ECHO"}
        BY <1>0, <3>1 DEF TestAfter, Refused, TypeOK, HandleCfg, IsConfig
      <4>3. inbox' \in [Fds -> Seq(Msgs)]
        BY <1>0, <3>1, <2>4 DEF HandleCfg, Reads, TypeOK
      <4>4. awaits' \in [Fds -> BOOLEAN]
        BY <1>0, <3>1, Zenon DEF HandleCfg, Replies, TypeOK
      <4>5. /\ tainted' \subseteq Slots /\ UNCHANGED <<tx, to_send, backlog, conns, swallowed>>
            /\ test' = [test EXCEPT ![cur] = TestAfter(m)]
            /\ rx' = [rx EXCEPT ![cur] = RxAfter(m)]
        BY <1>0, <3>1 DEF HandleCfg, TypeOK
      <4> QED
        BY <1>0, <2>1, <4>1, <4>2, <4>3, <4>4, <4>5 DEF TypeOK
    <3>2. CASE HandleData(f, m)
      <4>0. Consumed(f) \in Seq(Msgs)
        BY <1>0, <3>2, <2>4 DEF HandleData, Reads, Consumed, TypeOK
      <4>1. inbox' \in [Fds -> Seq(Msgs)]
        BY <1>0, <3>2, <4>0 DEF HandleData, TypeOK
      <4> QED
        BY <1>0, <2>1, <2>3, <3>2, <4>1 DEF HandleData, TypeOK
    <3> QED
      BY <1>8, <3>1, <3>2
  <2>6. ListenIn' /\ BatchValid' /\ StopsWhenAllClosed'
    BY <2>1, <2>2 DEF ListenIn, BatchValid, StopsWhenAllClosed, IInv
  <2> QED
    BY <2>2, <2>5, <2>6 DEF IInv
<1>9. ASSUME NEW f \in Fds, HandleExit(f) PROVE IInv'
  <2>1. pc = "read" /\ f = slot_fd[cur]
    BY <1>9 DEF HandleExit, Reads
  <2>2. /\ \E g \in Registered : ep[g] = cur
        /\ \A x \in batch : x.data # cur
    BY <2>1 DEF IInv, BatchValid
  <2>3. TypeOK'
    <3>1. Counted(rx[cur]) \in 0..(Total + 1)
      BY <1>0 DEF Counted, TypeOK
    <3>2. nfds' \in Int /\ pc' \in {"loop", "read", "write", "done"}
      BY <1>0, <1>9 DEF HandleExit, TypeOK, NfdsAfterClose, AfterClose
    <3> QED
      BY <1>0, <1>9, <3>1, <3>2, CloseType DEF HandleExit, Freed, TypeOK
  <2> QED
    BY <1>9, <2>1, <2>2, <2>3, CloseInv DEF HandleExit, Freed, IInv
<1>10. ASSUME NEW f \in Fds, WriteBack(f) PROVE IInv'
  <2>1. /\ UNCHANGED <<pool, conn, nfds, ep, history, failed, batch, cur, peer,
                       inbox, to_send, awaits, backlog, conns>>
        /\ pc' \in {"loop", "read"} /\ pc = "write"
    BY <1>10 DEF WriteBack, AfterData
  <2>2. /\ SlotOwnsSession' /\ NfdsExact' /\ SlotsAccounted' /\ HandleInUse'
        /\ Registered' = Registered
    BY <2>1, Untouched
  <2>3. tx' \in [Fds -> 0..TxRoom]
    BY <1>0, <1>10 DEF WriteBack, HasRoom, TypeOK
  <2>4. TypeOK'
    BY <1>0, <2>1, <2>3 DEF TypeOK
  <2>5. ListenIn' /\ BatchValid' /\ StopsWhenAllClosed'
    BY <2>1, <2>2 DEF ListenIn, BatchValid, StopsWhenAllClosed, IInv
  <2> QED
    BY <2>2, <2>4, <2>5 DEF IInv
<1> QED
  BY <1>1, <1>2, <1>3, <1>4, <1>5, <1>6, <1>7, <1>8, <1>9, <1>10
     DEF Worker, Serve, Dispatch, Read

(* Every step of a client, and a stuttering step, keeps it.                *)
LEMMA ClientInv ==
    ASSUME IInv, Clients \/ UNCHANGED vars
    PROVE  IInv'
<1> USE DEF pool, conn, clients, history
<1>0. TypeOK
  BY DEF IInv
<1>1. /\ UNCHANGED <<pc, failed, batch, cur, pool, conn, nfds, ep, history>>
      /\ \A f \in Fds : peer[f] # "none" => peer'[f] # "none"
  <2>1. CASE UNCHANGED vars \/ Connect
    BY <2>1 DEF vars, Connect
  <2>2. CASE \E f \in Fds : Client(f)
    BY <1>0, <2>2 DEF Client, SendCfg, SendData, ClientRead, ClientGone, TypeOK
  <2> QED
    BY <2>1, <2>2 DEF Clients
<1>2. /\ SlotOwnsSession' /\ NfdsExact' /\ SlotsAccounted' /\ HandleInUse'
      /\ Registered' = Registered
  BY <1>1, Untouched
<1>3. ListenIn' /\ BatchValid' /\ StopsWhenAllClosed'
  BY <1>1, <1>2 DEF ListenIn, BatchValid, StopsWhenAllClosed, IInv
<1>4. TypeOK'
  <2>1. CASE UNCHANGED vars
    BY <1>0, <2>1 DEF vars, TypeOK
  <2>5. CASE Connect
    <3>1. conns' \in 0..MaxConns /\ backlog' \in Nat
      BY <1>0, <2>5 DEF Connect, TypeOK
    <3> QED
      BY <1>0, <2>5, <3>1 DEF Connect, TypeOK
  <2>2. ASSUME NEW f \in Fds, NEW m \in Cfgs, SendCfg(f, m) PROVE TypeOK'
    <3>1. <<m>> \in Seq(Msgs)
      BY DEF Msgs
    <3>2. UnitsAfter(m) \subseteq 0..Total
      BY VclAssumption DEF UnitsAfter
    <3> QED
      BY <1>0, <2>2, <3>1, <3>2 DEF SendCfg, TypeOK
  <2>3. ASSUME NEW f \in Fds, SendData(f) PROVE TypeOK'
    <3>1. Append(inbox[f], "DATA") \in Seq(Msgs)
      BY <1>0 DEF Msgs, TypeOK
    <3> QED
      BY <1>0, <2>3, <3>1 DEF SendData, TypeOK
  <2>4. ASSUME NEW f \in Fds, NEW how \in {"closed", "reset"}, ClientGone(f, how)
        PROVE  TypeOK'
    BY <1>0, <2>4 DEF ClientGone, TypeOK
  <2>6. ASSUME NEW f \in Fds, ClientRead(f) PROVE TypeOK'
    <3>1. tx' \in [Fds -> 0..TxRoom]
      BY <1>0, <2>6 DEF ClientRead, TypeOK
    <3> QED
      BY <1>0, <2>6, <3>1 DEF ClientRead, TypeOK
  <2> QED
    BY <2>1, <2>2, <2>3, <2>4, <2>5, <2>6 DEF Clients, Client
<1> QED
  BY <1>2, <1>3, <1>4 DEF IInv

-----------------------------------------------------------------------------
(* The invariant holds in every reachable state.                           *)
THEOREM Invariance == Spec => []IInv
<1>1. IInv /\ [Next]_vars => IInv'
  BY WorkerInv, ClientInv DEF Next
<1> QED
  BY InitInv, <1>1, PTL DEF Spec

(* The variables keep their types; the pool index of an entry is one of    *)
(* the pool's.                                                             *)
THEOREM TypeCorrect == Spec => []TypeOK
<1>1. IInv => TypeOK
  BY DEF IInv
<1> QED
  BY Invariance, <1>1, PTL

(* conn_pool[data] is always the connection of the session that reported.  *)
THEOREM SlotsCorrect == Spec => []SlotOwnsSession
<1>1. IInv => SlotOwnsSession
  BY DEF IInv
<1> QED
  BY Invariance, <1>1, PTL

(* The entries of wait_events still to be handled, and the conn that       *)
(* read_again goes back to, are of sessions that are open: no handler of   *)
(* an earlier entry has closed one of them.                                *)
THEOREM BatchCorrect == Spec => []BatchValid
<1>1. IInv => BatchValid
  BY DEF IInv
<1> QED
  BY Invariance, <1>1, PTL

(* nfds counts the open sessions, on every path of vts_worker_loop, so the *)
(* worker stops when the last one is closed and not before.                *)
THEOREM NfdsCorrect == Spec => [](NfdsExact /\ StopsWhenAllClosed)
<1>1. IInv => NfdsExact /\ StopsWhenAllClosed
  BY DEF IInv
<1> QED
  BY Invariance, <1>1, PTL

(* Slots are lost on the paths that history records, and on no other.      *)
THEOREM SlotsBalance == Spec => []SlotsAccounted
<1>1. IInv => SlotsAccounted
  BY DEF IInv
<1> QED
  BY Invariance, <1>1, PTL

-----------------------------------------------------------------------------
(* A second inductive invariant, on top of the first, about what clients   *)
(* send and what the worker has counted.                                   *)

(* VCL gives nothing of a closed session to the next one with its handle.  *)
CleanHandles ==
    \A f \in Fds : peer[f] = "none" =>
        inbox[f] = <<>> /\ to_send[f] = 0 /\ ~awaits[f]

(* A configuration is on its way, and the worker will look for one.        *)
CfgPending(f) ==
    /\ awaits[f]
    /\ \E m \in Cfgs : inbox[f] = <<m>> /\ to_send[f] \in UnitsAfter(m)
    /\ ExpectConfig(test[ep[f]], Counted(rx[ep[f]]))

(* Nothing but data is on its way, and of a stream test what was counted,  *)
(* what waits and what is to come make up the whole.                       *)
DataPending(f) ==
    /\ ~awaits[f] /\ \A k \in 1..Len(inbox[f]) : inbox[f][k] = "DATA"
    /\ \/ test[ep[f]] = "ECHO"
       \/ /\ test[ep[f]] = "NONE" /\ rx[ep[f]] = 0
          /\ to_send[f] = 0 /\ inbox[f] = <<>>
       \/ /\ test[ep[f]] \in Streams
          /\ rx[ep[f]] + Len(inbox[f]) + to_send[f] \in {0, Total}

(* On a slot that is not stale the worker's count and its client agree.    *)
InStep ==
    \A f \in Registered : peer[f] # "reset" /\ ep[f] \notin tainted =>
        CfgPending(f) \/ DataPending(f)

CountInv ==
    /\ CleanHandles /\ InStep
    /\ SwallowedOnlyIfStale /\ swallowed \subseteq Registered

LEMMA InitCount == Init => CountInv
<1> SUFFICES ASSUME Init PROVE CountInv
  OBVIOUS
<1>1. Registered = {} /\ swallowed = {}
  BY DEF Init, Registered, NoSlot
<1>2. CleanHandles
  BY DEF Init, CleanHandles
<1> QED
  BY <1>1, <1>2 DEF CountInv, InStep, SwallowedOnlyIfStale

(* A session whose slot and messages a step leaves alone stays in step.    *)
LEMMA SameSession ==
    ASSUME NEW f, CfgPending(f) \/ DataPending(f),
           ep'[f] = ep[f], inbox'[f] = inbox[f], to_send'[f] = to_send[f],
           awaits'[f] = awaits[f], test'[ep[f]] = test[ep[f]],
           rx'[ep[f]] = rx[ep[f]]
    PROVE  CfgPending(f)' \/ DataPending(f)'
<1>1. CfgPending(f) => CfgPending(f)'
  BY DEF CfgPending, ExpectConfig, Counted, UnitsAfter
<1>2. DataPending(f) => DataPending(f)'
  BY DEF DataPending
<1> QED
  BY <1>1, <1>2

(* So do all of them when a step touches none.                             *)
LEMMA SameCount ==
    ASSUME CountInv, tainted \subseteq tainted',
           UNCHANGED <<test, rx, ep, peer, inbox, to_send, awaits, swallowed>>
    PROVE  CountInv'
<1>1. Registered' = Registered
  BY DEF Registered
<1>2. CleanHandles'
  BY DEF CountInv, CleanHandles
<1>3. InStep'
  <2> SUFFICES ASSUME NEW f \in Registered, peer[f] # "reset", ep[f] \notin tainted
               PROVE  CfgPending(f)' \/ DataPending(f)'
    BY <1>1 DEF InStep
  <2>1. CfgPending(f) \/ DataPending(f)
    BY DEF CountInv, InStep
  <2> QED
    BY <2>1, SameSession
<1>4. SwallowedOnlyIfStale' /\ swallowed' \subseteq Registered'
  BY <1>1 DEF CountInv, SwallowedOnlyIfStale
<1> QED
  BY <1>2, <1>3, <1>4 DEF CountInv

(* The same when one session is closed.                                    *)
LEMMA CloseCount ==
    ASSUME IInv, CountInv, NEW f \in Registered, SessionClose(f), tainted' = tainted,
           \A g \in Registered \ {f} : test'[ep[g]] = test[ep[g]] /\ rx'[ep[g]] = rx[ep[g]]
    PROVE  CountInv'
<1>0. TypeOK /\ f \in Fds
  BY DEF IInv, Registered
<1>1. /\ Registered' = Registered \ {f}
      /\ \A g \in Registered' : ep'[g] = ep[g] /\ peer'[g] = peer[g]
  BY CloseOne
<1>2. \A g \in Registered' :
        inbox'[g] = inbox[g] /\ to_send'[g] = to_send[g] /\ awaits'[g] = awaits[g]
  BY <1>0, <1>1 DEF SessionClose, TypeOK, Registered
<1>3. CleanHandles'
  <2> SUFFICES ASSUME NEW g \in Fds, peer'[g] = "none"
               PROVE  inbox'[g] = <<>> /\ to_send'[g] = 0 /\ ~awaits'[g]
    BY DEF CleanHandles
  <2>1. CASE g = f
    BY <1>0, <2>1 DEF SessionClose, TypeOK
  <2>2. CASE g # f
    BY <1>0, <2>2 DEF SessionClose, TypeOK, CountInv, CleanHandles
  <2> QED
    BY <2>1, <2>2
<1>4. InStep'
  <2> SUFFICES ASSUME NEW g \in Registered', peer'[g] # "reset", ep'[g] \notin tainted
               PROVE  CfgPending(g)' \/ DataPending(g)'
    BY DEF InStep
  <2>1. CfgPending(g) \/ DataPending(g)
    BY <1>1 DEF CountInv, InStep
  <2> QED
    BY <1>1, <1>2, <2>1, SameSession
<1>5. SwallowedOnlyIfStale' /\ swallowed' \subseteq Registered'
  BY <1>1 DEF CountInv, SwallowedOnlyIfStale, SessionClose
<1> QED
  BY <1>3, <1>4, <1>5 DEF CountInv

(* A session that is accepted, on a slot that is not stale, has sent       *)
(* nothing of which something was counted.                                 *)
LEMMA AcceptCount ==
    ASSUME IInv, CountInv, NEW i \in Slots, NEW f \in Fds,
           ConnPoolAlloc(i), Accept(f), UNCHANGED <<test, rx, swallowed>>,
           ep' = ep \/ ep' = [ep EXCEPT ![f] = i]
    PROVE  CountInv'
<1>0. TypeOK /\ i # NoSlot
  BY DEF IInv, Slots, NoSlot
<1>1. tainted \subseteq tainted' /\ (i \notin tainted' => rx[i] = 0)
  BY DEF ConnPoolAlloc
<1>2. /\ UNCHANGED <<inbox, to_send, awaits>> /\ f \notin Registered
      /\ inbox[f] = <<>> /\ to_send[f] = 0 /\ ~awaits[f]
  BY DEF Accept, CountInv, CleanHandles, IInv, HandleInUse
<1>3. \A g \in Fds \ {f} : ep'[g] = ep[g] /\ peer'[g] = peer[g]
  BY <1>0 DEF Accept, TypeOK
<1>4. CleanHandles'
  BY <1>2, <1>3 DEF CleanHandles, CountInv
<1>5. Registered \subseteq Registered' /\ Registered' \subseteq Registered \cup {f}
  BY <1>2, <1>3 DEF Registered
<1>6. InStep'
  <2> SUFFICES ASSUME NEW g \in Registered', peer'[g] # "reset", ep'[g] \notin tainted'
               PROVE  CfgPending(g)' \/ DataPending(g)'
    BY DEF InStep
  <2>1. CASE g # f
    <3>1. g \in Registered /\ ep'[g] = ep[g] /\ peer'[g] = peer[g]
      BY <1>3, <1>5, <2>1 DEF Registered
    <3>2. CfgPending(g) \/ DataPending(g)
      BY <1>1, <3>1 DEF CountInv, InStep
    <3> QED
      BY <1>2, <3>1, <3>2, SameSession
  <2>2. CASE g = f
    <3>1. ep'[f] = i
      BY <1>0, <1>2, <2>2 DEF Registered, TypeOK
    <3>2. rx'[i] = 0 /\ test'[i] \in {"NONE", "UNI", "BI", "ECHO"}
      BY <1>0, <1>1, <2>2, <3>1 DEF TypeOK
    <3>3. inbox'[f] = <<>> /\ to_send'[f] = 0 /\ ~awaits'[f] /\ Len(<<>>) = 0
      BY <1>2
    <3>4. DataPending(f)'
      BY <3>1, <3>2, <3>3 DEF DataPending, Streams
    <3> QED
      BY <2>2, <3>4
  <2> QED
    BY <2>1, <2>2
<1>7. SwallowedOnlyIfStale' /\ swallowed' \subseteq Registered'
  BY <1>1, <1>2, <1>3, <1>5 DEF CountInv, SwallowedOnlyIfStale, Registered
<1> QED
  BY <1>4, <1>6, <1>7 DEF CountInv

(* A step of one open session f, on its own slot: it is enough that f      *)
(* stays in step.                                                          *)
LEMMA OneSession ==
    ASSUME IInv, CountInv, NEW f \in Fds, tainted \subseteq tainted', ep' = ep,
           peer[f] # "none", peer'[f] # "none",
           \A g \in Fds \ {f} : /\ peer'[g] = peer[g] /\ inbox'[g] = inbox[g]
                                /\ to_send'[g] = to_send[g] /\ awaits'[g] = awaits[g],
           \A g \in Registered \ {f} : test'[ep[g]] = test[ep[g]] /\ rx'[ep[g]] = rx[ep[g]],
           f \in Registered /\ peer'[f] # "reset" /\ ep[f] \notin tainted'
               => CfgPending(f)' \/ DataPending(f)',
           \/ swallowed' = swallowed
           \/ /\ swallowed' = swallowed \cup {f}
              /\ f \in Registered /\ ep[f] \in tainted
    PROVE  CountInv'
<1>1. Registered' = Registered /\ Registered \subseteq Fds
  BY DEF Registered
<1>2. CleanHandles'
  BY DEF CleanHandles, CountInv
<1>3. InStep'
  <2> SUFFICES ASSUME NEW g \in Registered, peer'[g] # "reset", ep[g] \notin tainted'
               PROVE  CfgPending(g)' \/ DataPending(g)'
    BY <1>1 DEF InStep
  <2>1. CASE g # f
    <3>1. CfgPending(g) \/ DataPending(g)
      BY <1>1, <2>1 DEF CountInv, InStep
    <3> QED
      BY <1>1, <2>1, <3>1, SameSession
  <2> QED
    BY <2>1
<1>4. SwallowedOnlyIfStale' /\ swallowed' \subseteq Registered'
  BY <1>1 DEF CountInv, SwallowedOnlyIfStale
<1> QED
  BY <1>2, <1>3, <1>4 DEF CountInv

(* A unit that moves from one account to another leaves the sum as it was. *)
LEMMA UnitMoves ==
    ASSUME NEW a \in Nat, NEW b \in Nat, NEW c \in Nat
    PROVE  (a + 1) + (b - 1) + c = a + b + c
OBVIOUS

(* What is read at read_again is of the session of slot cur, which shares  *)
(* its slot with no other.                                                 *)
LEMMA Reading ==
    ASSUME IInv, NEW f, NEW m, Reads(f, m)
    PROVE  /\ f \in Registered /\ f \in Fds /\ ep[f] = cur /\ cur \in Slots
           /\ peer[f] \in {"up", "closed"}
           /\ inbox[f] \in Seq(Msgs) /\ inbox[f] # <<>> /\ m = Head(inbox[f])
           /\ \A g \in Registered \ {f} : ep[g] # cur /\ ep[g] \in Slots
<1>1. \E g \in Registered : ep[g] = cur
  BY DEF IInv, BatchValid, Reads
<1>2. f \in Registered /\ ep[f] = cur /\ cur \in Slots
  BY <1>1, Owner DEF Reads
<1>3. \A g \in Registered : slot_fd[ep[g]] = g /\ ep[g] \in Slots
  BY DEF IInv, SlotOwnsSession, TypeOK, Registered
<1> QED
  BY <1>2, <1>3 DEF Reads, IInv, TypeOK, Registered

(* A configuration that is expected starts a new count or an echo test,    *)
(* unless it clears nothing, which makes the slot stale.                   *)
LEMMA CfgCount ==
    ASSUME IInv, CountInv, NEW f \in Fds, NEW m \in Msgs, HandleCfg(f, m)
    PROVE  CountInv'
<1>0. TypeOK
  BY DEF IInv
<1>1. Reads(f, m)
  BY DEF HandleCfg
<1>2. /\ f \in Registered /\ ep[f] = cur /\ cur \in Slots
      /\ peer[f] \in {"up", "closed"}
      /\ inbox[f] \in Seq(Msgs) /\ inbox[f] # <<>> /\ m = Head(inbox[f])
      /\ \A g \in Registered \ {f} : ep[g] # cur /\ ep[g] \in Slots
  BY <1>1, Reading
<1>3. /\ UNCHANGED <<ep, peer, to_send, swallowed>>
      /\ tainted \subseteq tainted' /\ (m \in KeepsCount => cur \in tainted')
      /\ m \in Cfgs /\ m # "EXIT"
  BY DEF HandleCfg, IsConfig
<1>4. \A g \in Fds \ {f} : inbox'[g] = inbox[g] /\ awaits'[g] = awaits[g]
  BY <1>0 DEF HandleCfg, TypeOK
<1>5. \A g \in Registered \ {f} : test'[ep[g]] = test[ep[g]] /\ rx'[ep[g]] = rx[ep[g]]
  BY <1>0, <1>2 DEF HandleCfg, TypeOK
<1>6. ASSUME ep[f] \notin tainted' PROVE DataPending(f)'
  <2>1. m \in {"UNI", "BI", "ECHO"} /\ ep[f] \notin tainted
    BY <1>2, <1>3, <1>6, VclAssumption DEF KeepsCount, Refused
  <2>2. CfgPending(f) \/ DataPending(f)
    BY <1>2, <2>1 DEF CountInv, InStep
  <2>3. inbox[f][1] = m /\ 1 \in 1..Len(inbox[f])
    BY <1>2
  <2>4. ~DataPending(f)
    BY <1>3, <2>3, VclAssumption DEF DataPending
  <2>5. inbox[f] = <<m>> /\ to_send[f] \in UnitsAfter(m)
    BY <2>2, <2>3, <2>4 DEF CfgPending
  <2>6. inbox'[f] = <<>> /\ Len(inbox'[f]) = 0
    BY <1>0, <2>5 DEF HandleCfg, TypeOK
  <2>9. ~awaits'[f]
    BY <1>0, <2>1 DEF HandleCfg, Replies, TypeOK
  <2>7. test'[cur] = m /\ (m \in Streams => rx'[cur] = 0)
    BY <1>0, <1>2, <2>1 DEF HandleCfg, TypeOK, TestAfter, Refused, RxAfter
  <2>8. m \in Streams => to_send[f] \in {0, Total}
    BY <2>5, StreamAssumption DEF UnitsAfter
  <2> QED
    BY <1>2, <1>3, <2>1, <2>6, <2>7, <2>8, <2>9, VclAssumption DEF DataPending, Streams
<1> QED
  BY <1>2, <1>3, <1>4, <1>5, <1>6, OneSession

(* Data moves from what waits to what was counted; a configuration is      *)
(* taken for data only on a stale slot.                                    *)
LEMMA DataCount ==
    ASSUME IInv, CountInv, NEW f \in Fds, NEW m \in Msgs, HandleData(f, m)
    PROVE  CountInv'
<1>0. TypeOK
  BY DEF IInv
<1>1. Reads(f, m)
  BY DEF HandleData
<1>2. /\ f \in Registered /\ ep[f] = cur /\ cur \in Slots
      /\ peer[f] \in {"up", "closed"}
      /\ inbox[f] \in Seq(Msgs) /\ inbox[f] # <<>> /\ m = Head(inbox[f])
      /\ \A g \in Registered \ {f} : ep[g] # cur /\ ep[g] \in Slots
  BY <1>1, Reading
<1>3. /\ UNCHANGED <<ep, peer, to_send, awaits, test, tainted>>
      /\ swallowed' = IF m \in Cfgs THEN swallowed \cup {f} ELSE swallowed
  BY DEF HandleData
<1>4. \A g \in Fds \ {f} : inbox'[g] = inbox[g]
  BY <1>0 DEF HandleData, TypeOK
<1>5. \A g \in Registered \ {f} : test'[ep[g]] = test[ep[g]] /\ rx'[ep[g]] = rx[ep[g]]
  BY <1>0, <1>2 DEF HandleData, TypeOK
<1>6. ASSUME ep[f] \notin tainted PROVE m \notin Cfgs /\ DataPending(f)'
  <2>1. CfgPending(f) \/ DataPending(f)
    BY <1>2, <1>6 DEF CountInv, InStep
  <2>2. inbox[f][1] = m /\ 1 \in 1..Len(inbox[f])
    BY <1>2
  <2>3. ~CfgPending(f)
    BY <1>2, <2>2 DEF CfgPending, HandleData, IsConfig
  <2>4. DataPending(f) /\ m = "DATA"
    BY <2>1, <2>2, <2>3 DEF DataPending
  <2>5. m \notin Cfgs
    BY <2>4, VclAssumption
  <2>6. inbox'[f] \in {inbox[f], Tail(inbox[f])}
        /\ (test[cur] \in Streams => inbox'[f] = Tail(inbox[f]))
    BY <1>0 DEF HandleData, Consumed, TypeOK
  <2>7. /\ Len(Tail(inbox[f])) = Len(inbox[f]) - 1 /\ Len(inbox[f]) \in Nat \ {0}
        /\ \A k \in 1..(Len(inbox[f]) - 1) : Tail(inbox[f])[k] = inbox[f][k + 1]
    BY <1>2
  <2>8. \A k \in 1..Len(inbox'[f]) : inbox'[f][k] = "DATA"
    BY <2>4, <2>6, <2>7 DEF DataPending
  <2>9. ASSUME test[cur] \in Streams
        PROVE  rx'[cur] + Len(inbox'[f]) + to_send'[f] \in {0, Total}
    <3>1. rx[cur] + Len(inbox[f]) + to_send[f] \in {0, Total}
      BY <1>2, <2>4, <2>9 DEF DataPending, Streams
    <3>2. rx[cur] \in Nat /\ to_send[f] \in Nat
      BY <1>0, <1>2 DEF TypeOK
    <3>3. rx[cur] =< Total - 1
      BY <2>7, <3>1, <3>2, VclAssumption
    <3>4. rx'[cur] = rx[cur] + 1
      BY <1>0, <1>2, <3>2, <3>3, VclAssumption DEF HandleData, Counted, TypeOK
    <3>5. Len(inbox'[f]) = Len(inbox[f]) - 1
      BY <2>6, <2>7, <2>9
    <3>6. (rx[cur] + 1) + (Len(inbox[f]) - 1) + to_send[f]
              = rx[cur] + Len(inbox[f]) + to_send[f]
      BY <2>7, <3>2, UnitMoves
    <3> QED
      BY <1>3, <3>1, <3>4, <3>5, <3>6, Zenon
  <2>10. test[cur] \in Streams \/ test[cur] = "ECHO"
    BY <1>2, <2>4 DEF DataPending
  <2>11. DataPending(f)'
    BY <1>2, <1>3, <2>4, <2>8, <2>9, <2>10 DEF DataPending
  <2> QED
    BY <2>5, <2>11
<1> QED
  BY <1>2, <1>3, <1>4, <1>5, <1>6, OneSession

(* What a client with nothing under way sends is what the worker expects.  *)
LEMMA SendCount ==
    ASSUME IInv, CountInv, NEW f \in Fds, Client(f)
    PROVE  CountInv'
<1> USE DEF pool, conn, clients, history
<1>0. TypeOK
  BY DEF IInv
<1>1. /\ UNCHANGED <<ep, test, rx, tainted, swallowed>> /\ peer[f] = "up"
      /\ peer'[f] # "none"
      /\ \A g \in Fds \ {f} : /\ peer'[g] = peer[g] /\ inbox'[g] = inbox[g]
                             /\ to_send'[g] = to_send[g] /\ awaits'[g] = awaits[g]
  BY <1>0 DEF Client, SendCfg, SendData, ClientRead, ClientGone, TypeOK
<1>2. ASSUME f \in Registered, peer'[f] # "reset", ep[f] \notin tainted
      PROVE  CfgPending(f)' \/ DataPending(f)'
  <2>0. CfgPending(f) \/ DataPending(f)
    BY <1>1, <1>2 DEF CountInv, InStep
  <2>1. ASSUME NEW m \in Cfgs, SendCfg(f, m) PROVE CfgPending(f)'
    <3>1. ~awaits[f] /\ to_send[f] = 0 /\ inbox[f] = <<>> /\ Len(<<>>) = 0
      BY <2>1 DEF SendCfg
    <3>2. DataPending(f)
      BY <2>0, <3>1 DEF CfgPending
    <3>3. rx[ep[f]] \in 0..(Total + 1) /\ ep[f] \in Slots
      BY <1>0, <1>2 DEF TypeOK, Registered
    <3>4. test[ep[f]] = "ECHO" \/ rx[ep[f]] \in {0, Total}
      BY <3>1, <3>2, <3>3 DEF DataPending
    <3>5. ExpectConfig(test[ep[f]], Counted(rx[ep[f]]))
      BY <3>3, <3>4, VclAssumption, StreamAssumption DEF ExpectConfig, Counted
    <3>6. awaits'[f] /\ inbox'[f] = <<m>> /\ to_send'[f] \in UnitsAfter(m)
      BY <1>0, <2>1 DEF SendCfg, TypeOK
    <3> QED
      BY <1>1, <3>5, <3>6 DEF CfgPending, ExpectConfig, Counted, UnitsAfter
  <2>2. ASSUME SendData(f) PROVE DataPending(f)'
    <3>1. ~awaits[f] /\ to_send[f] > 0 /\ to_send[f] \in Nat /\ awaits' = awaits
      BY <1>0, <2>2 DEF SendData, TypeOK
    <3>2. DataPending(f)
      BY <2>0, <3>1 DEF CfgPending
    <3>3. inbox[f] \in Seq(Msgs) /\ inbox'[f] = Append(inbox[f], "DATA")
          /\ to_send'[f] = to_send[f] - 1
      BY <1>0, <2>2 DEF SendData, TypeOK
    <3>4. /\ Len(inbox'[f]) = Len(inbox[f]) + 1 /\ Len(inbox[f]) \in Nat
          /\ inbox'[f][Len(inbox[f]) + 1] = "DATA"
          /\ \A k \in 1..Len(inbox[f]) : inbox'[f][k] = inbox[f][k]
      BY <3>3
    <3>5. \A k \in 1..Len(inbox'[f]) : inbox'[f][k] = "DATA"
      BY <3>2, <3>4 DEF DataPending
    <3>6. rx[ep[f]] \in Nat
      BY <1>0, <1>2 DEF TypeOK, Registered
    <3>7. \/ test[ep[f]] = "ECHO"
          \/ /\ test[ep[f]] \in Streams
             /\ rx[ep[f]] + Len(inbox[f]) + to_send[f] \in {0, Total}
      BY <3>1, <3>2 DEF DataPending
    <3>8. rx[ep[f]] + Len(inbox'[f]) + to_send'[f] = rx[ep[f]] + Len(inbox[f]) + to_send[f]
      <4> DEFINE a == rx[ep[f]]
                 b == Len(inbox[f])
                 c == to_send[f]
      <4>1. a \in Nat /\ b \in Nat /\ c \in Nat
        BY <3>1, <3>4, <3>6
      <4>2. Len(inbox'[f]) = b + 1 /\ to_send'[f] = c - 1
        BY <3>3, <3>4
      <4> HIDE DEF a, b, c
      <4>3. a + (b + 1) + (c - 1) = a + b + c
        BY <4>1
      <4>4. a + Len(inbox'[f]) + to_send'[f] = a + b + c
        BY <4>2, <4>3
      <4> QED
        BY <4>4 DEF a, b, c
    <3> QED
      BY <1>1, <3>1, <3>5, <3>7, <3>8 DEF DataPending
  <2>3. ASSUME NEW how \in {"closed", "reset"}, ClientGone(f, how)
        PROVE  CfgPending(f)' \/ DataPending(f)'
    <3>1. how = "closed" /\ inbox'[f] = inbox[f] /\ UNCHANGED <<to_send, awaits>>
      BY <1>0, <1>2, <2>3 DEF ClientGone, TypeOK
    <3> QED
      BY <1>1, <2>0, <3>1, SameSession
  <2>4. ASSUME ClientRead(f) PROVE CfgPending(f)' \/ DataPending(f)'
    BY <1>1, <2>0, <2>4, SameSession DEF ClientRead
  <2> QED
    BY <2>1, <2>2, <2>3, <2>4 DEF Client
<1> QED
  BY <1>1, <1>2, OneSession

LEMMA StepCount == IInv /\ CountInv /\ [Next]_vars => CountInv'
<1> SUFFICES ASSUME IInv, CountInv, [Next]_vars PROVE CountInv'
  OBVIOUS
<1> USE DEF pool, conn, clients, history
<1>0. TypeOK
  BY DEF IInv
<1>1. CASE EpollWait \/ EpollFail \/ ReadReset \/ ReadError \/ Connect \/ UNCHANGED vars
  BY <1>1, SameCount DEF EpollWait, EpollFail, ReadReset, ReadError, Connect, vars
<1>2. ASSUME NEW e \in batch, HandleIn(e) \/ HandleOther(e) \/ NewClientNoSlot(e)
      PROVE  CountInv'
  BY <1>2, SameCount DEF HandleIn, HandleOther, NewClientNoSlot
<1>3. ASSUME NEW e \in batch, NEW i \in Slots, NewClientNoAccept(e, i)
      PROVE  CountInv'
  <2>1. tainted \subseteq tainted'
    BY <1>3 DEF NewClientNoAccept, ConnPoolAlloc
  <2> QED
    BY <1>3, <2>1, SameCount DEF NewClientNoAccept
<1>4. ASSUME NEW e \in batch, NEW i \in Slots, NEW f \in Fds,
             NewClient(e, i, f) \/ NewClientNoEpoll(e, i, f)
      PROVE  CountInv'
  BY <1>4, AcceptCount DEF NewClient, NewClientNoEpoll
<1>5. ASSUME NEW e \in batch, HandleHup(e) PROVE CountInv'
  <2>1. e.data # LISTEN
    BY <1>5 DEF HandleHup, IInv, ListenIn
  <2>2. slot_fd[e.data] \in Registered
    BY <2>1, EntryType, Owner
  <2> QED
    BY <1>5, <2>2, CloseCount DEF HandleHup, HupSession
<1>6. ASSUME NEW f \in Fds, HandleExit(f) PROVE CountInv'
  <2>1. /\ f \in Registered /\ ep[f] = cur /\ cur \in Slots
        /\ \A g \in Registered \ {f} : ep[g] # cur /\ ep[g] \in Slots
    BY <1>6, Reading DEF HandleExit
  <2>2. \A g \in Registered \ {f} : test'[ep[g]] = test[ep[g]] /\ rx'[ep[g]] = rx[ep[g]]
    BY <1>0, <1>6, <2>1 DEF HandleExit, TypeOK
  <2> QED
    BY <1>6, <2>1, <2>2, CloseCount DEF HandleExit
<1>7. ASSUME NEW f \in Fds, WriteBack(f) PROVE CountInv'
  BY <1>7, SameCount DEF WriteBack
<1> QED
  BY <1>1, <1>2, <1>3, <1>4, <1>5, <1>6, <1>7, CfgCount, DataCount, SendCount
     DEF Next, Worker, Serve, Dispatch, Read, Clients

(* Whatever clients do, a configuration is taken for data on stale slots   *)
(* only: vts_conn_expect_config guesses right as long as conn->stats are   *)
(* those of the connection.                                                *)
THEOREM SwallowedCorrect == Spec => []SwallowedOnlyIfStale
<1>1. CountInv => SwallowedOnlyIfStale
  BY DEF CountInv
<1> QED
  BY Invariance, InitCount, StepCount, <1>1, PTL DEF Spec

-----------------------------------------------------------------------------
(* The refinement of WorkerService, from a third invariant about what      *)
(* clients have sent and what epoll has reported.                          *)

(* A configuration is alone in its session, and its client waits.          *)
Alone(f) ==
    \/ \A k \in 1..Len(inbox[f]) : inbox[f][k] = "DATA"
    \/ awaits[f] /\ \E m \in Cfgs : inbox[f] = <<m>>

CfgAlone == \A f \in Fds : Alone(f)

Gone == {f \in Fds : peer[f] \in {"closed", "reset"}}

(* A hang-up that was reported is that of the session the entry leads to.  *)
HupGone ==
    \A e \in batch, f \in Registered : e.events = "HUP" /\ ep[f] = e.data => f \in Gone

SentInv == CfgAlone /\ HupGone

LEMMA InitSent == Init => SentInv
<1> SUFFICES ASSUME Init PROVE SentInv
  OBVIOUS
<1>1. CfgAlone
  BY DEF Init, CfgAlone, Alone
<1>2. HupGone
  BY DEF Init, HupGone
<1> QED
  BY <1>1, <1>2 DEF SentInv

(* A step on one session leaves the messages of the others alone.          *)
LEMMA OthersAlone ==
    ASSUME CfgAlone, NEW f \in Fds, Alone(f)',
           \A g \in Fds \ {f} : inbox'[g] = inbox[g] /\ awaits'[g] = awaits[g]
    PROVE  CfgAlone'
<1> SUFFICES ASSUME NEW g \in Fds \ {f} PROVE Alone(g)'
  BY DEF CfgAlone
<1>1. Alone(g)
  BY DEF CfgAlone
<1> QED
  BY <1>1 DEF Alone

LEMMA NoneLeft ==
    ASSUME NEW f, inbox'[f] = <<>>
    PROVE  Alone(f)'
BY DEF Alone

LEMMA SameMessages ==
    ASSUME CfgAlone, UNCHANGED <<inbox, awaits>>
    PROVE  CfgAlone'
<1> SUFFICES ASSUME NEW f \in Fds PROVE Alone(f)'
  BY DEF CfgAlone
<1>1. Alone(f)
  BY DEF CfgAlone
<1> QED
  BY <1>1 DEF Alone

(* Who is gone stays gone, as long as the session is watched.              *)
LEMMA SameGone ==
    ASSUME HupGone, batch' \subseteq batch, Registered' \subseteq Registered,
           \A f \in Registered' : ep'[f] = ep[f] /\ (f \in Gone => f \in Gone')
    PROVE  HupGone'
BY DEF HupGone

(* The configuration at the head of a session is all there is in it.       *)
LEMMA CfgRead ==
    ASSUME IInv, CfgAlone, NEW f, NEW m \in Cfgs, Reads(f, m)
    PROVE  awaits[f] /\ inbox[f] = <<m>> /\ Tail(inbox[f]) = <<>>
<1>1. /\ f \in Fds /\ inbox[f] \in Seq(Msgs) /\ inbox[f] # <<>> /\ m = Head(inbox[f])
  BY Reading
<1>2. inbox[f][1] = m /\ 1 \in 1..Len(inbox[f]) /\ m # "DATA"
  BY <1>1, VclAssumption
<1>3. awaits[f] /\ \E c \in Cfgs : inbox[f] = <<c>>
  BY <1>1, <1>2 DEF CfgAlone, Alone
<1>4. PICK c \in Cfgs : inbox[f] = <<c>>
  BY <1>3
<1>5. c = m
  BY <1>2, <1>4
<1> QED
  BY <1>3, <1>4, <1>5

(* Reading data leaves data, or what was there.                            *)
LEMMA DataRead ==
    ASSUME IInv, CfgAlone, NEW f \in Fds, NEW m \in Msgs, HandleData(f, m)
    PROVE  Alone(f)'
<1>1. inbox'[f] \in {inbox[f], Tail(inbox[f])} /\ awaits' = awaits
  BY DEF HandleData, Consumed, IInv, TypeOK
<1>2. inbox[f] \in Seq(Msgs) /\ inbox[f] # <<>> /\ m = Head(inbox[f])
  BY Reading DEF HandleData
<1>3. CASE inbox'[f] = inbox[f]
  BY <1>1, <1>3 DEF CfgAlone, Alone
<1>4. CASE inbox'[f] = Tail(inbox[f])
  <2>1. CASE m \in Cfgs
    <3>1. Tail(inbox[f]) = <<>>
      BY <2>1, CfgRead DEF HandleData
    <3> QED
      BY <1>4, <3>1, NoneLeft
  <2>2. CASE m \notin Cfgs
    <3>1. inbox[f][1] = m
      BY <1>2
    <3>2. \A k \in 1..Len(inbox[f]) : inbox[f][k] = "DATA"
      BY <2>2, <3>1 DEF CfgAlone, Alone
    <3>3. /\ Len(Tail(inbox[f])) = Len(inbox[f]) - 1 /\ Len(inbox[f]) \in Nat \ {0}
          /\ \A k \in 1..(Len(inbox[f]) - 1) : Tail(inbox[f])[k] = inbox[f][k + 1]
      BY <1>2
    <3> QED
      BY <1>4, <3>2, <3>3 DEF Alone
  <2> QED
    BY <2>1, <2>2
<1> QED
  BY <1>1, <1>3, <1>4

LEMMA StepSent ==
    ASSUME IInv, SentInv, [Next]_vars
    PROVE  SentInv'
<1> USE DEF pool, conn, clients, history
<1>0. TypeOK /\ CfgAlone /\ HupGone
  BY DEF IInv, SentInv
<1>1. CASE EpollWait
  <2>1. UNCHANGED <<inbox, awaits, peer, ep>> /\ Registered' = Registered /\ Gone' = Gone
    BY <1>1 DEF EpollWait, Registered, Gone
  <2>2. PICK choice \in [ReadyFds -> {"HUP", "ERR", "IN"}] :
           /\ \A f \in ReadyFds : choice[f] \in Events(f)
           /\ \E b \in SUBSET Ready(choice) : batch' = b
    BY <1>1 DEF EpollWait
  <2>3. \A f, g \in Registered : ep[f] = ep[g] => f = g
    BY DEF IInv, SlotOwnsSession
  <2>4. HupGone'
    <3> SUFFICES ASSUME NEW e \in batch', NEW f \in Registered,
                        e.events = "HUP", ep[f] = e.data
                 PROVE  f \in Gone
      BY <2>1 DEF HupGone
    <3>1. e \in Ready(choice)
      BY <2>2
    <3>2. PICK g \in ReadyFds : e = [data |-> ep[g], events |-> choice[g]]
      BY <3>1 DEF Ready
    <3>3. g = f /\ "HUP" \in Events(f) /\ f \in Fds
      BY <2>2, <2>3, <3>2 DEF ReadyFds, Registered
    <3> QED
      BY <3>3 DEF Events, Gone
  <2> QED
    BY <1>0, <2>1, <2>4, SameMessages DEF SentInv
<1>2. CASE EpollFail \/ ReadReset \/ ReadError \/ Connect \/ UNCHANGED vars
  <2>1. UNCHANGED <<batch, inbox, awaits, peer, ep>>
    BY <1>2 DEF EpollFail, ReadReset, ReadError, Connect, vars
  <2>2. Registered' = Registered /\ Gone' = Gone
    BY <2>1 DEF Registered, Gone
  <2> QED
    BY <1>0, <2>1, <2>2, SameMessages, SameGone DEF SentInv
<1>3. ASSUME NEW e \in batch,
             \/ HandleIn(e) \/ HandleOther(e) \/ NewClientNoSlot(e)
             \/ \E i \in Slots : NewClientNoAccept(e, i)
      PROVE  SentInv'
  <2>1. UNCHANGED <<inbox, awaits, peer, ep>> /\ batch' \subseteq batch
    BY <1>3 DEF HandleIn, HandleOther, NewClientNoSlot, NewClientNoAccept
  <2>2. Registered' = Registered /\ Gone' = Gone
    BY <2>1 DEF Registered, Gone
  <2> QED
    BY <1>0, <2>1, <2>2, SameMessages, SameGone DEF SentInv
<1>4. ASSUME NEW e \in batch, NEW i \in Slots, NEW f \in Fds,
             NewClient(e, i, f) \/ NewClientNoEpoll(e, i, f)
      PROVE  SentInv'
  <2>1. /\ UNCHANGED <<inbox, awaits>> /\ batch' \subseteq batch
        /\ peer[f] = "none" /\ peer' = [peer EXCEPT ![f] = "up"]
        /\ i \notin alloc /\ (ep' = ep \/ ep' = [ep EXCEPT ![f] = i])
    BY <1>4 DEF NewClient, NewClientNoEpoll, Accept, ConnPoolAlloc, FirstFree
  <2>2. \A x \in batch : x.data # i
    <3>1. LISTEN \notin Slots
      BY DEF LISTEN, Slots
    <3> QED
      BY <2>1, <3>1, Owner DEF IInv, BatchValid
  <2>3. \A g \in Registered' :
           \/ g \in Registered /\ ep'[g] = ep[g] /\ (g \in Gone => g \in Gone')
           \/ ep'[g] = i
    BY <1>0, <2>1 DEF Registered, Gone, TypeOK
  <2>4. HupGone'
    BY <1>0, <2>1, <2>2, <2>3 DEF HupGone
  <2> QED
    BY <1>0, <2>1, <2>4, SameMessages DEF SentInv
<1>5. ASSUME NEW f \in Registered, SessionClose(f), batch' \subseteq batch
      PROVE  SentInv'
  <2>1. /\ Registered' = Registered \ {f}
        /\ \A g \in Registered' : ep'[g] = ep[g] /\ peer'[g] = peer[g]
    BY <1>5, CloseOne
  <2>2. \A g \in Registered' : g \in Gone => g \in Gone'
    BY <2>1 DEF Gone
  <2>3. f \in Fds /\ inbox'[f] = <<>>
        /\ \A g \in Fds \ {f} : inbox'[g] = inbox[g] /\ awaits'[g] = awaits[g]
    BY <1>0, <1>5 DEF SessionClose, TypeOK, Registered
  <2>4. CfgAlone'
    BY <1>0, <2>3, NoneLeft, OthersAlone
  <2>5. HupGone'
    BY <1>0, <1>5, <2>1, <2>2, SameGone
  <2> QED
    BY <2>4, <2>5 DEF SentInv
<1>6. ASSUME NEW e \in batch, HandleHup(e) PROVE SentInv'
  <2>1. e.data # LISTEN
    BY <1>6 DEF HandleHup, IInv, ListenIn
  <2>2. slot_fd[e.data] \in Registered
    BY <2>1, EntryType, Owner
  <2> QED
    BY <1>5, <1>6, <2>2 DEF HandleHup, HupSession
<1>7. ASSUME NEW f \in Fds, HandleExit(f) PROVE SentInv'
  BY <1>5, <1>7, Reading DEF HandleExit
<1>8. ASSUME NEW f \in Fds, NEW m \in Msgs, HandleCfg(f, m) \/ HandleData(f, m)
      PROVE  SentInv'
  <2>1. UNCHANGED <<batch, ep, peer>>
        /\ \A g \in Fds \ {f} : inbox'[g] = inbox[g] /\ awaits'[g] = awaits[g]
    BY <1>0, <1>8 DEF HandleCfg, HandleData, TypeOK
  <2>2. Registered' = Registered /\ Gone' = Gone
    BY <2>1 DEF Registered, Gone
  <2>3. Alone(f)'
    <3>1. ASSUME HandleCfg(f, m) PROVE inbox'[f] = <<>>
      <4>1. Tail(inbox[f]) = <<>>
        BY <1>0, <3>1, CfgRead DEF HandleCfg, IsConfig
      <4> QED
        BY <1>0, <3>1, <4>1 DEF HandleCfg, TypeOK
    <3> QED
      BY <1>0, <1>8, <3>1, NoneLeft, DataRead
  <2> QED
    BY <1>0, <2>1, <2>2, <2>3, OthersAlone, SameGone DEF SentInv
<1>10. ASSUME NEW f \in Fds, WriteBack(f) PROVE SentInv'
  <2>1. UNCHANGED <<batch, inbox, awaits, peer, ep>>
    BY <1>10 DEF WriteBack
  <2>2. Registered' = Registered /\ Gone' = Gone
    BY <2>1 DEF Registered, Gone
  <2> QED
    BY <1>0, <2>1, <2>2, SameMessages, SameGone DEF SentInv
<1>9. ASSUME NEW f \in Fds, Client(f) PROVE SentInv'
  <2>1. /\ UNCHANGED <<batch, ep>> /\ peer[f] = "up"
        /\ \A g \in Fds \ {f} : /\ inbox'[g] = inbox[g] /\ awaits'[g] = awaits[g]
                               /\ peer'[g] = peer[g]
    BY <1>0, <1>9 DEF Client, SendCfg, SendData, ClientRead, ClientGone, TypeOK
  <2>2. Registered' = Registered /\ \A g \in Registered : g \in Gone => g \in Gone'
    BY <2>1 DEF Registered, Gone
  <2>3. Alone(f)'
    <3>1. ASSUME NEW m \in Cfgs, SendCfg(f, m) PROVE Alone(f)'
      <4>1. awaits'[f] /\ inbox'[f] = <<m>>
        BY <1>0, <3>1 DEF SendCfg, TypeOK
      <4> QED
        BY <4>1 DEF Alone
    <3>2. ASSUME SendData(f) PROVE Alone(f)'
      <4>1. /\ ~awaits[f] /\ inbox[f] \in Seq(Msgs)
            /\ inbox'[f] = Append(inbox[f], "DATA")
        BY <1>0, <3>2 DEF SendData, TypeOK
      <4>2. \A k \in 1..Len(inbox[f]) : inbox[f][k] = "DATA"
        BY <1>0, <4>1 DEF CfgAlone, Alone
      <4>3. \A k \in 1..Len(inbox'[f]) : inbox'[f][k] = "DATA"
        BY <4>1, <4>2
      <4> QED
        BY <4>3 DEF Alone
    <3>3. ASSUME NEW how \in {"closed", "reset"}, ClientGone(f, how) PROVE Alone(f)'
      <4>1. awaits' = awaits /\ (inbox'[f] = inbox[f] \/ inbox'[f] = <<>>)
        BY <1>0, <3>3 DEF ClientGone, TypeOK
      <4> QED
        BY <1>0, <4>1, NoneLeft DEF CfgAlone, Alone
    <3>4. ASSUME ClientRead(f) PROVE Alone(f)'
      <4>1. UNCHANGED <<inbox, awaits>>
        BY <3>4 DEF ClientRead
      <4> QED
        BY <1>0, <4>1, SameMessages DEF CfgAlone
    <3> QED
      BY <1>9, <3>1, <3>2, <3>3, <3>4 DEF Client
  <2> QED
    BY <1>0, <2>1, <2>2, <2>3, OthersAlone, SameGone DEF SentInv
<1> QED
  BY <1>1, <1>2, <1>3, <1>4, <1>6, <1>7, <1>8, <1>9, <1>10
     DEF Next, Worker, Serve, Dispatch, Read, Clients

(* The worker takes the label fail only to stop.                           *)
FailedDone == failed => pc = "done"

LEMMA StepFailed ==
    ASSUME IInv, FailedDone, [Next]_vars
    PROVE  FailedDone' /\ (pc = "done" => UNCHANGED vars)
<1> USE DEF pool, conn, clients, history
<1>1. ASSUME UNCHANGED vars PROVE FailedDone'
  BY <1>1 DEF FailedDone, vars
<1>2. ASSUME Next PROVE pc # "done"
  <2>1. ASSUME NEW e \in batch, Dispatch(e) PROVE pc = "loop"
    BY <2>1 DEF Dispatch, HandleHup, HandleIn, HandleOther, NewClientNoSlot,
                NewClientNoAccept, NewClient, NewClientNoEpoll
  <2>2. ASSUME NEW f \in Fds, Read(f) PROVE pc \in {"read", "write"}
    BY <2>2 DEF Read, HandleCfg, HandleData, HandleExit, WriteBack, Reads
  <2>3. ASSUME EpollWait \/ ReadReset \/ ReadError \/ EpollFail
        PROVE  pc \in {"loop", "read"}
    BY <2>3 DEF EpollWait, EpollFail, ReadReset, ReadError
  <2> QED
    BY <1>2, <2>1, <2>2, <2>3 DEF Next, Worker, Serve, Clients
<1>3. ASSUME Next PROVE failed' = failed \/ pc' = "done"
  <2>1. ASSUME NEW e \in batch, Dispatch(e) PROVE failed' = failed \/ pc' = "done"
    BY <2>1 DEF Dispatch, HandleHup, HandleIn, HandleOther, NewClientNoSlot,
                NewClientNoAccept, NewClient, NewClientNoEpoll
  <2>2. ASSUME NEW f \in Fds, Read(f) PROVE failed' = failed
    BY <2>2 DEF Read, HandleCfg, HandleData, HandleExit, WriteBack
  <2>3. ASSUME EpollWait \/ ReadReset \/ ReadError \/ EpollFail \/ Connect
        PROVE  failed' = failed \/ pc' = "done"
    BY <2>3 DEF EpollWait, EpollFail, ReadReset, ReadError, Connect
  <2>4. ASSUME NEW f \in Fds, Client(f) PROVE failed' = failed
    BY <2>4 DEF Client, SendCfg, SendData, ClientRead, ClientGone
  <2> QED
    BY <1>3, <2>1, <2>2, <2>3, <2>4 DEF Next, Worker, Serve, Clients
<1>4. ASSUME Next PROVE FailedDone'
  BY <1>2, <1>3, <1>4, Zenon DEF FailedDone
<1> QED
  BY <1>1, <1>2, <1>4

(* What the worker shows of itself: see Service.                           *)
Waiting == {f \in Fds : awaits[f]}
Status  == IF pc # "done" THEN "serving" ELSE IF failed THEN "failed" ELSE "finished"

(* The worker keeps its promises to its clients: it answers only who waits *)
(* and only his question, takes messages in order and each of a session it *)
(* serves, closes a session only when its client is gone or asks for it,   *)
(* and finishes exactly with the last one.                                 *)
THEOREM Refinement == Spec => WorkerServiceSpec
<1> DEFINE Inv == IInv /\ CountInv /\ SentInv /\ FailedDone
<1>1. Init => Service!Init /\ FailedDone
  <2> SUFFICES ASSUME Init PROVE Service!Init /\ FailedDone
    OBVIOUS
  <2>1. Registered = {} /\ Gone = {}
    BY DEF Init, Registered, NoSlot, Gone
  <2>2. Waiting = {} /\ FailedDone
    BY Zenon DEF Init, Waiting, FailedDone
  <2>3. Status = "serving" /\ inbox = [f \in Fds |-> <<>>]
    BY DEF Init, Status
  <2> QED
    BY <2>1, <2>2, <2>3 DEF Service!Init, Gone, Waiting, Status
<1>2. Inv /\ [Next]_vars => [Service!Next]_(Service!vars)
  <2> SUFFICES ASSUME Inv, [Next]_vars
               PROVE  \/ Service!Next
                      \/ /\ Registered' = Registered /\ Gone' = Gone
                         /\ Waiting' = Waiting /\ UNCHANGED <<inbox, Status>>
    BY DEF Service!vars, Gone, Waiting, Status
  <2> USE DEF pool, conn, clients, history
  <2>0. /\ TypeOK /\ CfgAlone /\ HupGone /\ HandleInUse /\ CleanHandles
        /\ Registered \subseteq Fds
    BY DEF IInv, SentInv, CountInv, Registered
  <2> DEFINE Stutters == /\ Registered' = Registered /\ Gone' = Gone
                         /\ Waiting' = Waiting /\ UNCHANGED <<inbox, Status>>
             Same == /\ Registered' = Registered /\ Gone' = Gone
                     /\ Waiting' = Waiting /\ UNCHANGED inbox
  <2>1. ASSUME UNCHANGED <<inbox, awaits, peer, ep>> PROVE Same
    BY <2>1 DEF Registered, Gone, Waiting
  <2>2. ASSUME pc # "done", pc' # "done" PROVE Status = "serving" /\ Status' = "serving"
    BY <2>2 DEF Status
  <2>3. CASE \/ EpollWait \/ ReadError \/ (Connect /\ pc # "done")
             \/ \E f \in Fds : WriteBack(f) \/ (ClientRead(f) /\ pc # "done")
             \/ \E e \in batch : \/ HandleIn(e) \/ NewClientNoSlot(e)
                                 \/ \E i \in Slots : NewClientNoAccept(e, i)
    <3>1. UNCHANGED <<inbox, awaits, peer, ep>>
      BY <2>3 DEF EpollWait, ReadError, Connect, HandleIn, NewClientNoSlot,
                  NewClientNoAccept, WriteBack, ClientRead, AfterData
    <3>2. pc # "done" /\ pc' # "done"
      BY <2>3 DEF EpollWait, ReadError, Connect, HandleIn, NewClientNoSlot,
                  NewClientNoAccept, WriteBack, ClientRead, AfterData
    <3> QED
      BY <2>1, <2>2, <3>1, <3>2
  <2>4. CASE UNCHANGED vars
    BY <2>1, <2>4 DEF vars, Status
  <2>5. CASE EpollFail \/ ReadReset \/ \E e \in batch : HandleOther(e)
    <3>1. UNCHANGED <<inbox, awaits, peer, ep>> /\ pc # "done"
          /\ pc' = "done" /\ failed' = TRUE
      BY <2>5 DEF EpollFail, ReadReset, HandleOther
    <3>2. Status = "serving" /\ Status' = "failed"
      BY <3>1, Zenon DEF Status
    <3>3. Same
      BY <2>1, <3>1
    <3>4. Service!Fail
      BY <3>2, <3>3 DEF Service!Fail, Status, Gone, Waiting
    <3> QED
      BY <3>2, <3>4 DEF Service!Next, Status
  <2>6. ASSUME NEW e \in batch, NEW i \in Slots, NEW f \in Fds,
               NewClientNoEpoll(e, i, f)
        PROVE  Stutters
    <3>1. UNCHANGED <<inbox, awaits, ep>> /\ pc = "loop" /\ pc' = "loop"
          /\ peer[f] = "none" /\ peer' = [peer EXCEPT ![f] = "up"]
      BY <2>6 DEF NewClientNoEpoll, Accept
    <3>2. Gone' = Gone
      BY <2>0, <3>1 DEF Gone, TypeOK
    <3>3. Registered' = Registered /\ Waiting' = Waiting
      BY <3>1 DEF Registered, Waiting
    <3> QED
      BY <2>2, <3>1, <3>2, <3>3
  <2>7. ASSUME NEW e \in batch, NEW i \in Slots, NEW f \in Fds, NewClient(e, i, f)
        PROVE  Service!Next
    <3>1. UNCHANGED <<inbox, awaits>> /\ pc = "loop" /\ pc' = "loop"
          /\ peer[f] = "none" /\ peer' = [peer EXCEPT ![f] = "up"]
          /\ ep' = [ep EXCEPT ![f] = i] /\ i # NoSlot
      BY <2>7 DEF NewClient, Accept, Slots, NoSlot
    <3>2. Gone' = Gone /\ f \notin Gone
      BY <2>0, <3>1 DEF Gone, TypeOK
    <3>3. f \notin Registered /\ Registered' = Registered \cup {f}
      BY <2>0, <3>1 DEF Registered, HandleInUse, TypeOK
    <3>4. inbox[f] = <<>> /\ f \notin Waiting /\ Waiting' = Waiting
      BY <2>0, <3>1 DEF CleanHandles, Waiting
    <3>5. Status = "serving" /\ Status' = "serving"
      BY <2>2, <3>1
    <3>6. Service!Accept(f)
      BY <3>1, <3>2, <3>3, <3>4, <3>5 DEF Service!Accept, Gone, Waiting, Status
    <3> QED
      BY <3>5, <3>6 DEF Service!Next, Status
  <2>8. ASSUME NEW f \in Registered, SessionClose(f), pc # "done",
               pc' = AfterClose, failed' = failed,
               f \in Gone \/ (inbox[f] # <<>> /\ Head(inbox[f]) = "EXIT")
        PROVE  Service!Next
    <3>1. f \in Fds /\ Registered' = Registered \ {f}
          /\ (nfds - 1 = 0 <=> Registered' = {})
      BY <2>0, <2>8, CloseOne
    <3>2. Gone' = Gone \ {f}
      BY <2>0, <2>8, <3>1 DEF SessionClose, Gone, TypeOK
    <3>3. Waiting' = Waiting \ {f}
      BY <2>0, <2>8, <3>1, Zenon DEF SessionClose, Waiting, TypeOK
    <3>4. inbox' = [inbox EXCEPT ![f] = <<>>]
      BY <2>8 DEF SessionClose
    <3>5. pc' = IF Registered' = {} THEN "done" ELSE "loop"
      BY <2>8, <3>1 DEF AfterClose, NfdsAfterClose
    <3>6. ~failed'
      BY <2>8, Zenon DEF FailedDone
    <3>7. Status = "serving" /\ Status' = IF Registered' = {} THEN "finished" ELSE "serving"
      BY <2>8, <3>5, <3>6 DEF Status
    <3>8. Service!Close(f)
      BY <2>8, <3>1, <3>2, <3>3, <3>4, <3>7 DEF Service!Close, Gone, Waiting, Status
    <3> QED
      BY <3>1, <3>7, <3>8 DEF Service!Next, Status
  <2>9. ASSUME NEW e \in batch, HandleHup(e) PROVE Service!Next
    <3>1. e.data # LISTEN
      BY <2>9 DEF HandleHup, IInv, ListenIn
    <3>2. slot_fd[e.data] \in Registered /\ ep[slot_fd[e.data]] = e.data
      BY <3>1, EntryType, Owner
    <3>3. slot_fd[e.data] \in Gone
      BY <2>0, <2>9, <3>2 DEF HandleHup, HupGone
    <3> QED
      BY <2>8, <2>9, <3>2, <3>3 DEF HandleHup, HupSession
  <2>10. ASSUME NEW f \in Fds, HandleExit(f) PROVE Service!Next
    <3>1. f \in Registered /\ inbox[f] # <<>> /\ Head(inbox[f]) = "EXIT" /\ pc # "done"
      BY <2>10, Reading DEF HandleExit, Reads
    <3> QED
      BY <2>8, <2>10, <3>1 DEF HandleExit
  <2>11. ASSUME NEW f \in Fds, NEW m \in Msgs, HandleCfg(f, m) PROVE Service!Next
    <3>1. /\ f \in Registered /\ inbox[f] # <<>> /\ m = Head(inbox[f]) /\ m \in Cfgs
          /\ inbox' = [inbox EXCEPT ![f] = Tail(inbox[f])] /\ UNCHANGED <<ep, peer>>
          /\ pc # "done" /\ pc' # "done"
      BY <2>11, Reading DEF HandleCfg, IsConfig, Reads
    <3>2. f \in Waiting
      BY <2>0, <2>11, <3>1, CfgRead DEF HandleCfg, Waiting
    <3>3. Waiting' = Waiting \ {f} \/ Waiting' = Waiting
      <4>1. awaits \in [Fds -> BOOLEAN] /\ awaits' = [awaits EXCEPT ![f] = ~Replies(m)]
        BY <2>0, <2>11, Zenon DEF HandleCfg, TypeOK
      <4>2. ASSUME Replies(m) PROVE Waiting' = Waiting \ {f}
        BY <4>1, <4>2, Zenon DEF Waiting
      <4>3. ASSUME ~Replies(m) PROVE Waiting' = Waiting
        BY <3>2, <4>1, <4>3, Zenon DEF Waiting
      <4> QED
        BY <4>2, <4>3
    <3>4. Registered' = Registered /\ Gone' = Gone
      BY <3>1 DEF Registered, Gone
    <3>5. Status = "serving" /\ Status' = "serving"
      BY <2>2, <3>1
    <3>6. Service!Take(f)
      BY <3>1, <3>2, <3>3, <3>4, <3>5 DEF Service!Take, Gone, Waiting, Status
    <3> QED
      BY <3>5, <3>6 DEF Service!Next, Status
  <2>12. ASSUME NEW f \in Fds, NEW m \in Msgs, HandleData(f, m)
         PROVE  Service!Next \/ Stutters
    <3>1. /\ f \in Registered /\ inbox[f] # <<>> /\ UNCHANGED <<ep, peer, awaits>>
          /\ inbox' = [inbox EXCEPT ![f] = Consumed(f)]
          /\ pc # "done" /\ pc' # "done"
      BY <2>12, Reading DEF HandleData, Reads, AfterData
    <3>2. Registered' = Registered /\ Gone' = Gone /\ Waiting' = Waiting
      BY <3>1 DEF Registered, Gone, Waiting
    <3>3. Status = "serving" /\ Status' = "serving"
      BY <2>2, <3>1
    <3>4. CASE Consumed(f) = inbox[f]
      BY <2>0, <3>1, <3>2, <3>3, <3>4 DEF TypeOK
    <3>5. CASE Consumed(f) = Tail(inbox[f])
      <4>1. Service!Take(f)
        BY <3>1, <3>2, <3>3, <3>5 DEF Service!Take, Gone, Waiting, Status
      <4> QED
        BY <3>3, <4>1 DEF Service!Next, Status
    <3> QED
      BY <3>4, <3>5 DEF Consumed
  <2>13. ASSUME NEW f \in Fds, NEW m \in Cfgs \cup {"DATA"}, pc # "done",
                \/ SendCfg(f, m) /\ m \in Cfgs
                \/ SendData(f) /\ m = "DATA"
         PROVE  Service!Next
    <3>1. /\ UNCHANGED <<ep, peer, pc>> /\ peer[f] = "up" /\ ~awaits[f]
          /\ inbox' = [inbox EXCEPT ![f] = Append(inbox[f], m)]
          /\ awaits' = IF m \in Cfgs THEN [awaits EXCEPT ![f] = TRUE] ELSE awaits
      <4>1. Append(<<>>, m) = <<m>> /\ "DATA" \notin Cfgs
        BY VclAssumption
      <4> QED
        BY <2>0, <2>13, <4>1 DEF SendCfg, SendData
    <3>2. Registered' = Registered /\ Gone' = Gone /\ f \notin Gone
      BY <3>1 DEF Registered, Gone
    <3>3. f \notin Waiting /\ Waiting' = IF m \in Cfgs THEN Waiting \cup {f} ELSE Waiting
      <4>1. awaits \in [Fds -> BOOLEAN] /\ f \notin Waiting
        BY <2>0, <3>1, Zenon DEF Waiting, TypeOK
      <4>2. ASSUME m \in Cfgs PROVE Waiting' = Waiting \cup {f}
        <5>1. awaits' = [awaits EXCEPT ![f] = TRUE]
          BY <3>1, <4>2
        <5> QED
          BY <4>1, <5>1, Zenon DEF Waiting
      <4>3. ASSUME m \notin Cfgs PROVE Waiting' = Waiting
        BY <3>1, <4>3 DEF Waiting
      <4> QED
        BY <4>1, <4>2, <4>3
    <3>4. Status = "serving" /\ Status' = "serving"
      BY <2>2, <2>13, <3>1
    <3>5. Service!Send(f, m)
      BY <3>1, <3>2, <3>3, <3>4 DEF Service!Send, Gone, Waiting, Status
    <3> QED
      BY <3>4, <3>5 DEF Service!Next, Status
  <2>14. ASSUME NEW f \in Fds, NEW how \in {"closed", "reset"}, pc # "done",
                ClientGone(f, how)
         PROVE  Service!Next
    <3>1. /\ UNCHANGED <<ep, awaits, pc>> /\ peer[f] = "up"
          /\ peer' = [peer EXCEPT ![f] = how]
          /\ inbox' = inbox \/ inbox' = [inbox EXCEPT ![f] = <<>>]
      BY <2>0, <2>14 DEF ClientGone, TypeOK
    <3>2. Registered' = Registered /\ Waiting' = Waiting
      BY <3>1 DEF Registered, Waiting
    <3>3. f \notin Gone /\ Gone' = Gone \cup {f}
      BY <2>0, <3>1 DEF Gone, TypeOK
    <3>4. Status = "serving" /\ Status' = "serving"
      BY <2>2, <2>14, <3>1
    <3>5. Service!Leave(f)
      BY <3>1, <3>2, <3>3, <3>4 DEF Service!Leave, Gone, Waiting, Status
    <3> QED
      BY <3>4, <3>5 DEF Service!Next, Status
  <2>15. ASSUME NEW f \in Fds, Client(f), pc # "done" PROVE Service!Next \/ Stutters
    <3>1. ASSUME NEW m \in Cfgs, SendCfg(f, m) PROVE Service!Next
      BY <2>13, <2>15, <3>1
    <3>2. ASSUME SendData(f) PROVE Service!Next
      BY <2>13, <2>15, <3>2
    <3> QED
      BY <2>3, <2>14, <2>15, <3>1, <3>2 DEF Client
  <2> QED
    BY <2>3, <2>4, <2>5, <2>6, <2>7, <2>9, <2>10, <2>11, <2>12, <2>15
       DEF Next, Worker, Serve, Dispatch, Read, Clients
<1>3. Inv /\ [Next]_vars => Inv'
  BY StepCount, StepSent, StepFailed, WorkerInv, ClientInv DEF Next
<1>4. Init => Inv
  BY <1>1, InitInv, InitCount, InitSent
<1> QED
  BY <1>1, <1>2, <1>3, <1>4, PTL
     DEF Spec, WorkerServiceSpec, Service!Spec

-----------------------------------------------------------------------------
(* The results of a test.  The loop over the pool is followed by induction *)
(* on its turns; the library's theorem takes an operator as a parameter,   *)
(* so induction is derived here for a set, from the order of Nat.          *)

HIDE VclAssumption

LEMMA OneBefore ==
    ASSUME NEW x \in Nat, NEW y \in Nat, y < x
    PROVE  <<y, x>> \in OpToRel(<, Nat)
BY DEF OpToRel

(* What holds of zero and, with a number, of the next one holds of all.    *)
LEMMA Counting ==
    ASSUME NEW S, 0 \in S, \A n \in Nat : n \in S => n + 1 \in S
    PROVE  Nat \subseteq S
<1> DEFINE T == Nat \ S
<1> SUFFICES ASSUME T # {} PROVE FALSE
  OBVIOUS
<1>1. PICK x \in T : \A y \in T : ~ (<<y, x>> \in OpToRel(<, Nat))
  BY NatLessThanWellFounded, WFMin, Zenon
<1>2. x \in Nat \ {0} /\ x - 1 \in Nat /\ x - 1 < x /\ (x - 1) + 1 = x
  OBVIOUS
<1>3. <<x - 1, x>> \in OpToRel(<, Nat)
  BY <1>2, OneBefore
<1>4. x - 1 \in T
  BY <1>2
<1> QED
  BY <1>1, <1>3, <1>4, Zenon

LEMMA CountingTo ==
    ASSUME NEW n \in Nat, NEW S, 0 \in S, \A k \in 0..(n - 1) : k \in S => k + 1 \in S
    PROVE  \A k \in 0..n : k \in S
<1> DEFINE T == {k \in Nat : k =< n => k \in S}
<1>1. 0 \in T
  OBVIOUS
<1>2. ASSUME NEW k \in Nat, k \in T PROVE k + 1 \in T
  <2>1. ASSUME k + 1 =< n PROVE k \in 0..(n - 1) /\ k \in S
    BY <1>2, <2>1
  <2> QED
    BY <2>1
<1> HIDE DEF T
<1>3. Nat \subseteq T
  BY <1>1, <1>2, Counting
<1> QED
  BY <1>3 DEF T

(* A pool as it is summed up.                                              *)
Pools == [InPool -> [joined : BOOLEAN, stop : Int, rx : Nat]]

LEMMA RecordIs ==
    ASSUME NEW a \in [joined : BOOLEAN, stop : Int, rx : Nat], NEW n \in Nat, NEW t \in Int
    PROVE  LET r == [a EXCEPT !.rx = n, !.stop = t]
           IN  /\ r \in [joined : BOOLEAN, stop : Int, rx : Nat]
               /\ r.joined = a.joined /\ r.rx = n /\ r.stop = t
OBVIOUS

(* One turn changes the control connection's statistics and nothing else.  *)
LEMMA AccumulateIs ==
    ASSUME StatsAssumption, NEW p \in Pools, NEW c \in InPool, NEW i \in InPool
    PROVE  /\ Accumulate(p, c, i) \in Pools
           /\ \A j \in InPool \ {c} : Accumulate(p, c, i)[j] = p[j]
           /\ Accumulate(p, c, i)[c].joined = p[c].joined
           /\ ~p[i].joined => Accumulate(p, c, i) = p
           /\ p[i].joined =>
                 /\ Accumulate(p, c, i)[c].rx = p[c].rx + p[i].rx
                 /\ Accumulate(p, c, i)[c].stop = Later(p[c].stop, p[i].stop) - Delay
<1>1. CASE ~p[i].joined
  BY <1>1 DEF Accumulate
<1>2. CASE p[i].joined
  <2> DEFINE r == [p[c] EXCEPT !.rx = p[c].rx + p[i].rx,
                               !.stop = Later(p[c].stop, p[i].stop) - Delay]
  <2>1. /\ p[c] \in [joined : BOOLEAN, stop : Int, rx : Nat]
        /\ p[i].rx \in Nat /\ p[i].stop \in Int /\ Delay \in Nat
    BY DEF Pools, StatsAssumption
  <2>2. Later(p[c].stop, p[i].stop) \in Int
    BY <2>1 DEF Later
  <2>3. /\ r \in [joined : BOOLEAN, stop : Int, rx : Nat] /\ r.joined = p[c].joined
        /\ r.rx = p[c].rx + p[i].rx /\ r.stop = Later(p[c].stop, p[i].stop) - Delay
    <3>1. p[c].rx + p[i].rx \in Nat /\ Later(p[c].stop, p[i].stop) - Delay \in Int
      BY <2>1, <2>2
    <3> QED
      BY <2>1, <3>1, RecordIs
  <2>4. Accumulate(p, c, i) = [p EXCEPT ![c] = r]
    BY <1>2 DEF Accumulate, Pools
  <2> HIDE DEF r
  <2> QED
    BY <1>2, <2>3, <2>4 DEF Pools
<1> QED
  BY <1>1, <1>2

(* The loop goes through the pool, one turn for each slot.                 *)
LEMMA WalkTurns ==
    ASSUME StatsAssumption, size \in Nat, NEW p \in Pools, NEW c \in InPool
    PROVE  /\ Walk(p, c)[0] = p
           /\ \A k \in 0..size : Walk(p, c)[k] \in Pools
           /\ \A k \in InPool : Walk(p, c)[k + 1] = Accumulate(Walk(p, c)[k], c, k)
<1> DEFINE Turns(w, n) == /\ w \in [0..n -> Pools] /\ w[0] = p
                          /\ \A k \in 0..(n - 1) : w[k + 1] = Accumulate(w[k], c, k)
           S == {n \in 0..size : \E w : Turns(w, n)}
<1>1. 0 \in S
  <2>1. Turns([k \in 0..0 |-> p], 0)
    OBVIOUS
  <2> HIDE DEF Turns
  <2>2. 0 \in 0..size /\ \E w : Turns(w, 0)
    BY <2>1
  <2> QED
    BY <2>2
<1>2. ASSUME NEW n \in 0..(size - 1), n \in S PROVE n + 1 \in S
  <2>1. PICK w : Turns(w, n)
    BY <1>2
  <2> DEFINE u == [k \in 0..(n + 1) |-> IF k = n + 1 THEN Accumulate(w[n], c, n) ELSE w[k]]
  <2>2. n \in InPool /\ w[n] \in Pools
    BY <2>1 DEF InPool
  <2>3. Accumulate(w[n], c, n) \in Pools
    BY <2>2, AccumulateIs
  <2>4. u \in [0..(n + 1) -> Pools] /\ u[0] = p
    BY <2>1, <2>3
  <2>5. \A k \in 0..((n + 1) - 1) : u[k + 1] = Accumulate(u[k], c, k)
    <3> SUFFICES ASSUME NEW k \in 0..n PROVE u[k + 1] = Accumulate(u[k], c, k)
      <4>1. (n + 1) - 1 = n
        OBVIOUS
      <4> HIDE DEF u
      <4> QED
        BY <4>1
    <3>1. u[k] = w[k] /\ k + 1 \in 0..(n + 1)
      OBVIOUS
    <3>2. CASE k = n
      BY <3>1, <3>2
    <3>3. CASE k # n
      <4>1. k \in 0..(n - 1) /\ k + 1 # n + 1 /\ u[k + 1] = w[k + 1]
        BY <3>3
      <4> QED
        BY <2>1, <3>1, <4>1
    <3> QED
      BY <3>2, <3>3
  <2> HIDE DEF u
  <2>6. Turns(u, n + 1)
    BY <2>4, <2>5
  <2> QED
    BY <2>6
<1>3. size \in S
  <2> HIDE DEF S
  <2> QED
    BY <1>1, <1>2, CountingTo
<1>4. PICK w : Turns(w, size)
  BY <1>3
<1>5. w = [k \in 0..size |-> IF k = 0 THEN p ELSE Accumulate(w[k - 1], c, k - 1)]
  <2>1. ASSUME NEW k \in 0..size, k # 0
        PROVE  k - 1 \in 0..(size - 1) /\ w[k] = Accumulate(w[k - 1], c, k - 1)
    <3>1. k - 1 \in 0..(size - 1) /\ (k - 1) + 1 = k
      BY <2>1
    <3> QED
      BY <1>4, <3>1
  <2> QED
    BY <1>4, <2>1
<1>6. Walk(p, c) = [k \in 0..size |->
                       IF k = 0 THEN p ELSE Accumulate(Walk(p, c)[k - 1], c, k - 1)]
  BY <1>5, Zenon DEF Walk
<1> DEFINE v == Walk(p, c)
<1>7. v = [k \in 0..size |-> IF k = 0 THEN p ELSE Accumulate(v[k - 1], c, k - 1)]
  BY <1>6
<1> HIDE DEF v
<1>8. v[0] = p /\ \A k \in InPool : v[k + 1] = Accumulate(v[k], c, k)
  <2>1. \A k \in InPool : k + 1 \in 0..size /\ k + 1 # 0 /\ (k + 1) - 1 = k
    BY DEF InPool
  <2> QED
    BY <1>7, <2>1
<1>9. \A k \in 0..size : v[k] \in Pools
  <2> DEFINE R == {k \in 0..size : v[k] \in Pools}
  <2>1. 0 \in R
    BY <1>8
  <2>2. ASSUME NEW k \in 0..(size - 1), k \in R PROVE k + 1 \in R
    <3>1. k \in InPool /\ v[k] \in Pools
      BY <2>2 DEF InPool
    <3> QED
      BY <1>8, <3>1, AccumulateIs
  <2> HIDE DEF R
  <2>3. \A k \in 0..size : k \in R
    BY <2>1, <2>2, CountingTo
  <2> QED
    BY <2>3 DEF R
<1> QED
  BY <1>8, <1>9 DEF v

(* What the loop reads of the other slots is what was there before it.     *)
LEMMA WalkKeeps ==
    ASSUME StatsAssumption, size \in Nat, NEW p \in Pools, NEW c \in InPool
    PROVE  \A k \in 0..size : /\ \A j \in InPool \ {c} : Walk(p, c)[k][j] = p[j]
                              /\ Walk(p, c)[k][c].joined = p[c].joined
<1> DEFINE w == Walk(p, c)
           S == {k \in 0..size : /\ \A j \in InPool \ {c} : w[k][j] = p[j]
                                 /\ w[k][c].joined = p[c].joined}
<1>1. /\ w[0] = p /\ \A k \in 0..size : w[k] \in Pools
      /\ \A k \in InPool : w[k + 1] = Accumulate(w[k], c, k)
  BY WalkTurns
<1> HIDE DEF w
<1>2. 0 \in S
  BY <1>1
<1>3. ASSUME NEW k \in 0..(size - 1), k \in S PROVE k + 1 \in S
  <2>1. k \in InPool /\ w[k] \in Pools /\ k + 1 \in 0..size
    BY <1>1 DEF InPool
  <2>2. /\ \A j \in InPool \ {c} : w[k + 1][j] = w[k][j]
        /\ w[k + 1][c].joined = w[k][c].joined
    <3>1. w[k + 1] = Accumulate(w[k], c, k)
      BY <1>1, <2>1
    <3>2. /\ \A j \in InPool \ {c} : Accumulate(w[k], c, k)[j] = w[k][j]
          /\ Accumulate(w[k], c, k)[c].joined = w[k][c].joined
      BY <2>1, AccumulateIs
    <3> QED
      BY <3>1, <3>2, Zenon
  <2> QED
    BY <1>3, <2>1, <2>2
<1> HIDE DEF S
<1>4. \A k \in 0..size : k \in S
  BY <1>2, <1>3, CountingTo
<1> QED
  BY <1>4 DEF S, w

(* The members of the test in the slots that k turns have passed.          *)
Passed(p, k) == {i \in 0..(k - 1) : p[i].joined}

LEMMA PassedOne ==
    ASSUME size \in Nat, NEW p \in Pools, NEW k \in InPool
    PROVE  /\ Passed(p, k) \subseteq InPool /\ IsFiniteSet(Passed(p, k))
           /\ k \notin Passed(p, k)
           /\ Passed(p, k + 1) = IF p[k].joined THEN Passed(p, k) \cup {k} ELSE Passed(p, k)
           /\ Cardinality(Passed(p, k)) \in Nat
           /\ p[k].joined => Cardinality(Passed(p, k + 1)) = Cardinality(Passed(p, k)) + 1
<1>1. /\ Passed(p, k) \subseteq InPool /\ k \notin Passed(p, k)
      /\ Passed(p, k + 1) = IF p[k].joined THEN Passed(p, k) \cup {k} ELSE Passed(p, k)
  BY DEF Passed, InPool
<1>2. IsFiniteSet(Passed(p, k))
  <2>1. 0 \in Int /\ size - 1 \in Int
    OBVIOUS
  <2>2. IsFiniteSet(InPool)
    BY <2>1, FS_Interval, Zenon DEF InPool
  <2> QED
    BY <1>1, <2>2, FS_Subset
<1> QED
  BY <1>1, <1>2, FS_CardinalityType, FS_AddElement

(* One more delay is subtracted from what is at most n delays too early.   *)
LEMMA OneDelay ==
    ASSUME NEW a \in Int, NEW s \in Int, NEW t \in Int, NEW n \in Nat, NEW d \in Nat,
           t >= a - n * d, t =< a
    PROVE  /\ Later(t, s) - d >= Later(a, s) - (n + 1) * d
           /\ Later(t, s) - d =< Later(a, s) - d
<1> DEFINE nd == n * d
<1>1. nd \in Nat /\ (n + 1) * d = nd + d
  OBVIOUS
<1>2. t >= a - nd
  OBVIOUS
<1> HIDE DEF nd
<1>3. Later(t, s) - d >= Later(a, s) - (nd + d) /\ Later(t, s) - d =< Later(a, s) - d
  BY <1>1, <1>2 DEF Later
<1> QED
  BY <1>1, <1>3

(* The stop time t lies n delays or less, and at least one, before the     *)
(* latest of the control connection and of the n members passed.           *)
Adjusted(p, c, k, t) ==
    \E j \in Passed(p, k) \cup {c} :
        /\ \A i \in Passed(p, k) \cup {c} : p[i].stop =< p[j].stop
        /\ t >= p[j].stop - Cardinality(Passed(p, k)) * Delay
        /\ t =< IF Passed(p, k) = {} THEN p[j].stop ELSE p[j].stop - Delay

LEMMA WalkStops ==
    ASSUME StatsAssumption, size \in Nat, NEW p \in Pools, NEW c \in InPool
    PROVE  \A k \in 0..size : Adjusted(p, c, k, Walk(p, c)[k][c].stop)
<1> DEFINE w == Walk(p, c)
           S == {k \in 0..size : Adjusted(p, c, k, w[k][c].stop)}
<1>1. /\ w[0] = p /\ \A k \in 0..size : w[k] \in Pools
      /\ \A k \in InPool : w[k + 1] = Accumulate(w[k], c, k)
      /\ \A k \in 0..size : /\ \A j \in InPool \ {c} : w[k][j] = p[j]
                            /\ w[k][c].joined = p[c].joined
  BY WalkTurns, WalkKeeps
<1> HIDE DEF w
<1>2. 0 \in S
  <2>1. Passed(p, 0) = {} /\ Cardinality({}) = 0
    BY FS_EmptySet DEF Passed
  <2>2. p[c].stop \in Int /\ Delay \in Nat /\ 0 * Delay = 0
    BY DEF Pools, StatsAssumption
  <2>3. Adjusted(p, c, 0, p[c].stop)
    BY <2>1, <2>2 DEF Adjusted
  <2> QED
    BY <1>1, <2>3
<1>3. ASSUME NEW k \in 0..(size - 1), k \in S PROVE k + 1 \in S
  <2> DEFINE J == Passed(p, k)
             n == Cardinality(J)
             t == w[k][c].stop
             t2 == w[k + 1][c].stop
  <2>1. k \in InPool /\ w[k] \in Pools /\ k + 1 \in 0..size
    BY <1>1 DEF InPool
  <2>2. w[k + 1] = Accumulate(w[k], c, k)
    BY <1>1, <2>1
  <2>3. /\ t \in Int /\ Delay \in Nat
        /\ \A i \in InPool : p[i].stop \in Int /\ w[k][i].stop \in Int
    BY <2>1 DEF Pools, StatsAssumption
  <2>4. PICK j \in J \cup {c} :
           /\ \A i \in J \cup {c} : p[i].stop =< p[j].stop
           /\ t >= p[j].stop - n * Delay
           /\ t =< IF J = {} THEN p[j].stop ELSE p[j].stop - Delay
    BY <1>3 DEF Adjusted
  <2>5. /\ J \subseteq InPool /\ n \in Nat /\ k \notin J
        /\ Passed(p, k + 1) = IF p[k].joined THEN J \cup {k} ELSE J
        /\ p[k].joined => Cardinality(Passed(p, k + 1)) = n + 1
    BY <2>1, PassedOne
  <2>6. w[k][k].joined = p[k].joined /\ (k # c => w[k][k].stop = p[k].stop)
    BY <1>1, <2>1
  <2>7. CASE ~p[k].joined
    <3>1. w[k + 1] = w[k]
      BY <2>1, <2>2, <2>6, <2>7, AccumulateIs
    <3> QED
      BY <1>3, <2>1, <2>5, <2>7, <3>1 DEF Adjusted
  <2>8. CASE p[k].joined
    <3> DEFINE s == w[k][k].stop
               a == p[j].stop
    <3>1. t2 = Later(t, s) - Delay
      <4>1. w[k][k].joined
        BY <2>6, <2>8
      <4>2. Accumulate(w[k], c, k)[c].stop = Later(w[k][c].stop, w[k][k].stop) - Delay
        BY <2>1, <4>1, AccumulateIs
      <4> QED
        BY <2>2, <4>2
    <3>2. j \in InPool /\ a \in Int /\ s \in Int
      BY <2>1, <2>3, <2>4, <2>5
    <3>3. t =< a /\ t >= a - n * Delay
      BY <2>3, <2>4, <3>2
    <3> HIDE DEF t, t2, n, J
    <3>4. PICK m \in J \cup {k} \cup {c} :
             /\ Later(a, s) = p[m].stop
             /\ \A i \in J \cup {k} \cup {c} : p[i].stop =< p[m].stop
      <4>1. ASSUME k = c PROVE s = t
        BY <4>1 DEF t
      <4>2. CASE k = c
        <5>1. Later(a, s) = a
          BY <2>3, <3>2, <3>3, <4>1, <4>2 DEF Later
        <5>2. j \in J \cup {k} \cup {c} /\ \A i \in J \cup {k} \cup {c} : p[i].stop =< a
          BY <2>4, <4>2
        <5> QED
          BY <5>1, <5>2
      <4>3. CASE k # c
        <5>1. s = p[k].stop
          BY <2>6, <4>3
        <5>2. CASE a < s
          <6>1. Later(a, s) = p[k].stop
            BY <5>1, <5>2 DEF Later
          <6>2. \A i \in J \cup {k} \cup {c} : p[i].stop =< p[k].stop
            BY <2>1, <2>3, <2>4, <2>5, <3>2, <5>1, <5>2
          <6> QED
            BY <6>1, <6>2
        <5>3. CASE ~(a < s)
          <6>1. Later(a, s) = p[j].stop
            BY <5>3 DEF Later
          <6>2. \A i \in J \cup {k} \cup {c} : p[i].stop =< p[j].stop
            BY <2>3, <2>4, <3>2, <5>1, <5>3
          <6> QED
            BY <6>1, <6>2
        <5> QED
          BY <5>2, <5>3
      <4> QED
        BY <4>2, <4>3
    <3>5. Later(t, s) - Delay >= Later(a, s) - (n + 1) * Delay
          /\ Later(t, s) - Delay =< Later(a, s) - Delay
      BY <2>3, <2>5, <3>2, <3>3, OneDelay
    <3>6. t2 >= p[m].stop - (n + 1) * Delay /\ t2 =< p[m].stop - Delay
      BY <3>1, <3>4, <3>5
    <3>7. Passed(p, k + 1) = J \cup {k} /\ Cardinality(Passed(p, k + 1)) = n + 1
      BY <2>5, <2>8
    <3>8. Adjusted(p, c, k + 1, t2)
      BY <3>4, <3>6, <3>7 DEF Adjusted
    <3> QED
      BY <2>1, <3>8 DEF t2
  <2> QED
    BY <2>7, <2>8
<1> HIDE DEF S
<1>4. \A k \in 0..size : k \in S
  BY <1>2, <1>3, CountingTo
<1> QED
  BY <1>4 DEF S, w

(* The sum over a set, as a function of the set: it does not depend on the *)
(* order in which the elements are taken.                                  *)
Sums(t, p, D) ==
    /\ t \in [SUBSET D -> Nat] /\ t[{}] = 0
    /\ \A s \in SUBSET D : \A x \in s : t[s] = p[x].rx + t[s \ {x}]

LEMMA SumsExist ==
    ASSUME size \in Nat, NEW p \in Pools
    PROVE  \E t : Sums(t, p, InPool)
<1> DEFINE S == {n \in 0..size : \E t : Sums(t, p, 0..(n - 1))}
<1>1. 0 \in S
  <2>1. 0..(0 - 1) = {} /\ SUBSET {} = {{}} /\ 0 \in 0..size
    OBVIOUS
  <2>2. Sums([s \in {{}} |-> 0], p, {})
    BY <2>1 DEF Sums
  <2>3. \E t : Sums(t, p, 0..(0 - 1))
    BY <2>1, <2>2
  <2> QED
    BY <2>1, <2>3
<1>2. ASSUME NEW n \in 0..(size - 1), n \in S PROVE n + 1 \in S
  <2> DEFINE D == 0..(n - 1)
             E == 0..((n + 1) - 1)
             q(s) == IF n \in s THEN p[n].rx ELSE 0
  <2>1. PICK t : Sums(t, p, D)
    BY <1>2
  <2>2. E = D \cup {n} /\ n \notin D /\ n + 1 \in 0..size
    OBVIOUS
  <2>3. p[n].rx \in Nat /\ \A x \in E : p[x].rx \in Nat
    BY DEF Pools, InPool
  <2> HIDE DEF D, E
  <2> DEFINE u == [s \in SUBSET E |-> t[s \ {n}] + q(s)]
  <2>4. \A s \in SUBSET E : /\ s \ {n} \in SUBSET D /\ t[s \ {n}] \in Nat
                            /\ u[s] = t[s \ {n}] + q(s)
    BY <2>1, <2>2 DEF Sums
  <2>5. u \in [SUBSET E -> Nat]
    <3>1. ASSUME NEW s \in SUBSET E PROVE t[s \ {n}] + q(s) \in Nat
      <4>1. t[s \ {n}] \in Nat /\ q(s) \in Nat
        BY <2>3, <2>4
      <4> HIDE DEF q
      <4> QED
        BY <4>1
    <3> QED
      BY <3>1
  <2>6. u[{}] = 0
    <3>1. {} \in SUBSET E /\ {} \ {n} = {}
      OBVIOUS
    <3> QED
      BY <2>1, <2>4, <3>1 DEF Sums
  <2>7. ASSUME NEW s \in SUBSET E, NEW x \in s PROVE u[s] = p[x].rx + u[s \ {x}]
    <3>1. s \ {x} \in SUBSET E /\ x \in E
      OBVIOUS
    <3>2. CASE x = n
      <4>1. (s \ {n}) \ {n} = s \ {n} /\ q(s \ {n}) = 0 /\ q(s) = p[n].rx
        BY <3>2
      <4>2. u[s] = t[s \ {n}] + p[n].rx /\ u[s \ {x}] = t[s \ {n}] + 0
        BY <2>4, <3>1, <3>2, <4>1
      <4> DEFINE a == t[s \ {n}]
      <4>3. a \in Nat /\ u[s] = a + p[n].rx /\ u[s \ {x}] = a + 0
        BY <2>4, <4>2
      <4> HIDE DEF u, a
      <4> QED
        BY <2>3, <3>2, <4>3
    <3>3. CASE x # n
      <4> DEFINE a == t[(s \ {n}) \ {x}]
                 b == q(s)
      <4>1. x \in s \ {n} /\ (s \ {x}) \ {n} = (s \ {n}) \ {x} /\ q(s \ {x}) = b
        BY <3>3
      <4>2. t[s \ {n}] = p[x].rx + a
        BY <2>1, <2>4, <4>1 DEF Sums
      <4>3. u[s] = (p[x].rx + a) + b /\ u[s \ {x}] = a + b
        BY <2>4, <3>1, <4>1, <4>2
      <4>4. a \in Nat /\ b \in Nat /\ p[x].rx \in Nat
        BY <2>3, <2>4, <3>1, <4>1
      <4> HIDE DEF u, a, b
      <4> QED
        BY <4>3, <4>4
    <3> QED
      BY <3>2, <3>3
  <2> HIDE DEF u
  <2>8. Sums(u, p, E)
    BY <2>5, <2>6, <2>7 DEF Sums
  <2> QED
    BY <2>2, <2>8 DEF E
<1>3. size \in S
  <2> HIDE DEF S
  <2> QED
    BY <1>1, <1>2, CountingTo
<1> QED
  BY <1>3 DEF InPool

(* SumRx, which takes one element after the other, is that sum.            *)
LEMMA SumIsSums ==
    ASSUME size \in Nat, NEW p \in Pools, NEW t, Sums(t, p, InPool), NEW S \in SUBSET InPool
    PROVE  SumRx(p, S) = t[S]
<1> DEFINE one(s) == CHOOSE x \in s : TRUE
           w == [s \in SUBSET S |-> t[s]]
<1>1. \A s \in SUBSET S : s # {} => one(s) \in s
  OBVIOUS
<1> HIDE DEF one
<1>2. ASSUME NEW s \in SUBSET S
      PROVE  w[s] = IF s = {} THEN 0 ELSE p[one(s)].rx + w[s \ {one(s)}]
  <2>1. s \in SUBSET InPool /\ s \ {one(s)} \in SUBSET S
    OBVIOUS
  <2>2. w[s] = t[s] /\ w[s \ {one(s)}] = t[s \ {one(s)}]
    BY <2>1
  <2> QED
    BY <1>1, <2>1, <2>2 DEF Sums
<1>3. w = [s \in SUBSET S |-> IF s = {} THEN 0 ELSE p[one(s)].rx + w[s \ {one(s)}]]
  BY <1>2
<1> HIDE DEF w
<1>4. PICK v : /\ v = [s \in SUBSET S |->
                          IF s = {} THEN 0 ELSE p[one(s)].rx + v[s \ {one(s)}]]
               /\ SumRx(p, S) = v[S]
  BY <1>3, Zenon DEF one, SumRx, MapThenSumSet, MapThenFoldSet
<1> DEFINE R == {m \in Nat : \A s \in SUBSET S : Cardinality(s) = m => v[s] = t[s]}
<1>5. ASSUME NEW s \in SUBSET S PROVE IsFiniteSet(s) /\ Cardinality(s) \in Nat
  <2>1. 0 \in Int /\ size - 1 \in Int
    OBVIOUS
  <2>2. IsFiniteSet(InPool)
    BY <2>1, FS_Interval, Zenon DEF InPool
  <2> QED
    BY <2>2, FS_Subset, FS_CardinalityType
<1>6. 0 \in R
  <2> SUFFICES ASSUME NEW s \in SUBSET S, Cardinality(s) = 0 PROVE v[s] = t[s]
    OBVIOUS
  <2>1. s = {}
    BY <1>5, FS_EmptySet
  <2> QED
    BY <1>4, <2>1 DEF Sums
<1>7. ASSUME NEW m \in Nat, m \in R PROVE m + 1 \in R
  <2> SUFFICES ASSUME NEW s \in SUBSET S, Cardinality(s) = m + 1 PROVE v[s] = t[s]
    OBVIOUS
  <2>1. s # {} /\ m + 1 # 0
    BY FS_EmptySet
  <2>2. one(s) \in s /\ s \ {one(s)} \in SUBSET S
    BY <1>1, <2>1
  <2>3. Cardinality(s \ {one(s)}) = m
    BY <1>5, <2>2, FS_RemoveElement
  <2>4. v[s \ {one(s)}] = t[s \ {one(s)}]
    BY <1>7, <2>2, <2>3
  <2>5. v[s] = p[one(s)].rx + v[s \ {one(s)}]
    BY <1>4, <2>1
  <2>6. t[s] = p[one(s)].rx + t[s \ {one(s)}]
    BY <2>2 DEF Sums
  <2> QED
    BY <2>4, <2>5, <2>6
<1>8. Nat \subseteq R
  <2> HIDE DEF R
  <2> QED
    BY <1>6, <1>7, Counting
<1>9. Cardinality(S) \in R
  BY <1>5, <1>8
<1> QED
  BY <1>4, <1>9

(* Sums of bytes: of nothing, and of one slot more.                        *)
LEMMA SumOne ==
    ASSUME size \in Nat, NEW p \in Pools
    PROVE  /\ SumRx(p, {}) = 0
           /\ \A s \in SUBSET InPool :
                 /\ SumRx(p, s) \in Nat
                 /\ \A x \in InPool \ s : SumRx(p, s \cup {x}) = p[x].rx + SumRx(p, s)
<1>1. PICK t : Sums(t, p, InPool)
  BY SumsExist
<1>2. \A s \in SUBSET InPool : SumRx(p, s) = t[s]
  BY <1>1, SumIsSums
<1>3. ASSUME NEW s \in SUBSET InPool, NEW x \in InPool \ s
      PROVE  t[s \cup {x}] = p[x].rx + t[s]
  <2>1. s \cup {x} \in SUBSET InPool /\ x \in s \cup {x} /\ (s \cup {x}) \ {x} = s
    OBVIOUS
  <2> QED
    BY <1>1, <2>1 DEF Sums
<1>4. \A s \in SUBSET InPool : t[s] \in Nat
  BY <1>1 DEF Sums
<1>5. t[{}] = 0
  BY <1>1 DEF Sums
<1> QED
  BY <1>2, <1>3, <1>4, <1>5

(* What k turns have added up: every member passed once, and, once the     *)
(* loop has passed the control connection as a member, all that it had by  *)
(* then a second time.                                                     *)
AddedUp(p, c, k, n) ==
    LET once == SumRx(p, Passed(p, k) \cup {c})
        then == SumRx(p, Passed(p, c) \cup {c})
    IN  IF c \in Passed(p, k) THEN n = once + then /\ then =< once
        ELSE n = once

LEMMA WalkSums ==
    ASSUME StatsAssumption, size \in Nat, NEW p \in Pools, NEW c \in InPool
    PROVE  \A k \in 0..size : AddedUp(p, c, k, Walk(p, c)[k][c].rx)
<1> DEFINE w == Walk(p, c)
           then == SumRx(p, Passed(p, c) \cup {c})
           S == {k \in 0..size : AddedUp(p, c, k, w[k][c].rx)}
<1>1. /\ w[0] = p /\ \A k \in 0..size : w[k] \in Pools
      /\ \A k \in InPool : w[k + 1] = Accumulate(w[k], c, k)
      /\ \A k \in 0..size : /\ \A j \in InPool \ {c} : w[k][j] = p[j]
                            /\ w[k][c].joined = p[c].joined
  BY WalkTurns, WalkKeeps
<1> HIDE DEF w
<1>2. 0 \in S
  <2>1. Passed(p, 0) = {} /\ {} \cup {c} = {c} /\ c \notin {}
    BY DEF Passed
  <2>2. SumRx(p, {c}) = p[c].rx
    <3>1. SumRx(p, {} \cup {c}) = p[c].rx + SumRx(p, {}) /\ SumRx(p, {}) = 0
      BY SumOne
    <3>2. p[c].rx \in Nat
      BY DEF Pools
    <3> QED
      BY <2>1, <3>1, <3>2
  <2>3. AddedUp(p, c, 0, p[c].rx)
    BY <2>1, <2>2 DEF AddedUp
  <2> QED
    BY <1>1, <2>3
<1>3. ASSUME NEW k \in 0..(size - 1), k \in S PROVE k + 1 \in S
  <2> DEFINE J == Passed(p, k)
             once == SumRx(p, J \cup {c})
             n == w[k][c].rx
             n2 == w[k + 1][c].rx
  <2>1. k \in InPool /\ w[k] \in Pools /\ k + 1 \in 0..size
    BY <1>1 DEF InPool
  <2>2. w[k + 1] = Accumulate(w[k], c, k)
    BY <1>1, <2>1
  <2>3. n \in Nat /\ \A i \in InPool : p[i].rx \in Nat
    BY <2>1 DEF Pools
  <2>4. /\ J \subseteq InPool /\ k \notin J
        /\ Passed(p, k + 1) = IF p[k].joined THEN J \cup {k} ELSE J
    BY <2>1, PassedOne
  <2>5. once \in Nat /\ then \in Nat
    BY <2>1, <2>4, PassedOne, SumOne
  <2>6. AddedUp(p, c, k, n)
    BY <1>3
  <2>7. IF c \in J THEN n = once + then /\ then =< once ELSE n = once
    BY <2>6 DEF AddedUp
  <2>8. w[k][k].joined = p[k].joined /\ (k # c => w[k][k].rx = p[k].rx)
    BY <1>1, <2>1
  <2>9. CASE ~p[k].joined
    <3>1. w[k + 1] = w[k]
      BY <2>1, <2>2, <2>8, <2>9, AccumulateIs
    <3> QED
      BY <2>1, <2>4, <2>6, <2>9, <3>1 DEF AddedUp
  <2>10. CASE p[k].joined
    <3>1. n2 = n + w[k][k].rx
      <4>1. w[k][k].joined
        BY <2>8, <2>10
      <4>2. Accumulate(w[k], c, k)[c].rx = w[k][c].rx + w[k][k].rx
        BY <2>1, <4>1, AccumulateIs
      <4> QED
        BY <2>2, <4>2
    <3>2. Passed(p, k + 1) = J \cup {k}
      BY <2>4, <2>10
    <3>3. CASE k = c
      <4>1. c \notin J /\ (J \cup {k}) \cup {c} = J \cup {c} /\ c \in J \cup {k}
            /\ once = then /\ w[k][k].rx = n
        BY <2>4, <3>3
      <4>2. n2 = once + then /\ then =< once
        BY <2>5, <2>7, <3>1, <4>1
      <4>3. AddedUp(p, c, k + 1, n2)
        BY <3>2, <4>1, <4>2 DEF AddedUp
      <4> QED
        BY <2>1, <4>3
    <3>4. CASE k # c
      <4> DEFINE more == SumRx(p, (J \cup {k}) \cup {c})
      <4>1. /\ (J \cup {k}) \cup {c} = (J \cup {c}) \cup {k} /\ k \in InPool \ (J \cup {c})
            /\ J \cup {c} \in SUBSET InPool /\ (c \in J \cup {k} <=> c \in J)
        BY <2>1, <2>4, <3>4
      <4>2. more = p[k].rx + once
        BY <4>1, SumOne
      <4>3. n2 = n + p[k].rx
        BY <2>8, <3>1, <3>4
      <4>4. AddedUp(p, c, k + 1, n2) <=>
               IF c \in J THEN n2 = more + then /\ then =< more ELSE n2 = more
        BY <3>2, <4>1 DEF AddedUp
      <4>5. p[k].rx \in Nat
        BY <2>1, <2>3
      <4> HIDE DEF more, once, n, n2
      <4>6. IF c \in J THEN n2 = more + then /\ then =< more ELSE n2 = more
        <5> HIDE DEF then
        <5> QED
          BY <2>3, <2>5, <2>7, <4>2, <4>3, <4>5
      <4>7. AddedUp(p, c, k + 1, n2)
        BY <4>4, <4>6
      <4> QED
        BY <2>1, <4>7 DEF n2
    <3> QED
      BY <3>3, <3>4
  <2> QED
    BY <2>9, <2>10
<1> HIDE DEF S
<1>4. \A k \in 0..size : k \in S
  BY <1>2, <1>3, CountingTo
<1> QED
  BY <1>4 DEF S, w

-----------------------------------------------------------------------------
(* The pool that is summed up when a client asks for its results.          *)
LEMMA AskedPool ==
    ASSUME IInv, ResultsAsked, NEW joined \in SUBSET InPool, NEW stop \in [InPool -> Int]
    PROVE  /\ size \in Nat /\ cur \in InPool /\ ConnPool(joined, stop) \in Pools
           /\ \A i \in InPool : /\ ConnPool(joined, stop)[i].stop = stop[i]
                                /\ ConnPool(joined, stop)[i].joined <=> i \in joined
           /\ Passed(ConnPool(joined, stop), size) = joined
           /\ Passed(ConnPool(joined, stop), cur) = {i \in joined : i < cur}
<1> DEFINE p == ConnPool(joined, stop)
<1>1. size \in Nat /\ cur \in InPool /\ InPool \subseteq Slots
  <2>1. TypeOK /\ size \in Nat
    BY DEF IInv, TypeOK
  <2>2. cur \in alloc
    <3>1. \E f \in Registered : ep[f] = cur
      BY DEF ResultsAsked, Reads, IInv, BatchValid
    <3> QED
      BY <3>1, Owner
  <2> QED
    BY <2>1, <2>2, VclAssumption DEF TypeOK, InPool, Slots
<1>2. \A i \in InPool : (IF i = cur THEN Counted(rx[i]) ELSE rx[i]) \in Nat
  BY <1>1 DEF Counted, IInv, TypeOK
<1>3. p \in Pools
  <2>1. ASSUME NEW i \in InPool PROVE (i \in joined) \in BOOLEAN /\ stop[i] \in Int
    OBVIOUS
  <2> QED
    BY <1>2, <2>1 DEF ConnPool, Pools
<1>4. \A i \in InPool : p[i].stop = stop[i] /\ (p[i].joined <=> i \in joined)
  BY DEF ConnPool
<1> HIDE DEF p
<1>5. Passed(p, size) = joined /\ Passed(p, cur) = {i \in joined : i < cur}
  <2>1. \A i \in 0..(cur - 1) : i \in InPool /\ i < cur
    BY <1>1 DEF InPool
  <2>2. \A i \in InPool : i < cur => i \in 0..(cur - 1)
    BY <1>1 DEF InPool
  <2>3. Passed(p, size) = {i \in InPool : p[i].joined}
    BY DEF Passed, InPool
  <2> QED
    BY <1>4, <2>1, <2>2, <2>3 DEF Passed
<1> QED
  BY <1>1, <1>3, <1>4, <1>5 DEF p

(* The results of a test count every byte of its connections, those of the *)
(* slots above the control connection's once, those below it and its own   *)
(* twice, for every pool and every choice of members.                      *)
THEOREM ResultsCorrect == Spec => []ResultsBounded
<1>1. IInv => ResultsBounded
  <2> SUFFICES ASSUME IInv, ResultsAsked, NEW joined \in SUBSET InPool
               PROVE  LET p     == ConnPool(joined, [i \in InPool |-> 0])
                          all   == SumRx(p, joined \cup {cur})
                          below == {i \in joined : i < cur}
                      IN  /\ Results(p, cur).rx \in all..(2 * all)
                          /\ cur \in joined =>
                                 Results(p, cur).rx = all + p[cur].rx + SumRx(p, below)
    BY DEF ResultsBounded
  <2> DEFINE p     == ConnPool(joined, [i \in InPool |-> 0])
             all   == SumRx(p, joined \cup {cur})
             below == {i \in joined : i < cur}
             n     == Results(p, cur).rx
  <2>1. /\ size \in Nat /\ cur \in InPool /\ p \in Pools
        /\ Passed(p, size) = joined /\ Passed(p, cur) = below
    <3>1. [i \in InPool |-> 0] \in [InPool -> Int]
      OBVIOUS
    <3> QED
      BY <3>1, AskedPool
  <2> HIDE DEF p
  <2>2. AddedUp(p, cur, size, n)
    <3>1. size \in 0..size
      BY <2>1
    <3> QED
      BY <2>1, <3>1, WalkSums, StatsAssumption DEF Results
  <2>3. SumRx(p, below \cup {cur}) = p[cur].rx + SumRx(p, below)
    <3>1. below \in SUBSET InPool /\ cur \in InPool \ below
      <4>1. ~(cur < cur)
        BY <2>1 DEF InPool
      <4> QED
        BY <2>1, <4>1
    <3> QED
      BY <2>1, <3>1, SumOne
  <2>4. all \in Nat /\ SumRx(p, below) \in Nat /\ p[cur].rx \in Nat
    <3>1. joined \cup {cur} \in SUBSET InPool /\ below \in SUBSET InPool
      BY <2>1
    <3> QED
      BY <2>1, <3>1, SumOne DEF Pools
  <2>5. IF cur \in joined
        THEN /\ n = all + (p[cur].rx + SumRx(p, below))
             /\ p[cur].rx + SumRx(p, below) =< all
        ELSE n = all
    BY <2>1, <2>2, <2>3 DEF AddedUp
  <2> DEFINE b == SumRx(p, below)
             r == p[cur].rx
  <2>6. /\ all \in Nat /\ b \in Nat /\ r \in Nat
        /\ IF cur \in joined THEN n = all + (r + b) /\ r + b =< all ELSE n = all
    BY <2>4, <2>5
  <2> HIDE DEF all, n, b, r
  <2>7. n \in all..(2 * all) /\ (cur \in joined => n = all + r + b)
    BY <2>6
  <2> QED
    BY <2>7 DEF all, n, b, r, p
<1> QED
  BY Invariance, <1>1, PTL

(* The stop time of the results is that of the connection that stopped     *)
(* last, less one to n delays for the n slots that took part.              *)
THEOREM StopsCorrect == Spec => []StopAdjusted
<1>1. IInv => StopAdjusted
  <2> SUFFICES ASSUME IInv, ResultsAsked, NEW joined \in SUBSET InPool,
                      NEW stop \in [InPool -> 0..MaxStop]
               PROVE  LET result == Results(ConnPool(joined, stop), cur).stop
                          n      == Cardinality(joined)
                          latest == Max({stop[i] : i \in joined \cup {cur}})
                      IN  IF n = 0 THEN result = stop[cur]
                          ELSE result \in (latest - n * Delay)..(latest - Delay)
    BY DEF StopAdjusted
  <2> DEFINE p      == ConnPool(joined, stop)
             result == Results(p, cur).stop
             n      == Cardinality(joined)
             all    == {stop[i] : i \in joined \cup {cur}}
  <2>1. /\ size \in Nat /\ cur \in InPool /\ p \in Pools /\ Passed(p, size) = joined
        /\ \A i \in InPool : p[i].stop = stop[i] /\ stop[i] \in Int
    <3>1. stop \in [InPool -> Int]
      BY StatsAssumption
    <3>2. /\ size \in Nat /\ cur \in InPool /\ p \in Pools /\ Passed(p, size) = joined
          /\ \A i \in InPool : p[i].stop = stop[i]
      BY <3>1, AskedPool
    <3> QED
      BY <3>1, <3>2
  <2> HIDE DEF p
  <2>2. Adjusted(p, cur, size, result) /\ result \in Int
    <3>1. size \in 0..size
      BY <2>1
    <3>2. Walk(p, cur)[size] \in Pools
      BY <2>1, <3>1, WalkTurns, StatsAssumption
    <3> QED
      BY <2>1, <3>1, <3>2, WalkStops, StatsAssumption DEF Results, Pools
  <2>3. PICK j \in joined \cup {cur} :
           /\ \A i \in joined \cup {cur} : stop[i] =< stop[j]
           /\ result >= stop[j] - n * Delay
           /\ result =< IF joined = {} THEN stop[j] ELSE stop[j] - Delay
    BY <2>1, <2>2 DEF Adjusted
  <2>4. Max(all) = stop[j]
    <3>1. stop[j] \in all /\ \A y \in all : stop[j] >= y
      BY <2>1, <2>3
    <3>2. all \subseteq Int
      BY <2>1
    <3> HIDE DEF all
    <3>3. Max(all) \in all /\ \A y \in all : Max(all) >= y
      BY <3>1, Zenon DEF Max
    <3>4. Max(all) >= stop[j] /\ stop[j] >= Max(all)
      BY <3>1, <3>3
    <3>5. Max(all) \in Int /\ stop[j] \in Int
      BY <3>1, <3>2, <3>3
    <3> QED
      BY <3>4, <3>5
  <2>5. n \in Nat /\ (n = 0 <=> joined = {})
    <3>1. 0 \in Int /\ size - 1 \in Int
      BY <2>1
    <3>2. IsFiniteSet(InPool)
      BY <3>1, FS_Interval, Zenon DEF InPool
    <3> QED
      BY <3>2, FS_Subset, FS_CardinalityType, FS_EmptySet
  <2>6. CASE n = 0
    <3>1. joined = {} /\ j = cur /\ 0 * Delay = 0 /\ stop[cur] \in Int
      BY <2>1, <2>3, <2>5, <2>6, StatsAssumption
    <3>2. result >= stop[cur] /\ result =< stop[cur]
      BY <2>3, <2>6, <3>1
    <3> HIDE DEF result
    <3>3. result = stop[cur]
      BY <2>2, <3>1, <3>2
    <3> QED
      BY <2>6, <3>3 DEF result, p
  <2>7. CASE n # 0
    <3>1. result >= stop[j] - n * Delay /\ result =< stop[j] - Delay
      BY <2>3, <2>5, <2>7
    <3>2. stop[j] - n * Delay \in Int /\ stop[j] - Delay \in Int
      BY <2>1, <2>5, StatsAssumption
    <3>3. result \in (Max(all) - n * Delay)..(Max(all) - Delay)
      BY <2>2, <2>4, <3>1, <3>2
    <3> QED
      BY <2>7, <3>3 DEF p
  <2> QED
    BY <2>6, <2>7
<1> QED
  BY Invariance, <1>1, PTL
=============================================================================
