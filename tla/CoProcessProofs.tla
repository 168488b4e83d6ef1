--------------------------- MODULE CoProcessProofs ---------------------------
(***************************************************************************)
(* Proofs about CoProcess, for any number of processes and of signals.     *)
(***************************************************************************)
EXTENDS CoProcess, TLAPS

(* Process q is in vlib_process_wait_for_event_or_clock, and its           *)
(* resume_longjmp was set in this call.                                    *)
Suspended(q) == wait[q] # Unset /\ resume_longjmp[q] = wait[q]

(* Who runs: a process exactly while the dispatcher is in the call that    *)
(* let it run.                                                             *)
Turn ==
    /\ cpu # Nobody <=> pc = "call"
    /\ cpu # Nobody => p = cpu /\ return_longjmp[cpu] = frame
    /\ pc = "back" => p \in Processes /\ Suspended(p)
    /\ pc \in {"start", "dispatch"} => pc = phase

(* Who has been started: the processes before p, and in the second loop    *)
(* all of them.                                                            *)
Started ==
    /\ \A q \in Processes : phase = "dispatch" \/ q < p => Suspended(q)
    /\ pc = "exit" => phase = "dispatch"

(* The inductive invariant.                                                *)
IInv == TypeOK /\ Turn /\ Started

USE ProcessAssumption DEF Processes, Unset, Nobody

(* The initial states satisfy the invariant.                               *)
LEMMA InitInv == Init => IInv
<1> SUFFICES ASSUME Init PROVE IInv
  OBVIOUS
<1>1. TypeOK
  BY DEF Init, TypeOK
<1>2. Turn /\ Started
  BY DEF Init, Turn, Started
<1> QED
  BY <1>1, <1>2 DEF IInv

(* Numbers of activations stay numbers of activations.                     *)
LEMMA ClockGrows ==
    ASSUME clock \in Nat
    PROVE  /\ \A n \in 0..clock : n \in 0..(clock + 1)
           /\ \A f \in [Processes -> 0..clock] :
                 /\ f \in [Processes -> 0..(clock + 1)]
                 /\ \A q \in Processes :
                       [f EXCEPT ![q] = clock + 1] \in [Processes -> 0..(clock + 1)]
OBVIOUS

(* The dispatcher's function begins, sets return_longjmp of q and lets q   *)
(* run: start_process and vlib_process_resume.                             *)
LEMMA LetRun ==
    ASSUME IInv, NEW q \in Processes, cpu = Nobody, cpu' = q, p' = q, pc' = "call",
           clock' = clock + 1, frame' = clock + 1, return_longjmp' = SetReturn(q),
           UNCHANGED <<phase, wait, resume_longjmp, n_suspends>>,
           signals' \in 0..MaxSignals, phase = "dispatch" \/ p = q
    PROVE  IInv'
<1>1. TypeOK'
  <2>1. clock \in Nat /\ return_longjmp \in [Processes -> 0..clock]
        /\ wait \in [Processes -> 0..clock] /\ resume_longjmp \in [Processes -> 0..clock]
    BY DEF IInv, TypeOK
  <2>2. /\ return_longjmp' \in [Processes -> 0..clock']
        /\ wait' \in [Processes -> 0..clock'] /\ resume_longjmp' \in [Processes -> 0..clock']
    BY <2>1, ClockGrows DEF SetReturn
  <2>3. /\ cpu' \in Processes \cup {Nobody} /\ p' \in 0..NumProcesses
        /\ clock' \in Nat /\ frame' \in 0..clock'
    BY <2>1
  <2> QED
    BY <2>2, <2>3 DEF IInv, TypeOK
<1>2. Turn'
  BY DEF IInv, Turn, TypeOK, SetReturn
<1>3. Started'
  BY DEF IInv, Started, Suspended, TypeOK
<1> QED
  BY <1>1, <1>2, <1>3 DEF IInv

(* Every step preserves the invariant.                                     *)
LEMMA NextInv == ASSUME IInv, [Next]_vars PROVE IInv'
<1> USE DEF jumps
<1>0. TypeOK
  BY DEF IInv
<1>1. CASE StartProcess
  <2>1. /\ cpu = Nobody /\ p \in Processes /\ cpu' = p /\ p' = p /\ pc' = "call"
        /\ clock' = clock + 1 /\ frame' = clock + 1 /\ return_longjmp' = SetReturn(p)
        /\ UNCHANGED <<phase, wait, resume_longjmp, n_suspends>>
        /\ signals' \in 0..MaxSignals
    BY <1>0, <1>1 DEF StartProcess, TypeOK
  <2> QED
    BY <2>1, LetRun
<1>2. ASSUME NEW q \in Processes, Resume(q) PROVE IInv'
  <2>1. /\ cpu = Nobody /\ cpu' = q /\ p' = q /\ pc' = "call"
        /\ clock' = clock + 1 /\ frame' = clock + 1 /\ return_longjmp' = SetReturn(q)
        /\ UNCHANGED <<phase, wait, resume_longjmp, n_suspends>>
        /\ signals' \in 0..MaxSignals /\ phase = "dispatch"
    BY <1>0, <1>2 DEF Resume, ResumeReturn, TypeOK, IInv, Turn
  <2> QED
    BY <2>1, LetRun
<1>3. ASSUME NEW q \in Processes, Suspend(q) PROVE IInv'
  <2>1. /\ cpu = q /\ p = q /\ cpu' = Nobody /\ pc' = "back" /\ clock' = clock + 1
        /\ wait' = [wait EXCEPT ![q] = clock + 1]
        /\ resume_longjmp' = [resume_longjmp EXCEPT ![q] = clock + 1]
        /\ UNCHANGED <<phase, p, frame, return_longjmp, n_suspends, signals>>
    BY <1>3 DEF Suspend, ResumePoint, IInv, Turn
  <2>2. clock \in Nat /\ return_longjmp \in [Processes -> 0..clock] /\ frame \in 0..clock
        /\ wait \in [Processes -> 0..clock] /\ resume_longjmp \in [Processes -> 0..clock]
    BY <1>0 DEF TypeOK
  <2>3. TypeOK'
    <3>1. /\ return_longjmp' \in [Processes -> 0..clock'] /\ frame' \in 0..clock'
          /\ wait' \in [Processes -> 0..clock'] /\ resume_longjmp' \in [Processes -> 0..clock']
      BY <2>1, <2>2, ClockGrows
    <3>2. /\ cpu' = Nobody /\ p' \in 0..NumProcesses /\ pc' = "back"
          /\ phase' \in {"start", "dispatch"} /\ clock' \in Nat
          /\ signals' \in 0..MaxSignals /\ n_suspends' \in [Processes -> Nat]
      BY <1>0, <2>1 DEF TypeOK
    <3> QED
      BY <3>1, <3>2 DEF TypeOK
  <2>4. Suspended(q)' /\ \A r \in Processes : Suspended(r) => Suspended(r)'
    BY <2>1, <2>2 DEF Suspended
  <2>5. Turn' /\ Started'
    BY <2>1, <2>4 DEF IInv, Turn, Started
  <2> QED
    BY <2>3, <2>5 DEF IInv
<1>4. CASE Back
  <2>1. /\ cpu = Nobody /\ pc = "back" /\ pc' = phase /\ frame' = Unset /\ p \in Processes
        /\ n_suspends' = [n_suspends EXCEPT ![p] = n_suspends[p] + 1]
        /\ p' = IF phase = "start" THEN p + 1 ELSE p
        /\ UNCHANGED <<cpu, phase, wait, jumps, clock, signals>>
    BY <1>4 DEF Back, Suspends, NextStart, IInv, Turn
  <2>2. TypeOK'
    <3>1. n_suspends' \in [Processes -> Nat] /\ p' \in 0..NumProcesses
      BY <1>0, <2>1 DEF TypeOK
    <3>2. /\ cpu' = Nobody /\ pc' \in {"start", "dispatch"} /\ phase' = phase
          /\ clock' = clock /\ frame' \in 0..clock /\ signals' = signals /\ wait' = wait
          /\ return_longjmp' = return_longjmp /\ resume_longjmp' = resume_longjmp
      BY <1>0, <2>1 DEF TypeOK
    <3> QED
      BY <1>0, <3>1, <3>2 DEF TypeOK
  <2>3. Turn'
    BY <1>0, <2>1 DEF Turn, TypeOK
  <2>4. Started'
    BY <1>0, <2>1 DEF IInv, Turn, Started, Suspended, TypeOK
  <2> QED
    BY <2>2, <2>3, <2>4 DEF IInv
<1>5. CASE Dispatch
  <2>1. \A q \in Processes : q < p
    BY <1>0, <1>5 DEF Dispatch, TypeOK
  <2> QED
    BY <1>0, <1>5, <2>1 DEF Dispatch, IInv, TypeOK, Turn, Started, Suspended
<1>6. CASE Exit \/ UNCHANGED vars
  BY <1>0, <1>6 DEF Exit, vars, IInv, TypeOK, Turn, Started, Suspended
<1> QED
  BY <1>1, <1>2, <1>3, <1>4, <1>5, <1>6 DEF Next

-----------------------------------------------------------------------------
(* The invariant holds in every reachable state.                           *)
THEOREM Invariance == Spec => []IInv
BY InitInv, NextInv, PTL DEF Spec

(* The variables keep their types.                                         *)
THEOREM TypeCorrect == Spec => []TypeOK
<1>1. IInv => TypeOK
  BY DEF IInv
<1> QED
  BY Invariance, <1>1, PTL

(* No longjmp of test_process.c enters an activation that has returned.    *)
THEOREM JumpsCorrect == Spec => []JumpsLand
<1>1. IInv => JumpsLand
  BY DEF IInv, Turn, Started, Suspended, JumpsLand
<1> QED
  BY Invariance, <1>1, PTL
=============================================================================
