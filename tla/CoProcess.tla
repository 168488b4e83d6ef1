------------------------------ MODULE CoProcess ------------------------------
(***************************************************************************)
(* The coroutines of vpp-test/test_process.c: processes that run on stacks *)
(* of their own and change places with the dispatcher through setjmp,      *)
(* longjmp and calljmp.                                                    *)
(*                                                                         *)
(* A jump buffer holds the activation it was set in: of the dispatcher's   *)
(* function, start_process or vlib_process_resume, or of the process's     *)
(* vlib_process_wait_for_event_or_clock.  Activations are numbered in the  *)
(* order in which they begin.  The handlers demo_1 and demo_2 wait in an   *)
(* endless loop.  The dispatcher's 5 seconds end at any time.              *)
(***************************************************************************)
EXTENDS Integers

CONSTANTS NumProcesses,   \* MAX_PROCESS
          MaxSignals      \* bound: processes signalled in the 5 seconds

ASSUME ProcessAssumption == NumProcesses \in Nat \ {0} /\ MaxSignals \in Nat

Processes == 0..(NumProcesses - 1)
Unset     == 0                        \* a jump buffer that was never set
Nobody    == -1

VARIABLES
    cpu,         \* the process that runs, or Nobody: the dispatcher runs
    pc,          \* where the dispatcher is: "start", "dispatch", "call" in one
                 \* of the two functions, "back" when it returned there, "exit"
    phase,       \* the loop of main it is in
    p,           \* the process the dispatcher works on
    frame,       \* the dispatcher's activation, while pc is "call" or "back"
    wait,        \* of each process: the activation it waits in, or Unset
    return_longjmp,
    resume_longjmp,
    n_suspends,
    clock,       \* activations so far
    signals      \* processes signalled so far

jumps == <<return_longjmp, resume_longjmp>>
vars  == <<cpu, pc, phase, p, frame, wait, jumps, n_suspends, clock, signals>>

Init ==
    /\ cpu = Nobody /\ pc = "start" /\ phase = "start" /\ p = 0 /\ frame = Unset
    /\ wait = [q \in Processes |-> Unset]
    /\ return_longjmp = [q \in Processes |-> Unset]
    /\ resume_longjmp = [q \in Processes |-> Unset]
    /\ n_suspends = [q \in Processes |-> 0]
    /\ clock = 0 /\ signals = 0

-----------------------------------------------------------------------------
(* return_longjmp is set in the activation that begins now.                *)
SetReturn(q) == [return_longjmp EXCEPT ![q] = clock + 1]

(* start_process: setjmp, then calljmp into vlib_process_bootstrap.        *)
StartProcess ==
    /\ cpu = Nobody /\ pc = "start" /\ p \in Processes
    /\ clock' = clock + 1 /\ frame' = clock + 1
    /\ return_longjmp' = SetReturn(p)
    /\ cpu' = p
    /\ pc' = "call"
    /\ UNCHANGED <<phase, p, wait, resume_longjmp, n_suspends, signals>>

(* The setjmp of vlib_process_resume.                                      *)
ResumeReturn(q) == SetReturn(q)

(* One turn of the dispatch loop that signals process q:                   *)
(* vlib_process_resume, which jumps to where the process waits.            *)
Resume(q) ==
    /\ cpu = Nobody /\ pc = "dispatch" /\ signals < MaxSignals
    /\ p' = q
    /\ signals' = signals + 1
    /\ clock' = clock + 1 /\ frame' = clock + 1
    /\ return_longjmp' = ResumeReturn(q)
    /\ cpu' = q
    /\ pc' = "call"
    /\ UNCHANGED <<phase, wait, resume_longjmp, n_suspends>>

ResumePointMutant(q) ==
    IF resume_longjmp[q] = Unset THEN [resume_longjmp EXCEPT ![q] = clock + 1]
                                 ELSE resume_longjmp

(* The setjmp of vlib_process_wait_for_event_or_clock.                     *)
ResumePoint(q) == [resume_longjmp EXCEPT ![q] = clock + 1]

(* The process, in its handler's loop, waits: the call begins, sets        *)
(* resume_longjmp and jumps to return_longjmp.                             *)
Suspend(q) ==
    /\ cpu = q
    /\ clock' = clock + 1
    /\ wait' = [wait EXCEPT ![q] = clock + 1]
    /\ resume_longjmp' = ResumePoint(q)
    /\ cpu' = Nobody
    /\ pc' = "back"
    /\ UNCHANGED <<phase, p, frame, return_longjmp, n_suspends, signals>>

(* p->n_suspends += 1, in both functions.                                  *)
Suspends == [n_suspends EXCEPT ![p] = n_suspends[p] + 1]

(* The next process of vec_foreach.                                        *)
NextStart == p + 1

(* The setjmp returns VLIB_PROCESS_RETURN_LONGJMP_SUSPEND, and the         *)
(* function returns to its loop in main.                                   *)
Back ==
    /\ cpu = Nobody /\ pc = "back"
    /\ n_suspends' = Suspends
    /\ frame' = Unset
    /\ p' = IF phase = "start" THEN NextStart ELSE p
    /\ pc' = phase
    /\ UNCHANGED <<cpu, phase, wait, jumps, clock, signals>>

(* All are started.                                                        *)
Dispatch ==
    /\ cpu = Nobody /\ pc = "start" /\ p \notin Processes
    /\ pc' = "dispatch" /\ phase' = "dispatch"
    /\ UNCHANGED <<cpu, p, frame, wait, jumps, n_suspends, clock, signals>>

(* The 5 seconds are over: main frees the processes.                       *)
Exit ==
    /\ cpu = Nobody /\ pc = "dispatch"
    /\ pc' = "exit"
    /\ UNCHANGED <<cpu, phase, p, frame, wait, jumps, n_suspends, clock, signals>>

-----------------------------------------------------------------------------
Next ==
    \/ StartProcess \/ Back \/ Dispatch \/ Exit
    \/ \E q \in Processes : Resume(q) \/ Suspend(q)

Spec == Init /\ [][Next]_vars

-----------------------------------------------------------------------------
(* Properties.                                                             *)

TypeOK ==
    /\ cpu \in Processes \cup {Nobody} /\ p \in 0..NumProcesses
    /\ pc \in {"start", "dispatch", "call", "back", "exit"}
    /\ phase \in {"start", "dispatch"}
    /\ clock \in Nat /\ frame \in 0..clock /\ signals \in 0..MaxSignals
    /\ wait \in [Processes -> 0..clock]
    /\ return_longjmp \in [Processes -> 0..clock]
    /\ resume_longjmp \in [Processes -> 0..clock]
    /\ n_suspends \in [Processes -> Nat]

(* A jump never enters a function that has returned.  While a process      *)
(* runs, its return_longjmp leads to the dispatcher's activation that let  *)
(* it run and still waits for it; and whenever the dispatcher may signal,  *)
(* every process is suspended, and its resume_longjmp leads to the wait it *)
(* is in, not to an earlier one.                                           *)
JumpsLand ==
    /\ cpu # Nobody => p = cpu /\ return_longjmp[cpu] = frame
    /\ pc = "dispatch" =>
           \A q \in Processes : wait[q] # Unset /\ resume_longjmp[q] = wait[q]
=============================================================================
