--------------------------- MODULE DpdkBindProofs ----------------------------
(***************************************************************************)
(* Proofs about DpdkBind, for any cards and drivers and any number of      *)
(* invocations.                                                            *)
(***************************************************************************)
EXTENDS DpdkBind, TLAPS

(* Up to the check nothing was touched, and the driver column of the table *)
(* is about the card as it is.                                             *)
Untouched ==
    /\ pc \in {"idle", "load", "check"} => bound = before
    /\ pc = "check" => old_dri = ParsedDriver(arg2)

(* From the unbind to the success, the card was given up by the driver it  *)
(* had.                                                                    *)
OneCard ==
    /\ pc \in {"check", "override", "bind", "done", "said"} => arg2 \in Nics
    /\ pc \in {"override", "bind", "done"} => before[arg2] # NoDriver /\ arg3 \in Loaded
    /\ pc \in {"override", "bind"} => bound[arg2] = NoDriver
    /\ pc = "done" => bound[arg2] = arg3

(* At any time, no other card was touched, and this one is as it was, free *)
(* or with the driver asked for.                                           *)
OthersUntouched ==
    \A n \in Nics : \/ bound[n] = before[n]
                    \/ n = arg2 /\ bound[n] \in {NoDriver, arg3}

(* "success" is the last word.                                             *)
SaidOnce == /\ pc \notin {"said", "exit"} => ~success
            /\ pc = "said" => success

(* A card without a driver is never given one.                             *)
StaysUnbound == \A n \in Nics : before[n] = NoDriver => bound[n] = NoDriver

(* The inductive invariant.                                                *)
IInv ==
    /\ TypeOK /\ Untouched /\ OneCard /\ OthersUntouched /\ SaidOnce /\ StaysUnbound
    /\ SuccessMeansBound /\ FailureHarmless

USE BindAssumption

(* The initial states satisfy the invariant.                               *)
LEMMA InitInv == Init => IInv
<1> SUFFICES ASSUME Init PROVE IInv
  OBVIOUS
<1>1. TypeOK
  <2>1. success \in BOOLEAN /\ has_override \in BOOLEAN
    BY Zenon DEF Init
  <2>2. /\ bound \in [Nics -> Loaded \cup {NoDriver}]
        /\ override \in [Nics -> Drivers \cup {NoDriver}]
        /\ before \in [Nics -> Loaded \cup {NoDriver}]
    BY DEF Init
  <2>3. /\ pc = "idle" /\ arg2 = NoDriver /\ arg3 = NoDriver /\ old_dri = NoDriver
        /\ rc \in 0..3 /\ runs \in 0..MaxRuns
        /\ header \in [Nics -> 0..2] /\ module \in [Nics -> {Module, NoDriver}]
    BY DEF Init
  <2> QED
    BY <2>1, <2>2, <2>3 DEF TypeOK
<1>2. Untouched /\ OneCard /\ OthersUntouched /\ StaysUnbound
  BY DEF Init, Untouched, OneCard, OthersUntouched, StaysUnbound
<1>3. SaidOnce /\ SuccessMeansBound /\ FailureHarmless
  BY DEF Init, SaidOnce, SuccessMeansBound, FailureHarmless
<1> QED
  BY <1>1, <1>2, <1>3 DEF IInv

(* The driver column names the card's own driver if there is one and the   *)
(* line is where it is looked for.                                         *)
LEMMA Parsed ==
    ASSUME TypeOK, NEW n \in Nics
    PROVE  /\ ParsedDriver(n) \in Loaded \cup {Subsystem, NoDriver}
           /\ bound[n] # NoDriver /\ header[n] = 1 => ParsedDriver(n) = bound[n]
<1>1. header[n] \in 0..2 /\ module[n] \in {Module, NoDriver} /\ bound[n] \in Loaded \cup {NoDriver}
  BY DEF TypeOK
<1> QED
  BY <1>1 DEF ParsedDriver

(* The script ends, and nothing is changed by that.                        *)
LEMMA ExitInv ==
    ASSUME IInv, NEW status \in 0..3, Exit(status), pc \notin {"idle", "exit"},
           status = 0 => success, status \in {1, 2} => bound = before
    PROVE  IInv'
<1> USE DEF kernel, cards, script
<1>1. pc' = "exit" /\ rc' = status /\ UNCHANGED <<kernel, script, success>>
  BY DEF Exit
<1>2. TypeOK'
  BY <1>1 DEF IInv, TypeOK
<1>3. Untouched' /\ OneCard' /\ OthersUntouched' /\ StaysUnbound'
  BY <1>1 DEF IInv, Untouched, OneCard, OthersUntouched, StaysUnbound
<1>4. SaidOnce' /\ SuccessMeansBound'
  BY <1>1 DEF IInv, SaidOnce, SuccessMeansBound
<1>5. FailureHarmless'
  BY <1>1 DEF IInv, FailureHarmless, OthersUntouched
<1> QED
  BY <1>2, <1>3, <1>4, <1>5 DEF IInv

(* It says the word.                                                       *)
LEMMA SuccessInv ==
    ASSUME IInv, PrintSuccess, pc \in {"check", "done"},
           \/ bound[arg2] = arg3
           \/ bound = before /\ (before[arg2] = NoDriver \/ header[arg2] # 1)
    PROVE  IInv'
<1> USE DEF kernel, cards, script
<1>1. success' /\ success' \in BOOLEAN
  BY Zenon DEF PrintSuccess
<1>2. TypeOK'
  BY <1>1 DEF IInv, TypeOK, PrintSuccess
<1>3. Untouched' /\ OneCard' /\ OthersUntouched' /\ StaysUnbound'
  BY DEF IInv, Untouched, OneCard, OthersUntouched, StaysUnbound, PrintSuccess
<1>4. SaidOnce' /\ SuccessMeansBound' /\ FailureHarmless'
  BY <1>1 DEF SaidOnce, SuccessMeansBound, FailureHarmless, PrintSuccess
<1> QED
  BY <1>2, <1>3, <1>4 DEF IInv

(* Every step preserves the invariant.                                     *)
LEMMA NextInv == ASSUME IInv, [Next]_vars PROVE IInv'
<1> USE DEF kernel, cards, script
<1>0. TypeOK
  BY DEF IInv
<1>1. ASSUME NEW x \in Nics \cup Drivers, NEW y \in Nics \cup Drivers, Invoke(x, y)
      PROVE  IInv'
  <2>1. ~success' /\ success' \in BOOLEAN
    BY <1>1, Zenon DEF Invoke
  <2>2. TypeOK'
    BY <1>0, <1>1, <2>1 DEF Invoke, TypeOK
  <2>3. Untouched' /\ OneCard' /\ OthersUntouched' /\ StaysUnbound'
    BY <1>1 DEF Invoke, Untouched, OneCard, OthersUntouched, StaysUnbound
  <2> QED
    BY <1>1, <2>1, <2>2, <2>3 DEF IInv, Invoke, SaidOnce, SuccessMeansBound, FailureHarmless
<1>2. CASE LoadInfo
  <2>1. CASE arg2 \notin Nics
    BY <1>2, <2>1, ExitInv DEF LoadInfo, IInv, Untouched
  <2>2. CASE arg2 \in Nics
    <3>1. /\ old_dri' = ParsedDriver(arg2) /\ pc = "load" /\ pc' = "check"
          /\ UNCHANGED <<kernel, arg2, arg3, runs, before, rc, success>>
      BY <1>2, <2>2 DEF LoadInfo
    <3>2. TypeOK'
      BY <1>0, <2>2, <3>1, Parsed DEF TypeOK
    <3>3. Untouched' /\ OneCard' /\ OthersUntouched' /\ StaysUnbound'
      BY <2>2, <3>1 DEF IInv, Untouched, OneCard, OthersUntouched, StaysUnbound, ParsedDriver
    <3>4. SaidOnce' /\ SuccessMeansBound' /\ FailureHarmless'
      BY <3>1 DEF IInv, SaidOnce, SuccessMeansBound, FailureHarmless
    <3> QED
      BY <3>2, <3>3, <3>4 DEF IInv
  <2> QED
    BY <2>1, <2>2
<1>3. CASE NoNeed
  <2>1. /\ pc = "check" /\ arg3 = old_dri /\ PrintSuccess /\ arg2 \in Nics
        /\ bound = before /\ old_dri = ParsedDriver(arg2)
    BY <1>3 DEF NoNeed, IInv, Untouched, OneCard
  <2> QED
    BY <1>0, <2>1, Parsed, SuccessInv
<1>4. CASE NotReachable
  BY <1>4, ExitInv DEF NotReachable, IInv, Untouched
<1>5. CASE Unbind
  <2>1. /\ pc = "check" /\ pc' = "override" /\ Reachable /\ arg2 \in Nics
        /\ bound = before /\ old_dri = ParsedDriver(arg2)
        /\ bound' = [bound EXCEPT ![arg2] = NoDriver]
        /\ UNCHANGED <<override, cards, script, rc, success>>
    BY <1>5 DEF Unbind, IInv, Untouched, OneCard
  <2>2. before[arg2] # NoDriver /\ arg3 \in Loaded
    BY <1>0, <2>1, Parsed DEF Reachable
  <2>3. TypeOK'
    BY <1>0, <2>1 DEF TypeOK
  <2>4. Untouched' /\ OneCard' /\ OthersUntouched' /\ StaysUnbound'
    BY <1>0, <2>1, <2>2 DEF IInv, Untouched, OneCard, OthersUntouched, StaysUnbound, TypeOK
  <2>5. SaidOnce' /\ SuccessMeansBound' /\ FailureHarmless'
    BY <2>1 DEF IInv, SaidOnce, SuccessMeansBound, FailureHarmless
  <2> QED
    BY <2>3, <2>4, <2>5 DEF IInv
<1>6. CASE Override
  <2>1. /\ pc = "override" /\ pc' = "bind" /\ override' = Overridden
        /\ UNCHANGED <<bound, cards, script, rc, success>>
    BY <1>6 DEF Override
  <2>2. TypeOK'
    <3>1. arg2 \in Nics /\ arg3 \in Loaded
      BY <2>1 DEF IInv, OneCard
    <3>2. Overridden \in [Nics -> Drivers \cup {NoDriver}]
      BY <1>0, <3>1 DEF Overridden, TypeOK
    <3> QED
      BY <1>0, <2>1, <3>2 DEF TypeOK
  <2>3. Untouched' /\ OneCard' /\ OthersUntouched' /\ StaysUnbound'
    BY <2>1 DEF IInv, Untouched, OneCard, OthersUntouched, StaysUnbound
  <2>4. SaidOnce' /\ SuccessMeansBound' /\ FailureHarmless'
    BY <2>1 DEF IInv, SaidOnce, SuccessMeansBound, FailureHarmless
  <2> QED
    BY <2>2, <2>3, <2>4 DEF IInv
<1>7. CASE Bind
  <2>1. /\ pc = "bind" /\ pc' = "done" /\ bound' = [bound EXCEPT ![arg2] = arg3]
        /\ UNCHANGED <<override, cards, script, rc, success>>
        /\ arg2 \in Nics /\ arg3 \in Loaded /\ before[arg2] # NoDriver
    BY <1>7 DEF Bind, IInv, OneCard
  <2>2. TypeOK'
    BY <1>0, <2>1 DEF TypeOK
  <2>3. Untouched' /\ OneCard' /\ OthersUntouched' /\ StaysUnbound'
    BY <1>0, <2>1 DEF IInv, Untouched, OneCard, OthersUntouched, StaysUnbound, TypeOK
  <2>4. SaidOnce' /\ SuccessMeansBound' /\ FailureHarmless'
    BY <2>1 DEF IInv, SaidOnce, SuccessMeansBound, FailureHarmless
  <2> QED
    BY <2>2, <2>3, <2>4 DEF IInv
<1>8. CASE Done
  BY <1>8, SuccessInv DEF Done, IInv, OneCard
<1>9. CASE End
  BY <1>9, ExitInv DEF End, IInv, SaidOnce
<1>10. CASE Fail
  BY <1>10, ExitInv DEF Fail
<1>11. CASE UNCHANGED vars
  BY <1>11 DEF vars, IInv, TypeOK, Untouched, OneCard, OthersUntouched, StaysUnbound,
               SaidOnce, SuccessMeansBound, FailureHarmless, ParsedDriver
<1> QED
  BY <1>1, <1>2, <1>3, <1>4, <1>5, <1>6, <1>7, <1>8, <1>9, <1>10, <1>11 DEF Next

-----------------------------------------------------------------------------
(* The invariant holds in every reachable state.                           *)
THEOREM Invariance == Spec => []IInv
BY InitInv, NextInv, PTL DEF Spec

(* The variables keep their types.                                         *)
THEOREM TypeCorrect == Spec => []TypeOK
<1>1. IInv => TypeOK
  BY DEF IInv
<1> QED
  BY Invariance, <1>1, PTL

(* Exit status 0 comes with "success", and "success" is true of every card *)
(* whose driver lspci -k lists on its third line when the run begins,      *)
(* whatever earlier runs did; on any other it may have done nothing.       *)
THEOREM SuccessCorrect == Spec => []SuccessMeansBound
<1>1. IInv => SuccessMeansBound
  BY DEF IInv
<1> QED
  BY Invariance, <1>1, PTL

(* Wherever set -e or a signal stops the script, up to its last command,   *)
(* no card has a driver that it did not have before, but for the card it   *)
(* was given and the driver asked for; a run that refuses changes nothing. *)
THEOREM FailureCorrect == Spec => []FailureHarmless
<1>1. IInv => FailureHarmless
  BY DEF IInv
<1> QED
  BY Invariance, <1>1, PTL

(* No command of the script binds a card that had no driver when the run   *)
(* began: a run that failed after the unbind cannot be repaired by another.*)
THEOREM UnboundCorrect == Spec => UnboundIsFinal
<1>1. ASSUME IInv, [Next]_vars
      PROVE  \A n \in Nics : before[n] = NoDriver => bound'[n] = NoDriver
  <2> SUFFICES ASSUME NEW n \in Nics, before[n] = NoDriver PROVE bound'[n] = NoDriver
    OBVIOUS
  <2> USE DEF kernel, cards
  <2>0. bound[n] = NoDriver /\ bound \in [Nics -> Loaded \cup {NoDriver}]
    BY <1>1 DEF IInv, StaysUnbound, TypeOK
  <2>1. CASE Bind
    BY <1>1, <2>0, <2>1 DEF Bind, IInv, OneCard
  <2>2. CASE Unbind
    BY <2>0, <2>2 DEF Unbind
  <2>3. CASE bound' = bound
    BY <2>0, <2>3
  <2>4. Bind \/ Unbind \/ bound' = bound
    BY <1>1 DEF Next, vars, Invoke, LoadInfo, NoNeed, NotReachable, Override, Done, End, Fail,
                Exit, PrintSuccess
  <2> QED
    BY <2>1, <2>2, <2>3, <2>4
<1> QED
  BY Invariance, <1>1, PTL DEF Spec, UnboundIsFinal
=============================================================================
