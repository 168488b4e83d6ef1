------------------------------ MODULE DpdkBind -------------------------------
(***************************************************************************)
(* dpdk-bind/dpdk-bind.sh -c: moving a network card from one driver to     *)
(* another through sysfs.  The script runs under set -e, so any command    *)
(* that fails ends it, and it may be interrupted between two commands; the *)
(* next invocation starts from the state the last one left in the kernel.  *)
(***************************************************************************)
EXTENDS Integers

CONSTANTS
    Nics,         \* PCI ids of the Ethernet cards
    Drivers,      \* the words a user may give for a driver
    Loaded,       \* those with a directory in /sys/bus/pci/drivers
    Module,       \* the driver that knows the cards
    Subsystem,    \* the last word of a card's Subsystem line
    NoDriver,     \* no driver
    MaxRuns       \* bound: invocations in a behaviour

ASSUME BindAssumption ==
    /\ Loaded \subseteq Drivers /\ Module \in Loaded /\ NoDriver \notin Drivers
    /\ Subsystem \notin Loaded \cup {NoDriver}
    /\ Nics \cap Drivers = {} /\ MaxRuns \in Nat

VARIABLES
    bound,     \* the driver each card is bound to
    override,  \* its driver_override
    has_override,  \* the kernel has driver_override files
    header,    \* the lines lspci -k prints of a card between the first and
               \* its driver's: none, Subsystem, or DeviceName and Subsystem
    module,    \* the last word of its Kernel modules line, if it has one
    pc,        \* "idle", a command of the script, or "exit"
    arg2,      \* $2
    arg3,      \* $3
    old_dri,   \* $3 of do_change_bind: the driver column of the table
    rc,        \* exit status: 1 card not found, 2 not reachable, 3 of the
               \* command that failed
    success,   \* "success" was printed
    runs,      \* invocations so far
    before     \* history: bound when the script was started

cards  == <<has_override, header, module>>
kernel == <<bound, override, cards>>
script == <<arg2, arg3, old_dri, runs, before>>
vars   == <<kernel, pc, script, rc, success>>

Init ==
    /\ bound \in [Nics -> Loaded]
    /\ override = [n \in Nics |-> NoDriver] /\ has_override \in BOOLEAN
    /\ header \in [Nics -> 0..2] /\ module \in [Nics -> {Module, NoDriver}]
    /\ pc = "idle" /\ arg2 = NoDriver /\ arg3 = NoDriver /\ old_dri = NoDriver
    /\ rc = 0 /\ success = FALSE /\ runs = 0 /\ before = bound

(* The user runs the script with -c and two words.                         *)
Invoke(x, y) ==
    /\ pc \in {"idle", "exit"} /\ runs < MaxRuns
    /\ arg2' = x /\ arg3' = y
    /\ runs' = runs + 1
    /\ rc' = 0 /\ success' = FALSE /\ before' = bound
    /\ pc' = "load"
    /\ UNCHANGED <<kernel, old_dri>>

Exit(status) ==
    /\ pc' = "exit" /\ rc' = status
    /\ UNCHANGED <<kernel, script, success>>

(* nics_info takes the last word of the third line of lspci -k, which is   *)
(* the driver in use only below a Subsystem line and nothing else; without *)
(* a driver the kernel modules move up.                                    *)
ParsedDriver(n) ==
    CASE header[n] = 2 -> Subsystem
      [] header[n] = 1 -> IF bound[n] # NoDriver THEN bound[n] ELSE module[n]
      [] header[n] = 0 -> IF bound[n] # NoDriver THEN module[n] ELSE NoDriver

(* do_loadinfo, and the loop that looks $2 up among the cards: exit $hr.   *)
LoadInfo ==
    /\ pc = "load"
    /\ IF arg2 \in Nics
         THEN /\ old_dri' = ParsedDriver(arg2)
              /\ pc' = "check"
              /\ UNCHANGED <<kernel, arg2, arg3, runs, before, rc, success>>
         ELSE Exit(1)

PrintSuccess ==
    /\ pc' = "said" /\ success' = TRUE
    /\ UNCHANGED <<kernel, script, rc>>

(* "no need to rebind!": do_change_bind returns, the script goes on.       *)
NoNeed == pc = "check" /\ arg3 = old_dri /\ PrintSuccess

ReachableMutant == arg3 \in Loaded

(* Both directories exist: the card under its old driver, the new driver.  *)
Reachable == old_dri \in Loaded /\ bound[arg2] = old_dri /\ arg3 \in Loaded

NotReachableMutant ==  \* return for exit 2
    pc = "check" /\ arg3 # old_dri /\ ~Reachable /\ PrintSuccess

(* exit 2                                                                  *)
NotReachable == pc = "check" /\ arg3 # old_dri /\ ~Reachable /\ Exit(2)

(* echo $pci >> .../$old_dri/unbind                                        *)
Unbind ==
    /\ pc = "check" /\ arg3 # old_dri /\ Reachable
    /\ bound' = [bound EXCEPT ![arg2] = NoDriver]
    /\ pc' = "override"
    /\ UNCHANGED <<override, cards, script, rc, success>>

(* echo $dri > .../driver_override, where the kernel has that file.  The   *)
(* other branch looks for a path that never exists (it says %pci).         *)
Overridden ==
    IF has_override THEN [override EXCEPT ![arg2] = arg3] ELSE override

Override ==
    /\ pc = "override"
    /\ override' = Overridden
    /\ pc' = "bind"
    /\ UNCHANGED <<bound, cards, script, rc, success>>

(* The kernel binds a card to a driver that its override names, or,        *)
(* without one, that knows the card.  External.                            *)
Matches(n, d) == IF override[n] # NoDriver THEN override[n] = d ELSE d = Module

(* echo $pci >> .../$dri/bind                                              *)
Bind ==
    /\ pc = "bind" /\ Matches(arg2, arg3)
    /\ bound' = [bound EXCEPT ![arg2] = arg3]
    /\ pc' = "done"
    /\ UNCHANGED <<override, cards, script, rc, success>>

(* do_change_bind returns: echo "success"                                  *)
Done == pc = "done" /\ PrintSuccess

EndMutant == pc = "said" /\ Exit(1)  \* hr is not set to 0

(* The loop finds no other card of that id: exit $hr.                      *)
End == pc = "said" /\ Exit(0)

(* A command fails, which ends the script, or the script is interrupted:   *)
(* between any two commands, the bind and the exit included.               *)
Fail == pc \notin {"idle", "exit"} /\ Exit(3)

Next ==
    \/ \E x, y \in Nics \cup Drivers : Invoke(x, y)
    \/ LoadInfo \/ NoNeed \/ NotReachable \/ Unbind \/ Override \/ Bind \/ Done
    \/ End \/ Fail

Spec == Init /\ [][Next]_vars

-----------------------------------------------------------------------------
(* Properties.                                                             *)

TypeOK ==
    /\ bound \in [Nics -> Loaded \cup {NoDriver}]
    /\ override \in [Nics -> Drivers \cup {NoDriver}] /\ has_override \in BOOLEAN
    /\ header \in [Nics -> 0..2] /\ module \in [Nics -> {Module, NoDriver}]
    /\ pc \in {"idle", "load", "check", "override", "bind", "done", "said", "exit"}
    /\ {arg2, arg3} \subseteq Nics \cup Drivers \cup {NoDriver}
    /\ old_dri \in Loaded \cup {Subsystem, NoDriver}
    /\ rc \in 0..3 /\ success \in BOOLEAN /\ runs \in 0..MaxRuns
    /\ before \in [Nics -> Loaded \cup {NoDriver}]

(* A run that exits 0 has said success, and success means that the card is *)
(* bound to the driver asked for.  The exception: the run has done nothing *)
(* at all, and the card had no driver or is one of those whose driver is   *)
(* not on the third line of lspci -k.                                      *)
SuccessMeansBound ==
    /\ pc = "exit" /\ rc = 0 => success
    /\ success =>
          \/ bound[arg2] = arg3
          \/ bound = before /\ (before[arg2] = NoDriver \/ header[arg2] # 1)

(* A run that refuses the card or the driver (1 and 2) has changed         *)
(* nothing.  One that failed or was interrupted, wherever that was, leaves *)
(* the card as it was, without a driver, or with the one asked for.  Other *)
(* cards are never touched.                                                *)
FailureHarmless ==
    pc = "exit" =>
        /\ rc \in {1, 2} => bound = before
        /\ \A n \in Nics : \/ bound[n] = before[n]
                           \/ n = arg2 /\ bound[n] \in {NoDriver, arg3}

(* A card that a failed run has left without a driver stays so: no later   *)
(* run of the script can bind it, whatever its arguments, since the driver *)
(* column of the table no longer names a driver that holds the card.       *)
UnboundIsFinal ==
    [][\A n \in Nics : before[n] = NoDriver => bound'[n] = NoDriver]_vars

(* "success" means that the card is bound to the driver asked for.  It     *)
(* does not hold where the third line of lspci -k is not the driver's: for *)
(* a card without a driver, or without exactly one line before it.         *)
SuccessIsTrue == success => bound[arg2] = arg3
=============================================================================
