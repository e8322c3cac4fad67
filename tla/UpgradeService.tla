--------------------------- MODULE UpgradeService ---------------------------
(****************************************************************************)
(* What the scheduled run relies on when it calls host.Upgrade: it returns  *)
(* nil when the unit that it has started is done, with what the script left *)
(* for a required reboot.  An error says nothing about the unit.            *)
(****************************************************************************)

VARIABLES
    phase,      \* "out", "called", "awaits" its unit, or "returned"
    result,     \* what the call returned; NoStatus in every other phase
    unit,       \* "inactive", "running" or "failed"
    required    \* whether the script has left a file for a required reboot

vars == <<phase, result, unit, required>>

NoStatus == [failed |-> FALSE, required |-> FALSE]

Init ==
    /\ phase = "out"
    /\ result = NoStatus
    /\ unit = "inactive"
    /\ required = FALSE

Call ==
    /\ phase = "out"
    /\ phase' = "called"
    /\ UNCHANGED <<result, unit, required>>

\* A unit that has failed is reset, one that runs is left alone.
Reset ==
    /\ phase = "called"
    /\ unit = "failed"
    /\ unit' = "inactive"
    /\ UNCHANGED <<phase, result, required>>

Start ==
    /\ phase = "called"
    /\ unit # "running"
    /\ phase' = "awaits"
    /\ unit' = "running"
    /\ UNCHANGED <<result, required>>

Succeed ==
    /\ phase = "awaits"
    /\ unit = "inactive"
    /\ phase' = "returned"
    /\ result' = [failed |-> FALSE, required |-> required]
    /\ UNCHANGED <<unit, required>>

\* The unit may have been started with the answer lost.
Fail ==
    /\ phase \in {"called", "awaits"}
    /\ phase' = "returned"
    /\ result' \in {[failed |-> TRUE, required |-> r] : r \in {FALSE, required}}
    /\ unit' = unit \/ (phase = "called" /\ unit # "running" /\ unit' = "running")
    /\ UNCHANGED required

\* The run goes on, or the daemon is gone.
Leave ==
    /\ phase' = "out"
    /\ result' = NoStatus
    /\ UNCHANGED <<unit, required>>

Script ==
    /\ unit = "running"
    /\ required => required'
    /\ required' \in BOOLEAN
    /\ unit' \in {"inactive", "running", "failed"}
    /\ UNCHANGED <<phase, result>>

\* The host boots, and forgets what is under /run.
Boot ==
    /\ phase' = "out"
    /\ result' = NoStatus
    /\ unit' = "inactive"
    /\ required' = FALSE

Next == Call \/ Reset \/ Start \/ Succeed \/ Fail \/ Leave \/ Script \/ Boot

Spec == Init /\ [][Next]_vars
=============================================================================
