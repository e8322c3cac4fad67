----------------------------- MODULE RebootMark -----------------------------
(****************************************************************************)
(* What the daemon relies on when it marks its node for a reboot: that no   *)
(* daemon gets past the check of the mark before the host has booted, and   *)
(* that the mark of a reboot which has not happened stays.  A mark may come *)
(* when nobody waits for it any more; nothing is promised of that one.      *)
(****************************************************************************)

CONSTANT MayBeLate   \* whether a mark may come late

VARIABLES
    mark,   \* "none", "pending", or "done" when the host has booted after it
    past    \* whether a daemon runs that has got past the check

vars == <<mark, past>>

Init ==
    /\ mark = "none"
    /\ past = FALSE

Pass ==
    /\ mark # "pending"
    /\ past' = TRUE
    /\ UNCHANGED mark

Clear ==
    /\ mark = "done" \/ MayBeLate
    /\ mark' = "none"
    /\ past' \in BOOLEAN

Write ==
    /\ past
    /\ mark' = "pending"
    /\ UNCHANGED past

LateWrite ==
    /\ MayBeLate
    /\ mark' = "pending"
    /\ UNCHANGED past

Stop ==
    /\ past' = FALSE
    /\ UNCHANGED mark

Boot ==
    /\ mark = "pending"
    /\ mark' = "done"
    /\ past' = FALSE

Next == Pass \/ Clear \/ Write \/ LateWrite \/ Stop \/ Boot

Spec == Init /\ [][Next]_vars
=============================================================================
