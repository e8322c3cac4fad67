----------------------------- MODULE LockService -----------------------------
(****************************************************************************)
(* What the rest of the daemon relies on when it calls AcquireLock and      *)
(* ReleaseLock: a lock with one owner per cluster.  The owner is a node,    *)
(* not a process: a daemon that restarts finds itself the owner of what its *)
(* predecessor on the node had taken.                                       *)
(*                                                                          *)
(* A daemon is "inside" between the return of AcquireLock and the call of   *)
(* ReleaseLock or its death.  A node may own the lock with nobody inside:   *)
(* its daemon died, is releasing the lock, or never learnt that its request *)
(* had been granted.                                                        *)
(****************************************************************************)

CONSTANTS
    Nodes,   \* the nodes of the cluster
    Free     \* the owner of a lock that nobody holds

VARIABLES
    owner,   \* the node that owns the lock, or Free
    inside   \* the nodes whose daemon runs with the lock held

vars == <<owner, inside>>

Init ==
    /\ owner = Free
    /\ inside = {}

\* The daemon of n is told that it has the lock, which was free or n's already.
Enter(n) ==
    /\ owner \in {Free, n}
    /\ owner' = n
    /\ inside' = inside \cup {n}

\* n becomes the owner and no daemon is told.
Grant(n) ==
    /\ owner = Free
    /\ owner' = n
    /\ UNCHANGED inside

Leave(n) ==
    /\ inside' = inside \ {n}
    /\ UNCHANGED owner

\* The lock is freed by its owner only, and never under its daemon.
Drop(n) ==
    /\ owner = n
    /\ n \notin inside
    /\ owner' = Free
    /\ UNCHANGED inside

Next == \E n \in Nodes : Enter(n) \/ Grant(n) \/ Leave(n) \/ Drop(n)

Spec == Init /\ [][Next]_vars
=============================================================================
