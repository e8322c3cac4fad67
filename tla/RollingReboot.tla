---------------------------- MODULE RollingReboot ----------------------------
(****************************************************************************)
(* What the operator of a cluster relies on with --drain: nodes are taken   *)
(* out of service by the one of them that owns the lock.  A node is         *)
(* rebooted only when it is drained, and it is back in service before the   *)
(* lock is.  An owner may give the lock up with its node drained when a     *)
(* step of its run fails, but never with its host going down.               *)
(****************************************************************************)

CONSTANTS
    Nodes,      \* the nodes of the cluster
    Free,       \* the owner of a lock that nobody holds
    MayGiveUp   \* whether a step after the drain may fail

VARIABLES
    owner,      \* the node that owns the lock, or Free
    nodes       \* of each node, "serving", "drained" or "rebooting"

vars == <<owner, nodes>>

Init ==
    /\ owner = Free
    /\ nodes = [n \in Nodes |-> "serving"]

Acquire(n) ==
    /\ owner = Free
    /\ nodes[n] = "serving"
    /\ owner' = n
    /\ UNCHANGED nodes

Release(n) ==
    /\ owner = n
    /\ nodes[n] = "serving"
    /\ owner' = Free
    /\ UNCHANGED nodes

GiveUp(n) ==
    /\ MayGiveUp
    /\ owner = n
    /\ nodes[n] = "drained"
    /\ owner' = Free
    /\ UNCHANGED nodes

Becomes(n, from, to) ==
    /\ nodes[n] = from
    /\ nodes' = [nodes EXCEPT ![n] = to]
    /\ UNCHANGED owner

Leave(n) == owner = n /\ Becomes(n, "serving", "drained")

GoDown(n) == owner = n /\ Becomes(n, "drained", "rebooting")

Boot(n) == Becomes(n, "rebooting", "drained")

\* By the next daemon on the node, with the lock or after it was given up.
Uncordon(n) == Becomes(n, "drained", "serving")

Next ==
    \E n \in Nodes :
        \/ Acquire(n) \/ Release(n) \/ GiveUp(n)
        \/ Leave(n) \/ GoDown(n) \/ Boot(n) \/ Uncordon(n)

Spec == Init /\ [][Next]_vars
-----------------------------------------------------------------------------
TypeOK ==
    /\ owner \in Nodes \cup {Free}
    /\ nodes \in [Nodes -> {"serving", "drained", "rebooting"}]

\* A host that goes down has the lock; so does every node that is not in service, as
\* long as nothing fails after the drain.
OutOfServiceOwns ==
    \A n \in Nodes :
        nodes[n] = "rebooting" \/ (~MayGiveUp /\ nodes[n] # "serving") => owner = n

\* No two nodes go down at the same time.
OneRebooting ==
    \A m, n \in Nodes : nodes[m] = "rebooting" /\ nodes[n] = "rebooting" => m = n

\* No two nodes are out of service at the same time.
OneOutOfService ==
    \A m, n \in Nodes : nodes[m] # "serving" /\ nodes[n] # "serving" => m = n
=============================================================================
