------------------------- MODULE RollingRebootProofs -------------------------
(****************************************************************************)
(* What RollingReboot promises, for any number of nodes.                    *)
(****************************************************************************)
EXTENDS RollingReboot, TLAPS

\* Owner and nodes keep their types, and a node that goes down, or is out of service
\* with no failure after its drain, owns the lock.
THEOREM OwnershipInvariant ==
  ASSUME Free \notin Nodes
  PROVE  Spec => [](TypeOK /\ OutOfServiceOwns)
<1> USE DEF TypeOK, OutOfServiceOwns
<1>1. Init => TypeOK /\ OutOfServiceOwns
  BY DEF Init
<1>2. ASSUME TypeOK, OutOfServiceOwns, [Next]_vars
      PROVE  TypeOK' /\ OutOfServiceOwns'
  <2>1. CASE UNCHANGED vars
    BY <1>2, <2>1 DEF vars
  <2>2. ASSUME NEW n \in Nodes, Acquire(n)
        PROVE  TypeOK' /\ OutOfServiceOwns'
    BY <1>2, <2>2 DEF Acquire
  <2>3. ASSUME NEW n \in Nodes, Release(n) \/ GiveUp(n)
        PROVE  TypeOK' /\ OutOfServiceOwns'
    BY <1>2, <2>3 DEF Release, GiveUp
  <2>4. ASSUME NEW n \in Nodes, Leave(n) \/ GoDown(n) \/ Boot(n) \/ Uncordon(n)
        PROVE  TypeOK' /\ OutOfServiceOwns'
    BY <1>2, <2>4 DEF Leave, GoDown, Boot, Uncordon, Becomes
  <2>5. QED
    BY <1>2, <2>1, <2>2, <2>3, <2>4 DEF Next
<1>3. QED
  BY <1>1, <1>2, PTL DEF Spec

\* Whatever fails, no two nodes go down at the same time.
THEOREM OneNodeReboots ==
  ASSUME Free \notin Nodes
  PROVE  Spec => []OneRebooting
<1>1. OutOfServiceOwns => OneRebooting
  BY DEF OutOfServiceOwns, OneRebooting
<1>2. QED
  BY <1>1, OwnershipInvariant, PTL

\* If nothing fails after a drain, no two nodes are out of service at the same time.
THEOREM OneNodeOutOfService ==
  ASSUME Free \notin Nodes, ~MayGiveUp
  PROVE  Spec => []OneOutOfService
<1>1. OutOfServiceOwns => OneOutOfService
  BY DEF OutOfServiceOwns, OneOutOfService
<1>2. QED
  BY <1>1, OwnershipInvariant, PTL
=============================================================================
