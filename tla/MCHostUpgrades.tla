--------------------------- MODULE MCHostUpgrades ---------------------------
(* HostUpgrades for TLC: the nodes are interchangeable model values. *)
EXTENDS HostUpgrades, Naturals, TLC

Symmetry == Permutations(Nodes)

\* What the steps and the safety properties depend on: no guard reads a condition, and
\* the properties only read whether a node is said to be rebooting.
SafetyView ==
    <<locks, daemon, machine, cordon, mark, [n \in Nodes |-> reboots[n] = "Rebooting"],
      {<<request[1], request[2]>> : request \in lateNode}>>

\* Bound: the requests that are on their way at the same time.
FewLate == Cardinality(lateLock) + Cardinality(lateNode) <= 1
=============================================================================
