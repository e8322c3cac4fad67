----------------------------- MODULE MCKubeLock -----------------------------
(* KubeLock for TLC: the nodes are model values. *)
EXTENDS KubeLock, TLC
=============================================================================
