--------------------------- MODULE MCUpgradeUnit ---------------------------
(* Every system, and two daemons after one another of which one has a configuration. *)
EXTENDS UpgradeUnit, TLC
=============================================================================
