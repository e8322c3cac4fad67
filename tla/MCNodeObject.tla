---------------------------- MODULE MCNodeObject ----------------------------
(* Values for NodeObject: both annotations, both conditions, which the daemon sets    *)
(* together after an upgrade, and the second one alone about a reboot; four attempts, *)
(* as in client-go.                                                                   *)
EXTENDS NodeObject, TLC

CONSTANTS HostUpgrades, HostUpgradesReboot, UpToDate, Rebooting

MCConditions == {HostUpgrades, HostUpgradesReboot}

MCReasons == {UpToDate, Rebooting}

MCChanges == {[c \in MCConditions |-> UpToDate], [c \in {HostUpgradesReboot} |-> Rebooting]}
=============================================================================
