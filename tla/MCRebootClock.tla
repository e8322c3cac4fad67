--------------------------- MODULE MCRebootClock ---------------------------
(* A clock of two ticks a second that is wrong by up to a second and a half. *)
EXTENDS RebootClock, TLC
=============================================================================
