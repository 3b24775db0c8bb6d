---------------------------- MODULE MCEventView ----------------------------
(* The viewer on logs of every content up to two records of three bits.    *)
EXTENDS EventView
=============================================================================
