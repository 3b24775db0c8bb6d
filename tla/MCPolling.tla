------------------------------ MODULE MCPolling ------------------------------
(* The scheduler on the slots that check a sensor's communication and      *)
(* the slots that carry its status word.                                   *)
EXTENDS Polling

AllBits == [s \in Status |-> Bit]
=============================================================================
