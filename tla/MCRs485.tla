------------------------------- MODULE MCRs485 -------------------------------
(* Rs485 and Frame for TLC.  A tick is 33 ms: the pause after a failure is *)
(* one tick, the timeout, the polling pause and the guard are three, and   *)
(* an answer takes up to two.  Noise and data are made of an address and   *)
(* the function code.                                                      *)
EXTENDS Rs485Frames

CONSTANTS s1, s2, r1, r2, m1
=============================================================================
