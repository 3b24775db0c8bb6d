---------------------------- MODULE MCNetConfig ----------------------------
(* The network configuration with one member of eth, one other member and  *)
(* two values of each.                                                     *)
EXTENDS NetConfig

CONSTANTS v1, v2
DefaultConfig == [f \in Field |-> v1]
=============================================================================
