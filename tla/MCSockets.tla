----------------------------- MODULE MCSockets ------------------------------
(* Sockets with both server sockets and one master that may vanish.        *)
EXTENDS Sockets

CONSTANTS s1, s2, client
=============================================================================
