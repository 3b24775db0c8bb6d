------------------------------- MODULE MCW5500 -------------------------------
(* One connection after the other with buffers of eight bytes, pointers    *)
(* that wrap at sixteen, and bytes of four values: a size up to three has  *)
(* one digit, a larger one two, and a full buffer ends in a zero.          *)
EXTENDS W5500
MCSegment == {3, 5}
MCMessage == {4}
MCFirst == {14}
=============================================================================
