------------------------------ MODULE EventSlots ------------------------------
(* The record slots of the event log, which the log and its viewer share.  *)
EXTENDS Integers, Sequences

CONSTANT MaxEventCount  \* MAX_EVENT_COUNT, the number of record slots

ASSUME SlotsAssumption == MaxEventCount \in Nat \ {0}

Slots == 0..(MaxEventCount - 1)
=============================================================================
