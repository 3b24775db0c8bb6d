------------------------------ MODULE MCClock -------------------------------
(* A clock of two hours, two days and two months.             *)
EXTENDS Clock

MCLast == [hour |-> 1, day |-> 2, mon |-> 2]
MCCommanded == {[hour |-> 1, day |-> 2, mon |-> 2]}
=============================================================================
