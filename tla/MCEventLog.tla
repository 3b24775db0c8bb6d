----------------------------- MODULE MCEventLog -----------------------------
(* The event log with two kinds of record and three slots: the menu may    *)
(* interrupt at every step, the power may fail at every step, and the log  *)
(* is empty, partly filled and full.                                       *)
EXTENDS EventLog
=============================================================================
