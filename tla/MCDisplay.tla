------------------------------ MODULE MCDisplay ------------------------------
(* The menu and its display with passcodes of two places and ten minutes   *)
(* of fourteen ticks; measurements from "0.00" to "99999.99".              *)
EXTENDS Display

MCCode == {d \in Digits : d[0] = 1}
MCValueLength == 4..8
=============================================================================
