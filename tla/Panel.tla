------------------------------- MODULE Panel --------------------------------
(***************************************************************************)
(* What the menu promises the clock: which page follows which, with all    *)
(* pages but the home page and those of date and time taken together, and  *)
(* when one of the latter is being changed.  Menu implements it; Clock     *)
(* builds on it.                                                           *)
(***************************************************************************)
VARIABLES page, setting

ClockPage == {"date", "time"}
Kind == {"home", "other"} \cup ClockPage

Init == page = "home" /\ setting = FALSE

(* Date and time are siblings below another page; none is next to home.    *)
Neighbours(p) ==
  CASE p = "home"       -> {"home", "other"}
    [] p = "other"      -> Kind
    [] p \in ClockPage  -> {"other"} \cup ClockPage

ChangePage == ~setting /\ page' \in Neighbours(page) /\ UNCHANGED setting

(* A value is changed on its page, which stays.                            *)
ChangeMode == page \in ClockPage /\ setting' = ~setting /\ UNCHANGED page

(* After ten minutes, also while a value is being changed.                 *)
ReturnHome == page # "home" /\ page' = "home" /\ setting' = FALSE

Next == ChangePage \/ ChangeMode \/ ReturnHome
Spec == Init /\ [][Next]_<<page, setting>>
=============================================================================
