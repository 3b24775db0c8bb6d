------------------------------- MODULE Clock --------------------------------
(***************************************************************************)
(* The real-time clock: the ISL1208 chip behind the I2C bus (isl1208.c),   *)
(* the copy rtcTime that stamps the events, the pages 130 and 131 that set *)
(* it and the Bluetooth command ST.  The main loop talks to the chip one   *)
(* register at a time; the timer interrupt with the menu comes between any *)
(* two of these transfers, and the chip counts on between them.            *)
(*                                                                         *)
(* Year, minute and second are left out: they are read, set and counted    *)
(* like month and hour.  Of the menu there is what Panel promises.  An     *)
(* interrupt in the middle of a transfer is the subject of EventLog.       *)
(***************************************************************************)
EXTENDS Integers, Sequences

CONSTANTS Last,       \* the last value of each register
          Commanded   \* the times the command ST is sent with

(* The registers in the order they are read and written.                   *)
Order == <<"hour", "day", "mon">>
Register == {"hour", "day", "mon"}
First == [hour |-> 0, day |-> 1, mon |-> 1]
Date == {"day", "mon"}
Time == {"hour"}
Byte == 0..255

ASSUME ClockAssumption ==
  /\ Last \in [Register -> 1..99]
  /\ Commanded \subseteq [Register -> 0..99]

VARIABLES
  rtc,             \* the registers of the chip
  wrtc,            \* its bit WRTC: the registers may be written
  mDateTimeConfig, \* the time read last, as the pages show and change it
  page,            \* the page of the menu
  setting,         \* m_menu.operationMode: a value is being changed
  main,            \* what the main loop does with the chip
  stime,           \* the time the command ST carries
  ticked,          \* the interrupt has come during this reading
  left,            \* the operator has left the panel
  by               \* history: who set each register

chip == <<rtc, wrtc, by>>
menu == <<page, setting>>
Menu == INSTANCE Panel
vars == <<chip, mDateTimeConfig, menu, main, stime, ticked, left>>

(* The main loop is idle, reads the time for the home page, or is in one   *)
(* of the steps of isl1208_i2c_set_time: WRTC set, three registers written, *)
(* WRTC cleared.                                                           *)
Idle == 0
Steps == 1..5
Reads == 6

TypeOK ==
  /\ rtc \in [Register -> Byte]
  /\ wrtc \in BOOLEAN
  /\ mDateTimeConfig \in [Register -> Byte]
  /\ page \in Menu!Kind
  /\ setting \in BOOLEAN
  /\ main \in {Idle, Reads} \cup Steps
  /\ stime \in Commanded
  /\ ticked \in BOOLEAN
  /\ left \in BOOLEAN
  /\ by \in [Register -> {"nobody", "panel", "command"}]

(* The chip counts; a month is followed by the next, a year by itself.     *)
Carried(r, f) ==
  \A n \in 1..3 : (\E k \in n + 1..3 : Order[k] = f) => r[Order[n]] >= Last[Order[n]]
Second(r) ==
  [f \in Register |-> IF ~Carried(r, f) THEN r[f]
                      ELSE IF r[f] >= Last[f] THEN First[f] ELSE r[f] + 1]

(* isl1208_i2c_read_time: a second passes before the k-th transfer, so the *)
(* registers from the k-th on are read after it; k = 4: no second passes.  *)
Reading(r, k) ==
  [f \in Register |-> IF \E n \in k..3 : Order[n] = f THEN Second(r)[f] ELSE r[f]]
AfterReading(r, k) == IF k <= 3 THEN Second(r) ELSE r

(* getDateTime and setDate: the pages count day and month from zero.       *)
Shown(r) == [f \in Register |-> IF f \in Date THEN (r[f] + 255) % 256 ELSE r[f]]
Unshown(d) == [f \in Register |-> IF f \in Date THEN (d[f] + 1) % 256 ELSE d[f]]

(* What was read is kept in rtcTime too, which stamps the events; here it  *)
(* only counts when that was.                                              *)
GetDateTime == \E k \in 1..4 : /\ rtc' = AfterReading(rtc, k)
                              /\ mDateTimeConfig' = Shown(Reading(rtc, k))

Init ==
  /\ rtc = First /\ wrtc = TRUE         \* isl1208_i2c_set_sr(0x10)
  /\ by = [f \in Register |-> "nobody"]
  /\ mDateTimeConfig = [f \in Register |-> 0]
  /\ Menu!Init
  /\ main = Idle
  /\ stime \in Commanded
  /\ ticked = FALSE /\ left = FALSE

RtcSecond ==
  /\ rtc' = Second(rtc)
  /\ UNCHANGED <<wrtc, by, mDateTimeConfig, menu, main, stime, ticked, left>>

-----------------------------------------------------------------------------
(* The main loop.                                                          *)

(* timeDisplay, every 333 ms: only the home page reads the clock.          *)
WrongDisplays == TRUE
Displays == page = "home"

TimeDisplay ==
  /\ main = Idle /\ Displays
  /\ main' = Reads /\ ticked' = FALSE
  /\ UNCHANGED <<chip, mDateTimeConfig, menu, stime, left>>

TimeRead ==
  /\ main = Reads
  /\ GetDateTime
  /\ main' = Idle
  /\ UNCHANGED <<wrtc, by, menu, stime, ticked, left>>

(* The command ST: isl1208_i2c_set_time one transfer at a time.            *)
StCommand ==
  /\ main = Idle /\ main' = 1
  /\ stime' \in Commanded
  /\ by' = [f \in Register |-> "nobody"]
  /\ UNCHANGED <<rtc, wrtc, mDateTimeConfig, menu, ticked, left>>

SetWrtc ==
  /\ main = 1 /\ main' = 2
  /\ wrtc' = TRUE
  /\ UNCHANGED <<rtc, by, mDateTimeConfig, menu, stime, ticked, left>>

(* The chip takes a register only while WRTC is set.                       *)
WriteRegister ==
  /\ main \in 2..4 /\ main' = main + 1
  /\ LET f == Order[main - 1]
     IN /\ rtc' = IF wrtc THEN [rtc EXCEPT ![f] = stime[f]] ELSE rtc
        /\ by'  = IF wrtc THEN [by EXCEPT ![f] = "command"] ELSE by
  /\ UNCHANGED <<wrtc, mDateTimeConfig, menu, stime, ticked, left>>

ClearWrtc ==
  /\ main = 5 /\ main' = Idle
  /\ wrtc' = FALSE
  /\ UNCHANGED <<rtc, by, mDateTimeConfig, menu, stime, ticked, left>>

-----------------------------------------------------------------------------
(* The timer interrupt.  It comes every 20 ms, and the chip is read in     *)
(* less: at most once during a reading of the main loop.                   *)
Tick ==
  /\ main = Reads => ~ticked
  /\ ticked' = (main = Reads)
  /\ UNCHANGED <<main, stime>>

(* Another page; selectMenuDisplay reads the clock for the pages 130, 131. *)
ChangePage ==
  /\ ~left /\ Tick
  /\ Menu!ChangePage
  /\ IF page' \in Menu!ClockPage
       THEN GetDateTime
       ELSE UNCHANGED <<rtc, mDateTimeConfig>>
  /\ UNCHANGED <<wrtc, by, left>>

(* SET and ESC                                                             *)
ChangeMode ==
  /\ ~left /\ Tick
  /\ Menu!ChangeMode
  /\ UNCHANGED <<chip, mDateTimeConfig, left>>

(* increaseDate .. decreaseTime with limitDateTime, by ten or by one.      *)
Limited(v, limit) == IF v > limit THEN 0 ELSE IF v < 0 THEN limit ELSE v
Limit(f) == IF f \in Date THEN Last[f] - 1 ELSE Last[f]
Edit ==
  /\ ~left /\ setting /\ Tick
  /\ \E f \in IF page = "date" THEN Date ELSE Time, d \in {-10, -1, 1, 10} :
       mDateTimeConfig' =
         [mDateTimeConfig EXCEPT ![f] = Limited(@ + d, Limit(f))]
  /\ UNCHANGED <<chip, menu, left>>

(* setDate and setTime read the clock again for the half that is not set;  *)
(* setTime takes the day and the month as they are shown, one too low.     *)
SetDate(now) ==
  [f \in Register |-> IF f \in Date THEN Unshown(mDateTimeConfig)[f]
                      ELSE Shown(now)[f]]
SetTime(now) ==
  [f \in Register |-> IF f \in Time THEN mDateTimeConfig[f] ELSE Shown(now)[f]]

(* isl1208_i2c_set_time sets WRTC for its writes and leaves it cleared.    *)
WrongWrtcAfterSet == TRUE
WrtcAfterSet == FALSE

(* A bound: once setTime has made the day or the month zero, the chip is   *)
(* not set again; what it counts from there its data sheet does not say.   *)
InCalendar == \A f \in Date : rtc[f] > 0

Enter ==
  /\ ~left /\ setting /\ Tick
  /\ InCalendar
  /\ \E k \in 1..4 :
       rtc' = IF page = "date" THEN SetDate(Reading(rtc, k))
              ELSE SetTime(Reading(rtc, k))
  /\ wrtc' = WrtcAfterSet
  /\ by' = [f \in Register |-> "panel"]
  /\ mDateTimeConfig' = Shown(rtc')
  /\ UNCHANGED <<menu, left>>

(* autoReturnToHome, ten minutes after the last change of page (Menu).     *)
WrongReturnsFrom == {"date", "time"}
ReturnsFrom == {"other", "date", "time"}
ReturnHome ==
  /\ page \in ReturnsFrom /\ Tick
  /\ Menu!ReturnHome
  /\ UNCHANGED <<chip, mDateTimeConfig, left>>

Leave ==
  /\ ~left /\ left' = TRUE
  /\ UNCHANGED <<chip, mDateTimeConfig, menu, main, stime, ticked>>

MainStep == TimeDisplay \/ TimeRead \/ StCommand \/ SetWrtc \/ WriteRegister \/ ClearWrtc
PanelStep == ChangePage \/ ChangeMode \/ Edit \/ Enter \/ ReturnHome \/ Leave

Next == RtcSecond \/ MainStep \/ PanelStep

(* The signal of the 333 ms timer waits in the queue of the stack until    *)
(* the main loop takes it, whatever commands come before it; what the main *)
(* loop has begun goes on, and the ten minutes pass.                       *)
Fairness ==
  /\ SF_vars(TimeDisplay) /\ WF_vars(ReturnHome)
  /\ WF_vars(TimeRead) /\ WF_vars(SetWrtc \/ WriteRegister \/ ClearWrtc)

Spec == Init /\ [][Next]_vars /\ Fairness

-----------------------------------------------------------------------------
(* Requirements.                                                           *)

(* When a panel and a command set the clock at once, the chip has all of   *)
(* one setting or all of the other, never the date of one and the time of  *)
(* the other: the panel leaves WRTC cleared and with it drops what remains *)
(* of the command it interrupted.                                          *)
OneSetting == main = Idle => \A f, g \in Register : by[f] = by[g]

(* The main loop never overwrites a date or time that is being changed.    *)
EditKept == [][setting /\ main' # main => UNCHANGED mDateTimeConfig]_vars

(* However the panel was left, the time that stamps the events is read     *)
(* again and again: rtcTime is only read on the home page.                 *)
StampsRefreshed == []<>(left => page = "home" /\ main = Reads)
=============================================================================
