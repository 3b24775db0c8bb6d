----------------------------- MODULE ClockProofs -----------------------------
(***************************************************************************)
(* Proofs about Clock for registers of any size and any commands: type     *)
(* correctness, that panel and command never leave a mixture of two        *)
(* settings, and that the main loop leaves a value being changed alone.    *)
(***************************************************************************)
EXTENDS Clock, TLAPS

USE DEF chip, menu, Menu!ClockPage

Registers == [Register -> Byte]

-----------------------------------------------------------------------------
(* What the chip counts and what is read of it.                            *)

LEMMA SecondType ==
  ASSUME NEW r \in Registers
  PROVE  Second(r) \in Registers
<1>1. ASSUME NEW f \in Register
      PROVE  IF ~Carried(r, f) THEN r[f] \in Byte
             ELSE (IF r[f] >= Last[f] THEN First[f] ELSE r[f] + 1) \in Byte
  BY ClockAssumption DEF Registers, Register, Byte, First
<1>2. QED
  BY <1>1 DEF Second, Registers

LEMMA ReadingType ==
  ASSUME NEW r \in Registers, NEW k \in 1..4
  PROVE  Reading(r, k) \in Registers /\ AfterReading(r, k) \in Registers
  BY SecondType DEF Reading, AfterReading, Registers

LEMMA ShownType ==
  ASSUME NEW r \in Registers
  PROVE  Shown(r) \in Registers /\ Unshown(r) \in Registers
<1>1. ASSUME NEW f \in Register
      PROVE  (r[f] + 255) % 256 \in Byte /\ (r[f] + 1) % 256 \in Byte
  BY DEF Registers, Byte
<1>2. QED
  BY <1>1 DEF Shown, Unshown, Registers

LEMMA GetDateTimeType ==
  ASSUME TypeOK, GetDateTime
  PROVE  rtc' \in Registers /\ mDateTimeConfig' \in Registers
<1>1. PICK k \in 1..4 : /\ rtc' = AfterReading(rtc, k)
                        /\ mDateTimeConfig' = Shown(Reading(rtc, k))
  BY DEF GetDateTime
<1>2. QED
  BY <1>1, ReadingType, ShownType DEF TypeOK, Registers

-----------------------------------------------------------------------------
(* Type correctness.                                                       *)
LEMMA InitTypeOK == Init => TypeOK
<1> SUFFICES ASSUME Init
             PROVE  TypeOK
  OBVIOUS
<1>1. First \in [Register -> Byte]
  BY DEF First, Register, Byte
<1>2. /\ mDateTimeConfig \in [Register -> Byte]
      /\ by \in [Register -> {"nobody", "panel", "command"}]
  BY DEF Init, Byte
<1>3. page \in Menu!Kind /\ setting \in BOOLEAN
  BY DEF Init, Menu!Init, Menu!Kind
<1>4. QED
  BY <1>1, <1>2, <1>3 DEF Init, TypeOK

LEMMA NextTypeOK == TypeOK /\ [Next]_vars => TypeOK'
<1> SUFFICES ASSUME TypeOK, [Next]_vars
             PROVE  TypeOK'
  OBVIOUS
<1> USE DEF Idle, Reads, Steps
<1>1. CASE RtcSecond
  BY <1>1, SecondType DEF RtcSecond, TypeOK, Registers
<1>2. CASE TimeDisplay \/ StCommand \/ SetWrtc \/ ClearWrtc
  <2>1. by' \in [Register -> {"nobody", "panel", "command"}]
    BY <1>2 DEF TimeDisplay, StCommand, SetWrtc, ClearWrtc, TypeOK
  <2>2. wrtc' \in BOOLEAN /\ ticked' \in BOOLEAN /\ left' \in BOOLEAN
    BY <1>2, Zenon DEF TimeDisplay, StCommand, SetWrtc, ClearWrtc, TypeOK
  <2>3. main' \in {Idle, Reads} \cup Steps
    BY <1>2 DEF TimeDisplay, StCommand, SetWrtc, ClearWrtc
  <2>4. QED
    BY <1>2, <2>1, <2>2, <2>3, Zenon
       DEF TimeDisplay, StCommand, SetWrtc, ClearWrtc, TypeOK
<1>3. CASE TimeRead
  BY <1>3, GetDateTimeType DEF TimeRead, TypeOK, Registers
<1>4. CASE WriteRegister
  <2> DEFINE f == Order[main - 1]
  <2>1. f \in Register
    BY <1>4 DEF WriteRegister, Order, Register
  <2>2. stime[f] \in Byte
    BY <2>1, ClockAssumption DEF TypeOK, Byte
  <2>3. rtc' \in Registers
    BY <1>4, <2>2 DEF WriteRegister, TypeOK, Registers
  <2>4. by' \in [Register -> {"nobody", "panel", "command"}]
    BY <1>4 DEF WriteRegister, TypeOK
  <2>5. main' \in Steps
    BY <1>4 DEF WriteRegister
  <2>6. QED
    BY <1>4, <2>3, <2>4, <2>5 DEF WriteRegister, TypeOK, Registers
<1>5. ASSUME Tick
      PROVE  ticked' \in BOOLEAN
  BY <1>5 DEF Tick
<1>6. CASE ChangePage
  <2>1. rtc' \in Registers /\ mDateTimeConfig' \in Registers
    BY <1>6, GetDateTimeType DEF ChangePage, TypeOK, Registers
  <2>2. page' \in Menu!Kind
    BY <1>6 DEF ChangePage, Menu!ChangePage, Menu!Neighbours, Menu!Kind, TypeOK
  <2>3. QED
    BY <1>5, <1>6, <2>1, <2>2 DEF ChangePage, Menu!ChangePage, Tick, TypeOK, Registers
<1>7. CASE ChangeMode
  BY <1>5, <1>7 DEF ChangeMode, Menu!ChangeMode, Tick, TypeOK
<1>8. CASE Edit
  <2>1. PICK f \in Register, d \in {-10, -1, 1, 10} :
          mDateTimeConfig' = [mDateTimeConfig EXCEPT ![f] = Limited(@ + d, Limit(f))]
    BY <1>8, Zenon DEF Edit, Date, Time, Register
  <2>2. Limit(f) \in 0..99
    BY ClockAssumption DEF Limit
  <2>3. mDateTimeConfig[f] \in Byte
    BY DEF TypeOK
  <2>4. Limited(mDateTimeConfig[f] + d, Limit(f)) \in Byte
    BY <2>2, <2>3 DEF Limited, Byte
  <2>5. mDateTimeConfig' \in Registers
    BY <2>1, <2>4 DEF TypeOK, Registers
  <2>6. QED
    BY <1>5, <1>8, <2>5 DEF Edit, Tick, TypeOK, Registers
<1>9. CASE Enter
  <2>1. PICK k \in 1..4 :
          rtc' = IF page = "date" THEN SetDate(Reading(rtc, k)) ELSE SetTime(Reading(rtc, k))
    BY <1>9, Zenon DEF Enter
  <2>2. Reading(rtc, k) \in Registers /\ mDateTimeConfig \in Registers
    BY ReadingType DEF TypeOK, Registers
  <2>3. /\ Shown(Reading(rtc, k)) \in Registers
        /\ Unshown(mDateTimeConfig) \in Registers
    BY <2>2, ShownType
  <2>4. rtc' \in Registers
    BY <2>1, <2>2, <2>3 DEF SetDate, SetTime, Registers
  <2>5. mDateTimeConfig' \in Registers
    BY <1>9, <2>4, ShownType DEF Enter
  <2>6. QED
    BY <1>5, <1>9, <2>4, <2>5 DEF Enter, WrtcAfterSet, Tick, TypeOK, Registers
<1>10. CASE ReturnHome
  BY <1>5, <1>10 DEF ReturnHome, Menu!ReturnHome, Menu!Kind, Tick, TypeOK
<1>11. CASE Leave \/ UNCHANGED vars
  BY <1>11 DEF Leave, vars, TypeOK
<1>12. QED
  BY <1>1, <1>2, <1>3, <1>4, <1>6, <1>7, <1>8, <1>9, <1>10, <1>11
     DEF Next, MainStep, PanelStep

(* The copy of the chip's registers that the pages show and change, and    *)
(* everything else, keeps its type whatever is set and counted.            *)
THEOREM TypeCorrect == Spec => []TypeOK
  BY InitTypeOK, NextTypeOK, PTL DEF Spec

-----------------------------------------------------------------------------
(* Two settings at once.  While the command writes, WRTC tells whether it  *)
(* has the chip: then what it has written is its own and the rest is of    *)
(* one origin; without WRTC the panel has come in between and all is       *)
(* the panel's.                                                            *)
OneOrigin == \A f, g \in Register : by[f] = by[g]
Half ==
  /\ \A n \in 1..3 : n < main - 1 => by[Order[n]] = "command"
  /\ \A n, k \in 1..3 : n >= main - 1 /\ k >= main - 1 => by[Order[n]] = by[Order[k]]
Origins ==
  /\ TypeOK
  /\ main \in 2..5 /\ wrtc => Half
  /\ main \in 2..5 /\ ~wrtc => OneOrigin
  /\ main \notin 2..5 => OneOrigin

LEMMA InitOrigins == Init => Origins
  BY InitTypeOK DEF Init, Origins, OneOrigin, Register, Idle

LEMMA NextOrigins == Origins /\ [Next]_vars => Origins'
<1> SUFFICES ASSUME Origins, [Next]_vars
             PROVE  Origins'
  OBVIOUS
<1> USE DEF Idle, Reads, Steps
<1>t. TypeOK /\ TypeOK'
  BY NextTypeOK DEF Origins
<1>u. ASSUME UNCHANGED <<by, wrtc, main>>
      PROVE  Origins'
  BY <1>t, <1>u DEF Origins, OneOrigin, Half
<1>1. CASE RtcSecond \/ ChangePage \/ ChangeMode \/ Edit \/ ReturnHome \/ Leave
  BY <1>1, <1>u DEF RtcSecond, ChangePage, ChangeMode, Edit, ReturnHome, Leave, Tick
<1>2. CASE TimeDisplay \/ TimeRead
  <2>1. OneOrigin' /\ main' \notin 2..5
    BY <1>2 DEF TimeDisplay, TimeRead, Origins, OneOrigin
  <2>2. QED
    BY <1>t, <2>1 DEF Origins
<1>3. CASE StCommand
  <2>1. OneOrigin' /\ main' \notin 2..5
    BY <1>3 DEF StCommand, OneOrigin
  <2>2. QED
    BY <1>t, <2>1 DEF Origins
<1>4. CASE SetWrtc
  <2>1. OneOrigin' /\ main' = 2 /\ wrtc'
    BY <1>4 DEF SetWrtc, Origins, OneOrigin
  <2>2. Half'
    BY <2>1 DEF OneOrigin, Half, Order, Register
  <2>3. QED
    BY <1>t, <2>1, <2>2 DEF Origins
<1>5. CASE WriteRegister
  <2>1. main \in 2..4 /\ main' = main + 1 /\ wrtc' = wrtc
    BY <1>5 DEF WriteRegister
  <2>2. CASE wrtc
    <3>1. by' = [by EXCEPT ![Order[main - 1]] = "command"]
      BY <1>5, <2>2 DEF WriteRegister
    <3>2. Half
      BY <2>1, <2>2 DEF Origins
    <3>3. by \in [Register -> {"nobody", "panel", "command"}]
      BY <1>t DEF TypeOK
    <3>4. ASSUME main = 2
          PROVE  Half'
      BY <2>1, <3>1, <3>2, <3>3, <3>4 DEF Half, Order, Register
    <3>5. ASSUME main = 3
          PROVE  Half'
      BY <2>1, <3>1, <3>2, <3>3, <3>5 DEF Half, Order, Register
    <3>6. ASSUME main = 4
          PROVE  Half'
      BY <2>1, <3>1, <3>2, <3>3, <3>6 DEF Half, Order, Register
    <3>7. Half'
      BY <2>1, <3>4, <3>5, <3>6
    <3>8. QED
      BY <1>t, <2>1, <2>2, <3>7 DEF Origins
  <2>3. CASE ~wrtc
    <3>1. OneOrigin /\ by' = by
      BY <1>5, <2>1, <2>3 DEF WriteRegister, Origins
    <3>2. QED
      BY <1>t, <2>1, <2>3, <3>1 DEF Origins, OneOrigin
  <2>4. QED
    BY <2>2, <2>3
<1>6. CASE ClearWrtc
  <2>1. OneOrigin
    BY <1>6 DEF ClearWrtc, Origins, Half, OneOrigin, Order, Register
  <2>2. QED
    BY <1>t, <1>6, <2>1 DEF ClearWrtc, Origins, OneOrigin
<1>7. CASE Enter
  <2>1. OneOrigin' /\ ~wrtc'
    BY <1>7 DEF Enter, WrtcAfterSet, OneOrigin
  <2>2. QED
    BY <1>t, <2>1 DEF Origins
<1>8. CASE UNCHANGED vars
  BY <1>8, <1>u DEF vars
<1>9. QED
  BY <1>1, <1>2, <1>3, <1>4, <1>5, <1>6, <1>7, <1>8 DEF Next, MainStep, PanelStep

(* Whatever the operator and the command ST do at the same time, the       *)
(* registers of the chip are of one setting once the main loop is done:    *)
(* isl1208_i2c_set_time clears WRTC at its end.                            *)
THEOREM SettingsWhole == Spec => []OneSetting
<1>1. Origins => OneSetting
  BY DEF Origins, OneOrigin, OneSetting, Idle
<1>2. QED
  BY <1>1, InitOrigins, NextOrigins, PTL DEF Spec

-----------------------------------------------------------------------------
(* The main loop reads only for the home page; the one interrupt that may  *)
(* come during a reading gets no further than the page next to it, where   *)
(* nothing is set.                                                         *)
ReadsAtHome ==
  /\ TypeOK
  /\ setting => page \in Menu!ClockPage
  /\ main = Reads => ~setting
  /\ main = Reads /\ ~ticked => page = "home"

LEMMA InitReads == Init => ReadsAtHome
  BY InitTypeOK DEF Init, Menu!Init, ReadsAtHome, Idle, Reads

LEMMA NextReads == ReadsAtHome /\ [Next]_vars => ReadsAtHome'
<1> SUFFICES ASSUME ReadsAtHome, [Next]_vars
             PROVE  ReadsAtHome'
  OBVIOUS
<1> USE DEF Idle, Reads, Steps
<1>t. TypeOK /\ TypeOK'
  BY NextTypeOK DEF ReadsAtHome
<1>1. CASE RtcSecond \/ Leave \/ UNCHANGED vars
  BY <1>1, <1>t DEF RtcSecond, Leave, vars, ReadsAtHome
<1>2. CASE TimeDisplay
  BY <1>2, <1>t DEF TimeDisplay, Displays, ReadsAtHome
<1>3. CASE TimeRead \/ StCommand \/ SetWrtc \/ WriteRegister \/ ClearWrtc
  <2>1. main' # Reads /\ UNCHANGED <<page, setting>>
    BY <1>3 DEF TimeRead, StCommand, SetWrtc, WriteRegister, ClearWrtc
  <2>2. QED
    BY <1>t, <2>1 DEF ReadsAtHome
<1>4. CASE ChangePage
  <2>1. Tick /\ ~setting /\ ~setting'
    BY <1>4 DEF ChangePage, Menu!ChangePage
  <2>2. QED
    BY <1>t, <2>1 DEF Tick, ReadsAtHome
<1>5. CASE ChangeMode
  <2>1. Tick /\ page \in Menu!ClockPage /\ page' = page /\ main # Reads
    BY <1>5 DEF ChangeMode, Menu!ChangeMode, Tick, ReadsAtHome
  <2>2. QED
    BY <1>t, <2>1 DEF Tick, ReadsAtHome
<1>6. CASE Edit \/ Enter
  <2>1. Tick /\ setting /\ UNCHANGED <<page, setting>>
    BY <1>6 DEF Edit, Enter
  <2>2. QED
    BY <1>t, <2>1 DEF Tick, ReadsAtHome
<1>7. CASE ReturnHome
  <2>1. Tick /\ page' = "home" /\ ~setting'
    BY <1>7 DEF ReturnHome, Menu!ReturnHome
  <2>2. QED
    BY <1>t, <2>1 DEF Tick, ReadsAtHome
<1>8. QED
  BY <1>1, <1>2, <1>3, <1>4, <1>5, <1>6, <1>7 DEF Next, MainStep, PanelStep

(* A date or time being changed on its page is never overwritten by the    *)
(* reading of the main loop.                                               *)
THEOREM EditsKept == Spec => EditKept
<1>1. ReadsAtHome /\ [Next]_vars
        => [setting /\ main' # main => UNCHANGED mDateTimeConfig]_vars
  <2> SUFFICES ASSUME ReadsAtHome, Next, setting, main' # main
               PROVE  UNCHANGED mDateTimeConfig
    BY DEF vars
  <2>1. ~TimeRead
    BY DEF TimeRead, ReadsAtHome
  <2>2. ~PanelStep /\ ~RtcSecond
    BY DEF PanelStep, ChangePage, ChangeMode, Edit, Enter, ReturnHome, Leave,
           Tick, RtcSecond
  <2>3. QED
    BY <2>1, <2>2 DEF Next, MainStep, TimeDisplay, StCommand, SetWrtc,
                      WriteRegister, ClearWrtc
<1>2. QED
  BY <1>1, InitReads, NextReads, PTL DEF Spec, EditKept
=============================================================================
