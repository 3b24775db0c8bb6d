-------------------------------- MODULE Menu --------------------------------
(***************************************************************************)
(* The menu of the front panel (menu.c): its tree of pages, the passcode,  *)
(* the setting mode and the return to the home page after ten minutes.     *)
(* All of it runs in the timer interrupt, every 20 ms, on the one button   *)
(* event of Buttons; a Bluetooth command may change a passcode between two *)
(* ticks.                                                                  *)
(*                                                                         *)
(* m_menu.index[STAGE1..STAGE3] are top, sub and item here, passLevel is   *)
(* level and currentId is page.  The values the pages set are left out:    *)
(* NetConfig has the network pages, Clock those of date and time, Polling  *)
(* the sensor pages and EventView page 301.                                *)
(***************************************************************************)
EXTENDS Integers

CONSTANTS
  Digit,       \* 0..Digit-1 are the values of a passcode digit
  LastPlace,   \* a passcode has the places 0..LastPlace
  Code,        \* passcodes that may be configured
  TenMinutes   \* TEN_MINUTE, in ticks

Place == 0..LastPlace
Digits == [Place -> 0..Digit - 1]
Zeros == [p \in Place |-> 0]

ASSUME CodeAssumption ==
  /\ Digit \in Nat /\ Digit > 1 /\ LastPlace \in 0..254
  /\ Code \subseteq Digits
ASSUME TimeAssumption == TenMinutes \in Nat /\ TenMinutes > 1

VARIABLES
  m_menu,      \* the record of that name
  tPassCode,   \* the digits entered so far
  mPassCode,   \* the configured passcodes of level 1 and 2
  accTimer,    \* autoReturnToHome: ticks without a change of page...
  prevMenu,    \* ...and that page; -1 before the first tick
  cleared,     \* the last tick has cleared the event log
  idle         \* history: ticks since the last button, up to TenMinutes + 1

vars == <<m_menu, tPassCode, mPassCode, accTimer, prevMenu, cleared, idle>>

Button == {"up", "down", "left", "right", "set", "enter", "esc", "bluetooth"}

None == 255              \* an index that selects nothing
HeadLine == 0  Setting == 1  Measurement == 2  EventList == 3

SensorPage == 100..105
ModePage == 110..111
NetworkPage == 120..126
ClockPage == 130..131
DigitPage == {14, 31}
Page == (0..3) \cup (10..14) \cup SensorPage \cup ModePage \cup NetworkPage
        \cup ClockPage \cup (20..26) \cup {30, 31, 301}

TypeOK ==
  /\ m_menu \in [stage : 0..2, top : 0..3, sub : (0..6) \cup {None},
                 item : (0..6) \cup {None}, page : Page,
                 mode : {"shopping", "setting"}, x : 0..255, level : 0..2]
  /\ tPassCode \in Digits
  /\ mPassCode \in [1..2 -> Code]
  /\ accTimer \in 0..TenMinutes
  /\ prevMenu \in Page \cup {-1}
  /\ cleared \in BOOLEAN
  /\ idle \in 0..TenMinutes + 1

-----------------------------------------------------------------------------
\* Definitions named "Wrong..." are variants with one mistake each; the
\* properties are seen to fail when one of them replaces the definition
\* that follows it.

(* The pages below page 13 - sub of the settings: two of date and time,    *)
(* seven of the network, two of the mode, six of the sensors.              *)
SizeOf(sub) == <<2, 7, 2, 6>>[sub + 1]

(* The tree: page 13 - sub has the pages 130.., 120.., 110.. or 100.., of  *)
(* which 123 and 124 are swapped.                                          *)
ItemPage(sub, item) ==
  IF sub = 1 /\ item \in {3, 4} THEN 127 - item ELSE (13 - sub) * 10 + item

(* getMenu: the page of a position; without a passcode everything below    *)
(* page 1 is page 14.                                                      *)
PageOf(m) ==
  LET setting == m.top = Setting /\ m.level # 0
      locked  == m.top = Setting /\ m.level = 0
  IN CASE setting /\ m.sub = None /\ m.item = None    -> 1
       [] setting /\ m.sub \in 0..3 /\ m.item = None  -> 13 - m.sub
       [] setting /\ m.sub \in 0..3 /\ m.item \in 0..SizeOf(m.sub) - 1
                                                      -> ItemPage(m.sub, m.item)
       [] locked /\ m.stage = 1 /\ m.page \in {1, 14} -> 14
       [] locked /\ m.stage = 0                       -> 1
       [] m.top = Measurement /\ m.sub = None /\ m.item = None   -> 2
       [] m.top = Measurement /\ m.sub \in 0..6 /\ m.item = None -> 20 + m.sub
       [] m.top = EventList /\ m.sub = None /\ m.item = None     -> 3
       [] m.top = EventList /\ m.sub \in 0..1 /\ m.item = None   -> 30 + m.sub
       [] m.top = EventList /\ m.sub = 0 /\ m.item = 0           -> 301
       [] OTHER                                                  -> 0

(* upDateMenuId, selectMenuDisplay: getMenu with its side effect on the    *)
(* locked settings, and the page becomes the current one.                  *)
Show(m) ==
  [m EXCEPT !.page = PageOf(m),
            !.sub = IF m.top = Setting /\ m.level = 0 /\ PageOf(m) # 0
                    THEN None ELSE @]

(* initMenu                                                                *)
Home == [stage |-> 0, top |-> HeadLine, sub |-> None, item |-> None, page |-> 0,
         mode |-> "shopping", x |-> 0, level |-> 0]

Init ==
  /\ m_menu = Home
  /\ tPassCode = Zeros
  /\ mPassCode \in [1..2 -> Code]
  /\ accTimer = 0 /\ prevMenu = -1
  /\ cleared = FALSE
  /\ idle = 0

-----------------------------------------------------------------------------
(* menuProcess: walking through the tree ("shopping").                     *)

(* The number of entries the buttons UP and DOWN go round; 256 where the   *)
(* code has no limit but that of a byte.                                   *)
WrongEntries(m) ==     \* the level is forgotten
  CASE m.stage = 0                          -> 4
    [] m.top = Setting /\ m.stage = 1       -> 4
    [] m.top = Setting /\ m.stage = 2 /\ m.sub \in 0..3 -> SizeOf(m.sub)
    [] m.top = Measurement /\ m.stage = 1   -> 7
    [] m.top = EventList /\ m.stage = 1     -> 2
    [] m.top = EventList /\ m.stage = 2     -> 1
    [] OTHER                                -> 256
Entries(m) ==
  CASE m.stage = 0                          -> 4
    [] m.top = Setting /\ m.stage = 1       -> IF m.level = 2 THEN 4 ELSE 2
    [] m.top = Setting /\ m.stage = 2 /\ m.sub \in 0..3 -> SizeOf(m.sub)
    [] m.top = Measurement /\ m.stage = 1   -> 7
    [] m.top = EventList /\ m.stage = 1     -> 2
    [] m.top = EventList /\ m.stage = 2     -> 1
    [] OTHER                                -> 256

(* m_menu.index[m_menu.stage]                                              *)
Index(m) == <<m.top, m.sub, m.item>>[m.stage + 1]
PutIndex(m, i) ==
  CASE m.stage = 0 -> [m EXCEPT !.top = i]
    [] m.stage = 1 -> [m EXCEPT !.sub = i]
    [] m.stage = 2 -> [m EXCEPT !.item = i]

(* At the first stage the stages below are forgotten.                      *)
Select(m, i) ==
  IF m.stage = 0 THEN [m EXCEPT !.top = i, !.sub = None, !.item = None]
  ELSE PutIndex(m, i)

MoveUp(m) ==
  Select(m, IF Index(m) = None THEN 0
            ELSE IF Index(m) = 0 THEN Entries(m) - 1 ELSE Index(m) - 1)
MoveDown(m) ==
  Select(m, IF Index(m) = None THEN 0 ELSE (Index(m) + 1) % Entries(m))

(* limitStage: how deep the buttons lead.                                  *)
Deepest(m) ==
  CASE m.top = Setting     -> IF m.level = 0 THEN 1 ELSE 2
    [] m.top = Measurement -> 1
    [] m.top = EventList   -> 2
    [] OTHER               -> 0

MoveRight(m) ==
  LET s == IF m.stage + 1 >= Deepest(m) THEN Deepest(m) ELSE m.stage + 1
  IN CASE s = 0 -> [m EXCEPT !.stage = s, !.sub = None, !.item = None]
       [] s = 1 -> [m EXCEPT !.stage = s, !.item = None,
                             !.sub = IF @ = None THEN 0 ELSE @]
       [] s = 2 -> [m EXCEPT !.stage = s, !.item = IF @ = None THEN 0 ELSE @]

(* Back at the first stage the passcode is forgotten (clearPassCode).      *)
MoveLeft(m) ==
  CASE m.stage <= 1 -> [m EXCEPT !.stage = 0, !.sub = None, !.item = None,
                                 !.level = 0]
    [] m.stage = 2  -> [m EXCEPT !.stage = 1, !.item = None]

IsSettingMenu(p) == p \in 100..150 \cup DigitPage

Moved(m, b) ==
  CASE b = "up"    -> MoveUp(m)
    [] b = "down"  -> MoveDown(m)
    [] b = "left"  -> MoveLeft(m)
    [] b = "right" -> MoveRight(m)
    [] b = "set"   -> [m EXCEPT !.mode = IF IsSettingMenu(m.page)
                                         THEN "setting" ELSE @]
    [] b = "esc"   -> [m EXCEPT !.mode = "shopping"]
    [] OTHER       -> m

-----------------------------------------------------------------------------
(* setProcess: changing the value of a page ("setting").                   *)

(* limitX: the last place of the value of a page.                          *)
XLimit(p) ==
  CASE p \in 120..123    -> 11
    [] p = 124           -> 4
    [] p = 125           -> 7
    [] p = 126           -> 2
    [] p \in ClockPage   -> 5
    [] p \in DigitPage   -> LastPlace
    [] OTHER             -> 0

IncreasePosition(m) == [m EXCEPT !.x = IF @ + 1 > XLimit(m.page) THEN 0 ELSE @ + 1]
DecreasePosition(m) == [m EXCEPT !.x = IF @ = 0 THEN XLimit(m.page) ELSE @ - 1]

(* increasePassCode, decreasePassCode                                      *)
Typed(m, t, b) ==
  [t EXCEPT ![m.x] = (IF b = "up" THEN @ + 1 ELSE @ + Digit - 1) % Digit]

LevelOf(t, old) ==
  IF t = mPassCode[2] THEN 2 ELSE IF t = mPassCode[1] THEN 1 ELSE old

(* The log is cleared with the place still selected and the level in       *)
(* force; both are given up before the page is chosen (clearPassCode).     *)
Accept(m) ==
  LET shop == [m EXCEPT !.mode = "shopping"]
  IN CASE m.top = Setting   -> PutIndex(shop, 0)
       [] m.top = EventList -> PutIndex([shop EXCEPT !.level = 0], None)
       [] OTHER             -> shop

WrongUnlock(b) ==         \* the page is not chosen anew
  LET t   == Typed(m_menu, tPassCode, b)
      m   == [m_menu EXCEPT !.level = LevelOf(t, @)]
      hit == m.level # 0 /\ m.top = EventList
  IN [menu    |-> IF m.level # 0 THEN Accept(m) ELSE m,
      digits  |-> IF hit THEN Zeros ELSE t,
      cleared |-> hit /\ b = "up"]
TypeDigit(b) ==
  LET t   == Typed(m_menu, tPassCode, b)
      m   == [m_menu EXCEPT !.level = LevelOf(t, @)]
      hit == m.level # 0 /\ m.top = EventList
  IN [menu    |-> IF m.level # 0 THEN Show(Accept(m)) ELSE m,
      digits  |-> IF hit THEN Zeros ELSE t,
      cleared |-> hit /\ b = "up"]

Keep(m) == [menu |-> m, digits |-> tPassCode, cleared |-> FALSE]

OnOff == SensorPage \cup ModePage

MenuProcess(b) ==
  LET moved == Show(Moved([m_menu EXCEPT !.x = 0], b))
  IN [menu    |-> moved,
      digits  |-> IF b = "left" /\ moved.stage = 0 THEN Zeros ELSE tPassCode,
      cleared |-> FALSE]

WrongSetProcess(b) ==     \* LEFT and RIGHT go on to another page
  CASE b \in {"up", "down"} /\ m_menu.page \in DigitPage -> TypeDigit(b)
    [] b \in {"left", "right"} -> MenuProcess(b)
    [] b = "esc" -> Keep([m_menu EXCEPT !.mode = "shopping"])
    [] OTHER     -> Keep(m_menu)
SetProcess(b) ==
  CASE b \in {"up", "down"} /\ m_menu.page \in DigitPage -> TypeDigit(b)
    [] b = "left"  -> Keep(IF m_menu.page \in OnOff
                           THEN [m_menu EXCEPT !.mode = "shopping"]
                           ELSE DecreasePosition(m_menu))
    [] b = "right" -> Keep(IF m_menu.page \in OnOff THEN m_menu
                           ELSE IncreasePosition(m_menu))
    [] b = "esc"   -> Keep([m_menu EXCEPT !.mode = "shopping"])
    [] OTHER       -> Keep(m_menu)

-----------------------------------------------------------------------------
(* The timer interrupt: the handler of the mode, then autoReturnToHome.    *)

TenMinutesOver(p) == accTimer + 1 >= TenMinutes /\ prevMenu = p

WrongReturns(p) ==   \* a value being set is not interrupted
  prevMenu # -1 /\ TenMinutesOver(p) /\ p # 0 /\ m_menu.mode = "shopping"
Returns(p) == prevMenu # -1 /\ TenMinutesOver(p) /\ p # 0

AutoReturnToHome(r) ==
  /\ m_menu' = IF Returns(r.menu.page) THEN Home ELSE r.menu
  /\ tPassCode' = IF Returns(r.menu.page) THEN Zeros ELSE r.digits
  /\ accTimer' = IF prevMenu # r.menu.page \/ TenMinutesOver(r.menu.page)
                 THEN 0 ELSE accTimer + 1
  /\ prevMenu' = m_menu'.page
  /\ cleared' = r.cleared

TimerCallBack(b) ==
  /\ AutoReturnToHome(IF m_menu.mode = "setting" THEN SetProcess(b)
                                                 ELSE MenuProcess(b))
  /\ UNCHANGED mPassCode

Press(b) == TimerCallBack(b) /\ idle' = 0

(* A tick without a button event.                                          *)
Pause ==
  /\ TimerCallBack("none")
  /\ idle' = IF idle <= TenMinutes THEN idle + 1 ELSE idle

(* The commands PASSCODELV1 and PASSCODELV2.                               *)
PassCodeCommand(l, c) ==
  /\ mPassCode' = [mPassCode EXCEPT ![l] = c]
  /\ UNCHANGED <<m_menu, tPassCode, accTimer, prevMenu, cleared, idle>>

Next ==
  \/ \E b \in Button : Press(b)
  \/ Pause
  \/ \E l \in 1..2, c \in Code : PassCodeCommand(l, c)

Spec == Init /\ [][Next]_vars

-----------------------------------------------------------------------------
(* Requirements.                                                           *)

(* A page that changes the configuration shows only while a passcode is in *)
(* force, the sensors and the mode only for level 2: getMenu itself never  *)
(* compares the level with 2, the walks through the tree must keep to it.  *)
(* And a passcode is in force only below SETTING: one accepted or begun    *)
(* does not survive the way back to the first stage, nor the clearing of   *)
(* the log it was entered for; an unlocked panel is never on the home      *)
(* page, which the ten minutes leave alone.                                *)
Gate ==
  /\ m_menu.page \in (10..13) \cup OnOff \cup NetworkPage \cup ClockPage
       => m_menu.level # 0
  /\ m_menu.page \in {10, 11} \cup OnOff => m_menu.level = 2
  /\ m_menu.level # 0 => m_menu.top = Setting /\ m_menu.page # 0
  /\ m_menu.stage = 0 \/ cleared => m_menu.level = 0 /\ tPassCode = Zeros

(* The page on display is the page of the position: what the buttons       *)
(* change is what the operator sees, whatever path led there.  While a     *)
(* value is set the cursor is on one of its digits: x indexes the tables   *)
(* ipPack, intPack, int2Pack, datePack and passCodePack.                   *)
ShowsPosition ==
  /\ Show(m_menu) = m_menu
  /\ m_menu.mode = "setting" =>
       IsSettingMenu(m_menu.page) /\ m_menu.x <= XLimit(m_menu.page)

(* A panel nobody touches for ten minutes is locked and out of the setting *)
(* mode, though only changes of page restart the time, and not buttons.    *)
UnattendedLocks ==
  idle > TenMinutes => /\ m_menu.page = 0 /\ m_menu.level = 0
                       /\ m_menu.mode = "shopping"

(* To the clock the menu is what Panel says: nothing is set but on the     *)
(* page of date or time, and no other way leads to and from these pages.   *)
P == INSTANCE Panel WITH
  page    <- CASE m_menu.page = 0   -> "home"
               [] m_menu.page = 130 -> "date"
               [] m_menu.page = 131 -> "time"
               [] OTHER             -> "other",
  setting <- m_menu.mode = "setting" /\ m_menu.page \in ClockPage
ImplementsPanel == P!Spec
=============================================================================
