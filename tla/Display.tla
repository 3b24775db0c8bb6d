------------------------------- MODULE Display -------------------------------
(***************************************************************************)
(* The LCD as the operator sees it: which page is printed, where the       *)
(* cursor stands, and the time, which the main loop prints on the home     *)
(* page (timeDisplay) while the timer interrupt runs the menu.             *)
(*                                                                         *)
(* timeDisplay looks at the page, reads the clock and prints; that takes   *)
(* some milliseconds, so at most one tick of 20 ms falls into it.  The     *)
(* display takes whole bytes here.                                         *)
(***************************************************************************)
EXTENDS Menu, Lcd, FiniteSets

ASSUME PlaceAssumption == LastPlace <= 3

VARIABLES
  shown,     \* the page whose title and message were printed last
  cursor,    \* whether it is on, and its column; 0 elsewhere
  stray,     \* the time has been printed over another page
  timing     \* timeDisplay: "idle", "begun", or "overtaken" by a tick

screen == <<shown, cursor, stray, timing>>

DisplayInit ==
  /\ Init
  /\ shown = 0
  /\ cursor = [on |-> FALSE, at |-> 0]
  /\ stray = FALSE /\ timing = "idle"

-----------------------------------------------------------------------------
(* passCodePack                                                            *)
CodePosition == <<7, 8, 9, 10>>

(* cursor(): nothing on pages that set nothing.                            *)
CursorColumn(m) ==
  CASE m.page \in OnOff      -> 2
    [] m.page \in DigitPage  -> CodePosition[m.x + 1]
    [] m.page \in NumberPage -> Pack(m.page).position[m.x + 1]
    [] OTHER                 -> 0

(* menuProcess, setProcess: does the tick print the page anew?             *)
Redraws(b) ==
  IF m_menu.mode = "setting"
  THEN b \in {"up", "down"} /\ m_menu.page \in DigitPage /\ TypeDigit(b).menu.mode = "shopping"
  ELSE b # "none"

WrongKeepsEvent(m) == m_menu.page = 301         \* also on the way out
KeepsEvent(m) == m_menu.page = 301 /\ m.stage = 2

(* selectMenuDisplay: the title and the message of a page, 16 columns      *)
(* each.  An event that is being shown is left to the viewer.              *)
Screen(b, r) ==
  LET home == Returns(r.menu.page)
      draw == Redraws(b) /\ ~KeepsEvent(r.menu)
  IN /\ shown' = IF home THEN 0 ELSE IF draw THEN r.menu.page ELSE shown
     /\ stray' = (stray /\ ~home /\ ~draw)

(* The cursor is set first; what is printed afterwards takes it along,     *)
(* until the next tick.                                                    *)
Cursor(b) ==
  cursor' =
    IF m_menu.mode = "setting"
    THEN [on |-> cursor.on \/ IsSettingMenu(m_menu.page),
          at |-> IF b = "none" /\ ~Returns(m_menu.page)
                              THEN CursorColumn(m_menu) ELSE 0]
    ELSE [on |-> cursor.on /\ ~IsSettingMenu(m_menu.page), at |-> 0]

Tick(b) ==
  LET r == IF m_menu.mode = "setting" THEN SetProcess(b) ELSE MenuProcess(b)
  IN /\ timing # "overtaken"
     /\ timing' = IF timing = "begun" THEN "overtaken" ELSE timing
     /\ Screen(b, r)
     /\ Cursor(b)

(* timeDisplay looks at the page...                                        *)
TimeDisplay ==
  /\ timing = "idle" /\ m_menu.page = 0
  /\ timing' = "begun"
  /\ UNCHANGED <<vars, shown, cursor, stray>>

(* ...and prints the time, on whatever page there is now.                  *)
PrintTime ==
  /\ timing # "idle"
  /\ timing' = "idle"
  /\ stray' = (m_menu.page # 0)
  /\ cursor' = [cursor EXCEPT !.at = 0]
  /\ UNCHANGED <<vars, shown>>

DisplayNext ==
  \/ \E b \in Button : Press(b) /\ Tick(b)
  \/ Pause /\ Tick("none")
  \/ \E l \in 1..2, c \in Code : PassCodeCommand(l, c) /\ UNCHANGED screen
  \/ TimeDisplay
  \/ PrintTime

DisplaySpec == DisplayInit /\ [][DisplayNext]_<<vars, screen>>

-----------------------------------------------------------------------------
(* Requirements.                                                           *)

(* The columns of a value that can be set, from left to right.             *)
ColumnsOf(p) ==
  IF p \in OnOff THEN {2}
  ELSE IF p \in DigitPage THEN 7..7 + LastPlace
  ELSE UNION {Format(p)[i].from..Format(p)[i].from + Format(p)[i].digits - 1 :
                i \in DOMAIN Format(p)}

(* While a value is set the cursor stands on one of its digits and moves   *)
(* over all of them in order; UP and DOWN change that digit by one, that   *)
(* is the number printed there by its place in it, take each other back    *)
(* and keep to what fits the columns (six tables with the limits of x and  *)
(* of the values, against the formats of applyMenuValuetoLcd).             *)
DigitUnderCursor ==
  m_menu.mode = "setting" /\ idle > 0 =>
    LET p == m_menu.page  x == m_menu.x  all == ColumnsOf(p)
        i == Pack(p).index[x + 1]
        number == Format(p)[i + 1]
        last == number.from + number.digits - 1
    IN /\ cursor.on /\ cursor.at \in all
       /\ Cardinality(all) = XLimit(p) + 1
       /\ Cardinality({c \in all : c < cursor.at}) = x
       /\ p \in NumberPage =>
            /\ cursor.at \in number.from..last
            /\ Pack(p).digit[x + 1] = 10^(last - cursor.at)
            /\ Printed(p, i, Limit(p, i)) < 10^number.digits
            /\ \A v \in {0, 9, Limit(p, i) - 1, Limit(p, i)} :
                 LET up == Increase(p, x, v)
                 IN  up # 0 => up <= Limit(p, i) /\ Decrease(p, x, up) = v

(* No value leaves characters of a longer one beside it; page 22 does, it  *)
(* prints no blanks after the unit (displayMeasuremet).                    *)
NothingRemains(p) ==
  \A old, new \in Texts(p) : {c \in old.ink : new.upto < c /\ c <= Width} = {}

(* What is printed is the page the buttons work on, although it is printed *)
(* only when a button or the ten minutes change it, and an event on page   *)
(* 301 is kept; and no measurement is read with the end of another.  The   *)
(* time of the home page, overtaken by a button, is left over the pages    *)
(* next to it and over no other (selectMenuDisplay, timeDisplay); page 31, *)
(* where RIGHT leads to the home page, is one of them.                     *)
PageDisplayed ==
  /\ shown = m_menu.page
  /\ m_menu.page \in (20..26) \ {22} => NothingRemains(m_menu.page)
  /\ stray => m_menu.page \in (1..3) \cup {31}
=============================================================================
