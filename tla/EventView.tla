------------------------------ MODULE EventView ------------------------------
(***************************************************************************)
(* The event viewer: page 301 of the menu (menuProcess in menu.c) and the  *)
(* two walks over the log, onClick and onReverseClick in event_log.c.      *)
(*                                                                         *)
(* Both walk bit by bit through the records until they meet a bit to show. *)
(* They run inside the timer interrupt, so the main loop, which appends    *)
(* events and serves ECLEAR, only moves between two presses of a button.   *)
(* A record is the set of its event bits that cLogMask lets through.       *)
(***************************************************************************)
EXTENDS EventSlots

CONSTANT NBits    \* bits of an event word, 16

ASSUME ViewAssumption == NBits \in Nat \ {0}

Bits   == 0..(NBits - 1)
Record == SUBSET Bits
None   == [index |-> -1, bit |-> -1]    \* no event on the screen

VARIABLES
  data,           \* the record slots of the EEPROM, cleared or not
  count,          \* mEventLogCounter, in RAM as in the EEPROM
  vm,             \* EventListViewManager_t
  page,           \* the menu is on page 301
  prevButton,
  calls,          \* the walks this press still has to make
  walking,        \* the first of them is in its while loop
  shown,          \* the event on the screen
  same,           \* history: no append or clear since the last press
  expect          \* history: the event this press should show, if known

log == <<data, count>>
viewVars == <<data, count, vm, page, prevButton, calls, walking, shown,
              same, expect>>

ViewTypeOK ==
  /\ data \in [Slots -> Record]
  /\ count \in 0..MaxEventCount
  /\ vm \in [startFlag : {0, 1}, currentBit : Bits,
             currentDataIndex : -1..(MaxEventCount - 1),
             eventLogData : Record]
  /\ page \in BOOLEAN
  /\ prevButton \in {"none", "up", "down", "other"}
  /\ calls \in {<<>>, <<"up">>, <<"down">>, <<"up", "up">>, <<"down", "down">>}
  /\ walking \in BOOLEAN
  /\ shown.index \in -1..(MaxEventCount - 1)
  /\ same \in BOOLEAN

-----------------------------------------------------------------------------
(* The order an operator expects: UP goes from the newest record to the    *)
(* oldest and from bit 0 up in each, DOWN the other way, both around.      *)
Events == {[index |-> i, bit |-> b] : i \in 0..(count - 1), b \in Bits}
Visible == {e \in Events : e.bit \in data[e.index]}
Place(e) == (count - 1 - e.index) * NBits + e.bit
Total == count * NBits
After(e) ==
  CHOOSE n \in Visible : \A o \in Visible :
    (Place(n) - Place(e) - 1) % Total <= (Place(o) - Place(e) - 1) % Total
Before(e) ==
  CHOOSE n \in Visible : \A o \in Visible :
    (Place(e) - Place(n) - 1) % Total <= (Place(e) - Place(o) - 1) % Total

(* Two visible events next to each other: bits b and b + 1 of a record, or *)
(* the last bit of a record and bit 0 of the next older one.               *)
Adjacent == \E e, o \in Visible : (Place(e) + 1) % Total = Place(o)

(* The viewer has a position and its copy of the record is the one the log *)
(* holds: not so after the log was cleared under it.                       *)
Current == /\ vm.startFlag = 1
           /\ vm.currentDataIndex \in 0..(count - 1)
           /\ vm.eventLogData = data[vm.currentDataIndex]

-----------------------------------------------------------------------------
Cursor(start, bit, i, rec) ==
  [startFlag |-> start, currentBit |-> bit, currentDataIndex |-> i,
   eventLogData |-> rec]

(* loadEventLogData: with an empty log onClick asks for record -1, which   *)
(* reads some other EEPROM cells.                                          *)
Loaded(i) == IF i \in Slots THEN {data[i]} ELSE Record

\* Definitions named "Wrong..." are variants with one mistake each; the
\* properties are seen to fail when one of them replaces the definition
\* that follows it.
WrongFirstBit ==
  IF vm.currentBit + 1 < NBits
  THEN {[vm EXCEPT !.currentBit = @ + 1]}
  ELSE LET i == IF vm.currentDataIndex > 0 THEN vm.currentDataIndex - 1
                ELSE count - 1
       IN {Cursor(1, NBits - 1, i, r) : r \in Loaded(i)}
WrongOldest ==
  IF vm.currentBit + 1 < NBits
  THEN {[vm EXCEPT !.currentBit = @ + 1]}
  ELSE LET i == IF vm.currentDataIndex > 0 THEN vm.currentDataIndex - 1 ELSE 0
       IN {Cursor(1, 0, i, r) : r \in Loaded(i)}

(* One bit further; past the last record it starts over.                   *)
StepUp ==
  IF vm.currentBit + 1 < NBits
  THEN {[vm EXCEPT !.currentBit = @ + 1]}
  ELSE LET i == IF vm.currentDataIndex > 0 THEN vm.currentDataIndex - 1
                ELSE count - 1
       IN {Cursor(1, 0, i, r) : r \in Loaded(i)}

WrongNewest ==
  IF vm.currentBit > 0
  THEN {[vm EXCEPT !.currentBit = @ - 1]}
  ELSE LET i == vm.currentDataIndex + 1
       IN {Cursor(1, NBits - 1, i, r) : r \in Loaded(i)}

StepDown ==
  IF vm.currentBit > 0
  THEN {[vm EXCEPT !.currentBit = @ - 1]}
  ELSE LET i == IF vm.currentDataIndex + 1 < count
                THEN vm.currentDataIndex + 1 ELSE 0
       IN {Cursor(1, NBits - 1, i, r) : r \in Loaded(i)}

-----------------------------------------------------------------------------
ViewInit ==
  /\ count \in 0..MaxEventCount
  /\ data \in [Slots -> Record]
  /\ vm = Cursor(0, 0, 0, {})
  /\ page = FALSE
  /\ prevButton = "none"
  /\ calls = <<>>
  /\ walking = FALSE
  /\ shown = None
  /\ same = TRUE
  /\ expect = None

(* menuProcess on page 301.  Turning around makes a second call.           *)
Idle == calls = <<>>

PressUp ==
  /\ Idle /\ page
  /\ calls' = IF prevButton = "down" THEN <<"up", "up">> ELSE <<"up">>
  /\ prevButton' = "up"
  /\ expect' = IF same /\ shown \in Visible /\ Current
                  /\ (prevButton = "down" => ~Adjacent) /\ prevButton # "other"
               THEN After(shown) ELSE None
  /\ same' = TRUE
  /\ UNCHANGED <<log, vm, page, walking, shown>>

PressDown ==
  /\ Idle /\ page
  /\ calls' = IF prevButton = "up" THEN <<"down", "down">> ELSE <<"down">>
  /\ prevButton' = "down"
  /\ expect' = IF same /\ shown \in Visible /\ Current
                  /\ (prevButton = "up" => ~Adjacent) /\ prevButton # "other"
               THEN Before(shown) ELSE None
  /\ same' = TRUE
  /\ UNCHANGED <<log, vm, page, walking, shown>>

(* RIGHT enters the page and shows the newest event.                       *)
PressRight ==
  /\ Idle
  /\ page' = TRUE
  /\ IF vm.startFlag = 0
     THEN calls' = <<"up">> /\ prevButton' = "up"
     ELSE calls' = <<>> /\ prevButton' = "other"
  /\ expect' = None
  /\ UNCHANGED <<log, vm, walking, shown, same>>

(* BTN_SET, BTN_ENTER and BTN_ESC are only remembered as the last button.  *)
PressOther ==
  /\ Idle /\ page
  /\ prevButton' = "other"
  /\ expect' = None
  /\ UNCHANGED <<log, vm, page, calls, walking, shown, same>>

(* Any button on another page forgets the position.                        *)
Leave ==
  /\ Idle /\ page
  /\ page' = FALSE
  /\ vm' = [vm EXCEPT !.startFlag = 0]
  /\ shown' = None
  /\ expect' = None
  /\ UNCHANGED <<log, prevButton, calls, walking, same>>

(* The beginning of onClick: an empty log ends it.                         *)
BeginUp ==
  /\ ~Idle /\ ~walking /\ Head(calls) = "up"
  /\ IF vm.startFlag = 0 /\ count = 0
     THEN /\ calls' = Tail(calls) /\ shown' = None
          /\ UNCHANGED <<vm, walking>>
     ELSE /\ vm' = IF vm.startFlag = 1 THEN vm
                   ELSE Cursor(1, 0, count - 1, data[count - 1])
          /\ walking' = TRUE
          /\ UNCHANGED <<calls, shown>>
  /\ UNCHANGED <<log, page, prevButton, same, expect>>

(* while (vm.currentDataIndex >= 0)                                        *)
WalkUp ==
  /\ ~Idle /\ walking /\ Head(calls) = "up"
  /\ IF vm.currentDataIndex < 0
     THEN /\ walking' = FALSE /\ calls' = Tail(calls)
          /\ UNCHANGED <<vm, shown>>
     ELSE /\ vm' \in StepUp
          /\ IF vm.currentBit \in vm.eventLogData
             THEN /\ shown' = [index |-> vm.currentDataIndex,
                               bit |-> vm.currentBit]
                  /\ walking' = FALSE /\ calls' = Tail(calls)
             ELSE UNCHANGED <<shown, walking, calls>>
  /\ UNCHANGED <<log, page, prevButton, same, expect>>

(* The beginning of onReverseClick.                                        *)
BeginDown ==
  /\ ~Idle /\ ~walking /\ Head(calls) = "down"
  /\ IF vm.startFlag = 0 /\ count = 0
     THEN /\ calls' = Tail(calls) /\ shown' = None
          /\ UNCHANGED <<vm, walking>>
     ELSE /\ vm' = IF vm.startFlag = 1 THEN vm
                   ELSE Cursor(1, NBits - 1, 0, data[0])
          /\ walking' = TRUE
          /\ UNCHANGED <<calls, shown>>
  /\ UNCHANGED <<log, page, prevButton, same, expect>>

(* while (vm.currentDataIndex < mEventLogCounter)                          *)
WalkDown ==
  /\ ~Idle /\ walking /\ Head(calls) = "down"
  /\ IF vm.currentDataIndex >= count
     THEN /\ walking' = FALSE /\ calls' = Tail(calls)
          /\ UNCHANGED <<vm, shown>>
     ELSE /\ vm' \in StepDown
          /\ IF vm.currentBit \in vm.eventLogData
             THEN /\ shown' = [index |-> vm.currentDataIndex,
                               bit |-> vm.currentBit]
                  /\ walking' = FALSE /\ calls' = Tail(calls)
             ELSE UNCHANGED <<shown, walking, calls>>
  /\ UNCHANGED <<log, page, prevButton, same, expect>>

-----------------------------------------------------------------------------
(* The main loop between two presses.                                      *)
AppendRecord(r) ==
  /\ Idle /\ count < MaxEventCount
  /\ data' = [data EXCEPT ![count] = r]
  /\ count' = count + 1
  /\ same' = FALSE /\ expect' = None
  /\ UNCHANGED <<vm, page, prevButton, calls, walking, shown>>

ClearLog ==
  /\ Idle
  /\ count' = 0
  /\ same' = FALSE /\ expect' = None
  /\ UNCHANGED <<data, vm, page, prevButton, calls, walking, shown>>

Walk == BeginUp \/ WalkUp \/ BeginDown \/ WalkDown

ViewNext ==
  \/ PressUp \/ PressDown \/ PressRight \/ PressOther \/ Leave
  \/ Walk
  \/ \E r \in Record : AppendRecord(r)
  \/ ClearLog

(* The interrupt runs on until it returns.                                 *)
ViewSpec == ViewInit /\ [][ViewNext]_viewVars /\ WF_viewVars(Walk)

-----------------------------------------------------------------------------
(* Repeated presses in one direction show every visible event once a round *)
(* and in order, across record borders and the wrap-around; the double     *)
(* call makes a turn show the neighbour of the event on the screen, unless *)
(* some two visible events are adjacent, whose turn shows another one.     *)
ShowsInOrder == Idle /\ expect # None => shown = expect

(* While the log holds a visible event every press comes to an end.        *)
PressEndsIfVisible == (~Idle /\ Visible # {}) ~> Idle

(* Every press comes to an end: the walk iterates while there is data and  *)
(* handles the case when it has read all of it.                            *)
PressEnds == ~Idle ~> Idle
=============================================================================
