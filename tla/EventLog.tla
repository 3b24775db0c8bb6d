------------------------------ MODULE EventLog ------------------------------
(***************************************************************************)
(* The event log of the SIU-01 (event_log.c) and the serial EEPROM it is   *)
(* kept in (at24c256.c).                                                   *)
(*                                                                         *)
(* Two contexts use the log.  The main loop appends an event with          *)
(* saveEventLogData and serves the Bluetooth commands ECLEAR and EVENT.    *)
(* The 20 ms timer interrupt runs the whole menu, so it may clear the log  *)
(* (passcode entry), reload its counter (event viewer) or use the EEPROM   *)
(* for the configuration, between any two steps of the main loop.  An      *)
(* interrupt runs to its end before the main loop goes on, so each of its  *)
(* handlers is one action; the main loop's operations are cut at every     *)
(* point where the interrupt sees or changes a state they share.           *)
(***************************************************************************)
EXTENDS EventSlots

CONSTANTS
  Event,          \* contents of a DateTimeEventData_t record
  NoEvent,        \* an erased record slot
  Erased          \* 0xFFFF, what an erased EEPROM holds as the counter

ASSUME MaxAssumption ==
  /\ Erased \in Nat
  /\ MaxEventCount + 1 < Erased
ASSUME NoEventAssumption == NoEvent \notin Event

VARIABLES
  eepCount,            \* EEPROM: the counter at EEP_ADDR_EVENT_LOG_COUNTER
  eepData,             \* EEPROM: the records from EEP_ADDR_EVENT_LOG_DATA_BASE
  mEventLogCounter,    \* RAM: the cached counter
  mDateTimeEventData,  \* RAM: the record being saved
  pc,                  \* where the main loop is
  reg,                 \* its local value: slot, loaded counter or tx buffer
  aborted,             \* the interrupt took the I2C bus from its transfer
  disturbed            \* history: an interrupt hit a vulnerable step of a
                       \* save and the counter was not synchronised since

eeprom == <<eepCount, eepData>>
vars == <<eepCount, eepData, mEventLogCounter, mDateTimeEventData,
          pc, reg, aborted, disturbed>>

\* Steps of the main loop: writeEEPROM is a transfer on the bus ("...Xfer")
\* and then the 5 ms internal write cycle of the chip ("...Cycle").
PC == {"off", "idle", "record", "recordXfer", "recordCycle", "increment",
       "store", "save", "saveXfer", "saveCycle"}

Transferring == pc \in {"recordXfer", "saveXfer"}
Writing      == pc \in {"recordCycle", "saveCycle"}

FlagsOK == aborted \in BOOLEAN /\ disturbed \in BOOLEAN

DataOK ==
  /\ eepCount \in 0..Erased
  /\ eepData \in [Slots -> Event \cup {NoEvent}]
  /\ mEventLogCounter \in 0..(Erased - 1)
  /\ mDateTimeEventData \in Event \cup {NoEvent}
  /\ pc \in PC
  /\ reg \in 0..Erased

TypeOK == DataOK /\ FlagsOK

-----------------------------------------------------------------------------
\* Definitions named "Wrong..." are variants with one mistake each; the
\* properties are seen to fail when one of them replaces the definition
\* that follows it.

(* What loadEventLogCounter makes of a counter it has read.                *)
Clamp(n) == IF n = Erased THEN 0
            ELSE IF n > MaxEventCount THEN MaxEventCount ELSE n

(* A factory-fresh unit without power.                                     *)
Init ==
  /\ eepCount = Erased
  /\ eepData = [s \in Slots |-> NoEvent]
  /\ mEventLogCounter = 0
  /\ mDateTimeEventData = NoEvent
  /\ pc = "off"
  /\ reg = 0
  /\ aborted = FALSE
  /\ disturbed = FALSE

-----------------------------------------------------------------------------
(* Power.                                                                  *)

(* initUnitStatus, through loadEventLogCounter: an erased counter is set to *)
(* zero in the EEPROM too, an excessive one is limited in RAM only.        *)
Boot ==
  /\ pc = "off"
  /\ pc' = "idle"
  /\ mEventLogCounter' = Clamp(eepCount)
  /\ eepCount' = IF eepCount = Erased THEN 0 ELSE eepCount
  /\ disturbed' = FALSE
  /\ UNCHANGED <<eepData, mDateTimeEventData, reg, aborted>>

(* Power loss at any point: RAM is gone, a transfer that is still on the   *)
(* bus does not reach the memory array.                                    *)
PowerLoss ==
  /\ pc # "off"
  /\ pc' = "off"
  /\ mEventLogCounter' = 0
  /\ mDateTimeEventData' = NoEvent
  /\ reg' = 0
  /\ aborted' = FALSE
  /\ UNCHANGED <<eepCount, eepData, disturbed>>

-----------------------------------------------------------------------------
(* The main loop.                                                          *)

WrongRoomLeft == mEventLogCounter <= MaxEventCount
RoomLeft == mEventLogCounter < MaxEventCount

\* The slot of the newest record instead of the one after it.
WrongSlot == IF mEventLogCounter = 0 THEN 0 ELSE mEventLogCounter - 1
Slot == mEventLogCounter

(* saveEventLogData: app_process_action has filled mDateTimeEventData.  A  *)
(* full log drops the event.  The slot is fixed here, before the transfer. *)
SaveEventLogData(e) ==
  /\ pc = "idle"
  /\ mDateTimeEventData' = e
  /\ IF RoomLeft
       THEN pc' = "record" /\ reg' = Slot
       ELSE UNCHANGED <<pc, reg>>
  /\ UNCHANGED <<eepCount, eepData, mEventLogCounter, aborted, disturbed>>

(* writeEEPROM of the record: the bytes go out ...                         *)
StartRecord ==
  /\ pc = "record"
  /\ pc' = "recordXfer"
  /\ UNCHANGED <<eepCount, eepData, mEventLogCounter, mDateTimeEventData,
                 reg, aborted, disturbed>>

(* ... and the chip takes them at the stop condition, unless the interrupt *)
(* has used the bus meanwhile.  The result of the transfer is not checked. *)
EndRecord ==
  /\ pc = "recordXfer"
  /\ pc' = "recordCycle"
  /\ eepData' = IF aborted THEN eepData
                ELSE [eepData EXCEPT ![reg] = mDateTimeEventData]
  /\ aborted' = FALSE
  /\ reg' = 0
  /\ UNCHANGED <<eepCount, mEventLogCounter, mDateTimeEventData, disturbed>>

WrongRecordWritten ==    \* the counter is forgotten
  /\ pc = "recordCycle"
  /\ pc' = "idle"
  /\ UNCHANGED <<eepCount, eepData, mEventLogCounter, mDateTimeEventData,
                 reg, aborted, disturbed>>

RecordWritten ==
  /\ pc = "recordCycle"
  /\ pc' = "increment"
  /\ UNCHANGED <<eepCount, eepData, mEventLogCounter, mDateTimeEventData,
                 reg, aborted, disturbed>>

(* mEventLogCounter++ is a load and a store.                               *)
LoadCounter ==
  /\ pc = "increment"
  /\ pc' = "store"
  /\ reg' = mEventLogCounter
  /\ UNCHANGED <<eepCount, eepData, mEventLogCounter, mDateTimeEventData,
                 aborted, disturbed>>

StoreCounter ==
  /\ pc = "store"
  /\ pc' = "save"
  /\ mEventLogCounter' = reg + 1
  /\ reg' = 0
  /\ UNCHANGED <<eepCount, eepData, mDateTimeEventData, aborted, disturbed>>

(* saveEventLogCounter: writeEEPROM copies the counter to its tx buffer.   *)
StartSave ==
  /\ pc = "save"
  /\ pc' = "saveXfer"
  /\ reg' = mEventLogCounter
  /\ UNCHANGED <<eepCount, eepData, mEventLogCounter, mDateTimeEventData,
                 aborted, disturbed>>

EndSave ==
  /\ pc = "saveXfer"
  /\ pc' = "saveCycle"
  /\ eepCount' = IF aborted THEN eepCount ELSE reg
  /\ aborted' = FALSE
  /\ reg' = 0
  /\ UNCHANGED <<eepData, mEventLogCounter, mDateTimeEventData, disturbed>>

SaveDone ==
  /\ pc = "saveCycle"
  /\ pc' = "idle"
  /\ UNCHANGED <<eepCount, eepData, mEventLogCounter, mDateTimeEventData,
                 reg, aborted, disturbed>>

WrongClearFromMain ==    \* the cleared counter is not saved
  /\ pc = "idle"
  /\ mEventLogCounter' = 0
  /\ UNCHANGED <<eepCount, eepData, mDateTimeEventData, pc, reg, aborted,
                 disturbed>>

(* The Bluetooth command ECLEAR: clearAllEventLog in the main loop, whose  *)
(* saveEventLogCounter is preempted like any other.                        *)
ClearFromMain ==
  /\ pc = "idle"
  /\ mEventLogCounter' = 0
  /\ pc' = "save"
  /\ UNCHANGED <<eepCount, eepData, mDateTimeEventData, reg, aborted,
                 disturbed>>

(* The Bluetooth command EVENT: loadEventLogCounter in the main loop.      *)
LoadFromMain ==
  /\ pc = "idle"
  /\ mEventLogCounter' = Clamp(eepCount)
  /\ disturbed' = FALSE
  /\ UNCHANGED <<eepCount, eepData, mDateTimeEventData, pc, reg, aborted>>

-----------------------------------------------------------------------------
(* The timer interrupt.  While the chip is in a write cycle it answers no  *)
(* access: a write is lost and a read leaves its buffer as it was.  While  *)
(* the main loop's transfer is on the bus, an access takes the bus from it. *)

(* clearAllEventLog, from increasePassCode.                                *)
ClearFromMenu ==
  /\ pc # "off"
  /\ mEventLogCounter' = 0
  /\ eepCount' = IF Writing THEN eepCount ELSE 0
  /\ aborted' = (aborted \/ Transferring)
  /\ disturbed' = (pc # "idle")
  /\ UNCHANGED <<eepData, mDateTimeEventData, pc, reg>>

(* loadEventLogCounter, from onClick and onReverseClick.  A counter the    *)
(* main loop has incremented and not yet saved is lost here.               *)
LoadFromMenu ==
  /\ pc # "off"
  /\ mEventLogCounter' = Clamp(IF Writing THEN mEventLogCounter ELSE eepCount)
  /\ aborted' = (aborted \/ Transferring)
  /\ disturbed' = IF pc = "idle" THEN FALSE
                  ELSE disturbed \/ Transferring \/ pc = "save"
  /\ UNCHANGED <<eepCount, eepData, mDateTimeEventData, pc, reg>>

(* Any other access of the menu to the bus: loadEventLogData, the          *)
(* configuration blocks, the clock.  Only a transfer of the main loop can  *)
(* tell.                                                                   *)
OtherBusUse ==
  /\ Transferring
  /\ aborted' = TRUE
  /\ disturbed' = TRUE
  /\ UNCHANGED <<eepCount, eepData, mEventLogCounter, mDateTimeEventData,
                 pc, reg>>

-----------------------------------------------------------------------------
SaveSteps == \/ StartRecord \/ EndRecord \/ RecordWritten
             \/ LoadCounter \/ StoreCounter
             \/ StartSave \/ EndSave \/ SaveDone

MainLoop == \/ \E e \in Event : SaveEventLogData(e)
            \/ SaveSteps
            \/ ClearFromMain
            \/ LoadFromMain

Interrupt == ClearFromMenu \/ LoadFromMenu \/ OtherBusUse

Next == Boot \/ PowerLoss \/ MainLoop \/ Interrupt

Spec == Init /\ [][Next]_vars

-----------------------------------------------------------------------------
(* Properties.                                                             *)

(* The log a reader finds in the EEPROM after the next power-up.           *)
DurableCount == Clamp(eepCount)
DurableLog == [i \in 1..DurableCount |-> eepData[i - 1]]

(* In every interleaving of the main loop, the menu interrupt and power    *)
(* losses, the counters exceed the number of slots by at most one, and the *)
(* counter a record address is computed from never does: the limit check   *)
(* of saveEventLogData is not undone by a clear or a reload that lands     *)
(* between the check and the increment.                                    *)
CounterBounded ==
  /\ eepCount = Erased \/ eepCount <= MaxEventCount + 1
  /\ mEventLogCounter <= MaxEventCount + 1
  /\ pc \in {"record", "recordXfer"} => reg < MaxEventCount

(* Without a menu access in a vulnerable step, RAM and EEPROM agree        *)
(* whenever the main loop is not saving: neither a power loss inside a     *)
(* save nor one inside a clear leaves a counter that counts a record which *)
(* is not there.                                                           *)
Agreement ==
  pc = "idle" /\ ~disturbed => mEventLogCounter = DurableCount

(* The log implements the abstract EventStore: every event is appended     *)
(* exactly once and in order, none is made up, across power losses at any  *)
(* point, as long as the menu stays away from the vulnerable steps.        *)
Request ==
  CASE disturbed \/ pc \in {"off", "idle", "saveCycle"} ->
         [kind |-> "nothing", event |-> NoEvent]
    [] ~disturbed /\ pc \in {"save", "saveXfer"} /\ mEventLogCounter = 0 ->
         [kind |-> "clear", event |-> NoEvent]
    [] OTHER -> [kind |-> "append", event |-> mDateTimeEventData]

Store == INSTANCE EventStore
           WITH log <- DurableLog, pending <- Request,
                up <- (pc # "off"), trusted <- ~disturbed

ImplementsStore == Store!Spec

(* Records that are counted are not touched again: in an undisturbed step  *)
(* each stays as it is until the log is cleared, so a save or a power loss *)
(* in it cannot damage an older event.                                     *)
CountedRecordsStay ==
  [][~disturbed' => \/ DurableCount' = 0
                    \/ \A s \in 0..(DurableCount - 1) :
                         DurableCount' > s /\ eepData'[s] = eepData[s]]_vars
=============================================================================
