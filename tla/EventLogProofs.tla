--------------------------- MODULE EventLogProofs ---------------------------
(***************************************************************************)
(* Proofs about EventLog for every set of events and every number of       *)
(* slots: type correctness, the bound on the counters under every menu     *)
(* interference, the agreement of RAM and EEPROM and the permanence of     *)
(* counted records while the menu stays away from the vulnerable steps,    *)
(* and that the log implements EventStore.                                 *)
(*                                                                         *)
(* The second part is about EventView, the viewer on the same slots: type  *)
(* correctness and the order of what it shows.                             *)
(***************************************************************************)
EXTENDS EventLog, EventView, TLAPS

(* loadEventLogCounter never yields more than the number of slots.         *)
LEMMA ClampRange ==
  ASSUME NEW n \in 0..Erased
  PROVE  /\ Clamp(n) \in 0..MaxEventCount
         /\ n <= MaxEventCount => Clamp(n) = n
  BY SlotsAssumption, MaxAssumption DEF Clamp

-----------------------------------------------------------------------------
(* The bound.  What the increment stores is one more than what it loaded,  *)
(* and from the check to the load the counter stays within the slots: the  *)
(* menu can only set it to zero or to a clamped value.                     *)
Bounds ==
  /\ eepCount = Erased \/ eepCount <= MaxEventCount + 1
  /\ mEventLogCounter <= MaxEventCount + 1
  /\ pc \in {"record", "recordXfer"} => reg < MaxEventCount
  /\ pc \in {"record", "recordXfer", "recordCycle", "increment"} =>
       mEventLogCounter <= MaxEventCount
  /\ pc = "store" => reg <= MaxEventCount
  /\ pc = "saveXfer" => reg <= MaxEventCount + 1

TypedBounds == TypeOK /\ Bounds

(* The variables are well typed and every counter stays within one of the  *)
(* number of slots, initially and after every step.                        *)
LEMMA InitTypedBounds == Init => TypedBounds
<1>1. Init => FlagsOK
  BY DEF Init, FlagsOK
<1>2. Init => DataOK /\ Bounds
  BY SlotsAssumption, MaxAssumption DEF Init, DataOK, Bounds, PC, Slots
<1>3. QED
  BY <1>1, <1>2 DEF TypedBounds, TypeOK

LEMMA NextFlags == FlagsOK /\ [Next]_vars => FlagsOK'
<1> SUFFICES ASSUME FlagsOK, [Next]_vars
             PROVE  FlagsOK'
  OBVIOUS
<1> USE DEF FlagsOK
<1>1. CASE Boot \/ PowerLoss
  BY <1>1 DEF Boot, PowerLoss
<1>2. CASE MainLoop
  BY <1>2 DEF MainLoop, SaveEventLogData, RoomLeft, Slot, SaveSteps,
     StartRecord, EndRecord,
     RecordWritten, LoadCounter, StoreCounter, StartSave, EndSave, SaveDone,
     ClearFromMain, LoadFromMain
<1>3. CASE Interrupt
  BY <1>3 DEF Interrupt, ClearFromMenu, LoadFromMenu, OtherBusUse,
     Transferring
<1>4. CASE UNCHANGED vars
  BY <1>4 DEF vars
<1>5. QED
  BY <1>1, <1>2, <1>3, <1>4 DEF Next

LEMMA NextTypedBounds == TypedBounds /\ [Next]_vars => TypedBounds'
<1> SUFFICES ASSUME TypedBounds, [Next]_vars
             PROVE  TypedBounds'
  OBVIOUS
<1>a. FlagsOK' /\ DataOK /\ Bounds
  BY NextFlags DEF TypedBounds, TypeOK
<1> SUFFICES (DataOK /\ Bounds)'
  BY <1>a DEF TypedBounds, TypeOK
<1> USE SlotsAssumption, MaxAssumption, <1>a DEF DataOK, Bounds, PC
<1>1. CASE Boot
  BY <1>1, ClampRange DEF Boot
<1>2. CASE PowerLoss
  BY <1>2 DEF PowerLoss
<1>3. CASE MainLoop
  <2>1. ASSUME NEW e \in Event, SaveEventLogData(e)
        PROVE  (DataOK /\ Bounds)'
    BY <2>1 DEF SaveEventLogData, RoomLeft, Slot
  <2>2. CASE StartRecord
    BY <2>2 DEF StartRecord
  <2>3. CASE EndRecord
    <3>1. eepData' \in [Slots -> Event \cup {NoEvent}]
      BY <2>3 DEF EndRecord
    <3>2. QED
      BY <2>3, <3>1 DEF EndRecord
  <2>4. CASE RecordWritten
    BY <2>4 DEF RecordWritten
  <2>5. CASE LoadCounter
    BY <2>5 DEF LoadCounter
  <2>6. CASE StoreCounter
    BY <2>6 DEF StoreCounter
  <2>7. CASE StartSave
    BY <2>7 DEF StartSave
  <2>8. CASE EndSave
    BY <2>8 DEF EndSave
  <2>9. CASE SaveDone
    BY <2>9 DEF SaveDone
  <2>10. CASE ClearFromMain
    BY <2>10 DEF ClearFromMain
  <2>11. CASE LoadFromMain
    BY <2>11, ClampRange DEF LoadFromMain
  <2>12. QED
    BY <1>3, <2>1, <2>2, <2>3, <2>4, <2>5, <2>6, <2>7, <2>8, <2>9, <2>10,
       <2>11 DEF MainLoop, SaveSteps
<1>4. CASE Interrupt
  <2>1. CASE ClearFromMenu
    BY <2>1 DEF ClearFromMenu, Transferring
  <2>2. CASE LoadFromMenu
    <3>1. mEventLogCounter' \in 0..MaxEventCount
      BY <2>2, ClampRange DEF LoadFromMenu
    <3>2. QED
      BY <2>2, <3>1 DEF LoadFromMenu, Transferring
  <2>3. CASE OtherBusUse
    BY <2>3 DEF OtherBusUse, Transferring
  <2>4. QED
    BY <1>4, <2>1, <2>2, <2>3 DEF Interrupt
<1>5. CASE UNCHANGED vars
  BY <1>5 DEF vars
<1>6. QED
  BY <1>1, <1>2, <1>3, <1>4, <1>5 DEF Next

LEMMA AlwaysTypedBounds == Spec => []TypedBounds
  BY InitTypedBounds, NextTypedBounds, PTL DEF Spec

(* Every reachable state is well typed; the cached counter never takes the *)
(* value 0xFFFF, which loadEventLogCounter would mistake for an erased one. *)
THEOREM TypeCorrect == Spec => []TypeOK
<1>1. TypedBounds => TypeOK
  BY DEF TypedBounds
<1>2. QED
  BY AlwaysTypedBounds, <1>1, PTL

(* Whatever the menu does to the counter between the limit check of        *)
(* saveEventLogData and the increment, the counters exceed the number of   *)
(* slots by at most one and no record is written past the last slot.       *)
THEOREM CountersBounded == Spec => []CounterBounded
<1>1. TypedBounds => CounterBounded
  BY DEF TypedBounds, Bounds, CounterBounded
<1>2. QED
  BY AlwaysTypedBounds, <1>1, PTL

-----------------------------------------------------------------------------
(* The agreement.  While a save is under way RAM may be one ahead of the   *)
(* EEPROM; the invariant says by how much at each step, and that the slot  *)
(* the EEPROM does not count yet holds the event by the time it does.      *)
Ahead ==
  /\ mEventLogCounter = DurableCount
  /\ mEventLogCounter < MaxEventCount
  /\ eepData[mEventLogCounter] = mDateTimeEventData

InStep ==
  /\ pc \in {"idle", "saveCycle"} => mEventLogCounter = DurableCount
  /\ pc \in {"record", "recordXfer"} =>
       mEventLogCounter = DurableCount /\ reg = mEventLogCounter
  /\ pc \in {"recordCycle", "increment"} => Ahead
  /\ pc = "store" => Ahead /\ reg = mEventLogCounter
  /\ pc \in {"save", "saveXfer"} =>
       \/ mEventLogCounter = 0
       \/ /\ mEventLogCounter = DurableCount + 1
          /\ DurableCount < MaxEventCount
          /\ eepData[DurableCount] = mDateTimeEventData
  /\ pc = "saveXfer" => reg = mEventLogCounter

Synchronised ==
  /\ pc # "off" => eepCount # Erased
  /\ aborted => Transferring /\ disturbed
  /\ ~disturbed => InStep

Inv == TypedBounds /\ Synchronised

LEMMA InitInv == Init => Inv
<1>1. Init => Synchronised
  BY DEF Init, Synchronised, InStep
<1>2. QED
  BY <1>1, InitTypedBounds DEF Inv

LEMMA NextInv == Inv /\ [Next]_vars => Inv'
<1> SUFFICES ASSUME Inv, [Next]_vars
             PROVE  Inv'
  OBVIOUS
<1>a. TypedBounds /\ Synchronised /\ TypedBounds'
  BY NextTypedBounds DEF Inv
<1>b. /\ DurableCount \in 0..MaxEventCount
      /\ DurableCount' \in 0..MaxEventCount
      /\ eepCount <= MaxEventCount => DurableCount = eepCount
      /\ eepCount' <= MaxEventCount => DurableCount' = eepCount'
  BY <1>a, ClampRange DEF TypedBounds, TypeOK, DataOK, DurableCount
<1>c. FlagsOK /\ DataOK /\ Bounds /\ DataOK' /\ Bounds'
  BY <1>a DEF TypedBounds, TypeOK
<1> SUFFICES Synchronised'
  BY <1>a DEF Inv
<1> USE SlotsAssumption, MaxAssumption, <1>a, <1>b DEF Synchronised
<1>1. CASE Boot
  <2>1. DurableCount' = DurableCount
    BY <1>1, <1>c DEF Boot, DurableCount, Clamp, DataOK
  <2>2. mEventLogCounter' = DurableCount
    BY <1>1 DEF Boot, DurableCount
  <2>3. QED
    BY <1>1, <1>c, <2>1, <2>2 DEF Boot, InStep, Transferring, DataOK
<1>2. CASE PowerLoss
  BY <1>2 DEF PowerLoss, InStep, Transferring
<1>3. CASE MainLoop
  <2>1. ASSUME NEW e \in Event, SaveEventLogData(e)
        PROVE  Synchronised'
    BY <2>1 DEF SaveEventLogData, RoomLeft, Slot, InStep, Transferring, DurableCount
  <2>2. CASE StartRecord
    BY <2>2 DEF StartRecord, InStep, Transferring, DurableCount
  <2>3. CASE EndRecord
    BY <2>3, <1>c DEF EndRecord, InStep, Transferring, DurableCount, Ahead,
       DataOK, Slots, Bounds
  <2>4. CASE RecordWritten
    BY <2>4 DEF RecordWritten, InStep, Transferring, DurableCount, Ahead
  <2>5. CASE LoadCounter
    BY <2>5 DEF LoadCounter, InStep, Transferring, DurableCount, Ahead
  <2>6. CASE StoreCounter
    BY <2>6 DEF StoreCounter, InStep, Transferring, DurableCount, Ahead
  <2>7. CASE StartSave
    BY <2>7 DEF StartSave, InStep, Transferring, DurableCount
  <2>8. CASE EndSave
    BY <2>8, <1>c DEF EndSave, InStep, Transferring, DataOK, Bounds
  <2>9. CASE SaveDone
    BY <2>9 DEF SaveDone, InStep, Transferring, DurableCount
  <2>10. CASE ClearFromMain
    BY <2>10 DEF ClearFromMain, InStep, Transferring, DurableCount
  <2>11. CASE LoadFromMain
    BY <2>11 DEF LoadFromMain, InStep, Transferring, DurableCount
  <2>12. QED
    BY <1>3, <2>1, <2>2, <2>3, <2>4, <2>5, <2>6, <2>7, <2>8, <2>9, <2>10,
       <2>11 DEF MainLoop, SaveSteps
<1>4. CASE Interrupt
  <2>1. CASE ClearFromMenu
    <3>1. CASE pc = "idle"
      <4>1. eepCount' = 0 /\ mEventLogCounter' = 0 /\ pc' = "idle"
        BY <2>1, <3>1 DEF ClearFromMenu, Writing
      <4>2. ~aborted'
        BY <2>1, <3>1 DEF ClearFromMenu, Transferring
      <4>3. QED
        BY <4>1, <4>2 DEF InStep
    <3>2. CASE pc # "idle"
      <4>1. disturbed'
        BY <2>1, <3>2 DEF ClearFromMenu
      <4>2. (pc # "off" => eepCount # Erased)'
        BY <2>1 DEF ClearFromMenu
      <4>3. (aborted => Transferring)'
        BY <2>1 DEF ClearFromMenu, Transferring
      <4>4. QED
        BY <4>1, <4>2, <4>3
    <3>3. QED
      BY <3>1, <3>2
  <2>2. CASE LoadFromMenu
    <3>1. /\ pc' = pc /\ eepCount' = eepCount /\ eepData' = eepData
          /\ reg' = reg /\ mDateTimeEventData' = mDateTimeEventData
          /\ DurableCount' = DurableCount
          /\ (pc # "off" => eepCount # Erased)'
      BY <2>2 DEF LoadFromMenu, DurableCount
    <3>2. (aborted => Transferring /\ disturbed)'
      BY <2>2, <1>c DEF LoadFromMenu, Transferring, FlagsOK
    <3>3. CASE pc = "idle"
      <4>1. mEventLogCounter' = DurableCount
        BY <2>2, <3>3 DEF LoadFromMenu, Writing, DurableCount
      <4>2. QED
        BY <3>1, <3>2, <3>3, <4>1 DEF InStep
    <3>4. CASE Transferring \/ pc = "save"
      <4>1. disturbed'
        BY <2>2, <3>4 DEF LoadFromMenu, Transferring
      <4>2. QED
        BY <3>1, <3>2, <4>1
    <3>5. CASE pc # "idle" /\ ~Transferring /\ pc # "save"
      <4>1. disturbed' <=> disturbed
        BY <2>2, <3>5, <1>c DEF LoadFromMenu, FlagsOK
      <4>2. ASSUME ~disturbed
            PROVE  mEventLogCounter' = mEventLogCounter
        <5>1. mEventLogCounter = DurableCount
          BY <2>2, <3>5, <4>2, <1>c DEF LoadFromMenu, InStep, Ahead,
             Transferring, PC, DataOK
        <5>2. CASE Writing
          BY <2>2, <5>1, <5>2, ClampRange DEF LoadFromMenu, Clamp
        <5>3. CASE ~Writing
          BY <2>2, <5>1, <5>3 DEF LoadFromMenu, DurableCount
        <5>4. QED
          BY <5>2, <5>3
      <4>3. QED
        BY <3>1, <3>2, <3>5, <4>1, <4>2 DEF InStep, Ahead
    <3>6. QED
      BY <3>3, <3>4, <3>5
  <2>3. CASE OtherBusUse
    BY <2>3 DEF OtherBusUse, InStep, Transferring
  <2>4. QED
    BY <1>4, <2>1, <2>2, <2>3 DEF Interrupt
<1>5. CASE UNCHANGED vars
  BY <1>5 DEF vars, InStep, Transferring, DurableCount, Ahead
<1>6. QED
  BY <1>1, <1>2, <1>3, <1>4, <1>5 DEF Next

LEMMA AlwaysInv == Spec => []Inv
  BY InitInv, NextInv, PTL DEF Spec

(* While the menu stays away from the vulnerable steps, RAM and EEPROM     *)
(* agree whenever the main loop is not saving, whatever power losses cut   *)
(* short before.                                                           *)
THEOREM AgreementHolds == Spec => []Agreement
<1>1. Inv => Agreement
  BY DEF Inv, Synchronised, InStep, Agreement
<1>2. QED
  BY AlwaysInv, <1>1, PTL

(* A counted record stays as it is until the log is cleared: the slot a    *)
(* save writes is never one the EEPROM counts, and the counter it stores   *)
(* counts every record counted before.                                     *)
THEOREM CountedRecordsStayHolds == Spec => CountedRecordsStay
<1> DEFINE Stay == ~disturbed' =>
                     \/ DurableCount' = 0
                     \/ \A s \in 0..(DurableCount - 1) :
                          DurableCount' > s /\ eepData'[s] = eepData[s]
<1>1. ASSUME Inv, [Next]_vars
      PROVE  Stay
  <2> USE SlotsAssumption, MaxAssumption
  <2>a. /\ DurableCount \in 0..MaxEventCount
        /\ eepCount' \in 0..Erased
        /\ eepCount' <= MaxEventCount => DurableCount' = eepCount'
    BY <1>1, NextInv, ClampRange
       DEF Inv, TypedBounds, TypeOK, DataOK, DurableCount
  <2>1. CASE EndRecord
    <3>1. DurableCount' = DurableCount
      BY <2>1 DEF EndRecord, DurableCount
    <3>2. ASSUME ~disturbed', NEW s \in 0..(DurableCount - 1)
          PROVE  eepData'[s] = eepData[s]
      BY <1>1, <2>1, <2>a, <3>2
         DEF EndRecord, Inv, Synchronised, InStep, TypedBounds, TypeOK, DataOK
    <3>3. QED
      BY <2>a, <3>1, <3>2
  <2>2. CASE EndSave
    <3>1. CASE disturbed
      BY <2>2, <3>1 DEF EndSave
    <3>2. CASE ~disturbed
      <4>1. eepCount' = mEventLogCounter
        BY <1>1, <2>2, <3>2 DEF EndSave, Inv, Synchronised, InStep
      <4>2. mEventLogCounter = 0 \/ mEventLogCounter = DurableCount + 1
        BY <1>1, <2>2, <3>2 DEF EndSave, Inv, Synchronised, InStep
      <4>3. DurableCount' = 0 \/ DurableCount' = DurableCount + 1
        BY <1>1, <2>2, <2>a, <3>2, <4>1, <4>2
           DEF EndSave, Inv, Synchronised, InStep
      <4>4. eepData' = eepData
        BY <2>2 DEF EndSave
      <4>5. QED
        BY <2>a, <4>3, <4>4
    <3>3. QED
      BY <3>1, <3>2
  <2>3. CASE ClearFromMenu
    <3>1. CASE pc = "idle"
      <4>1. eepCount' = 0
        BY <2>3, <3>1 DEF ClearFromMenu, Writing
      <4>2. QED
        BY <2>a, <4>1
    <3>2. CASE pc # "idle"
      BY <2>3, <3>2 DEF ClearFromMenu
    <3>3. QED
      BY <3>1, <3>2
  <2>4. ASSUME ~EndRecord, ~EndSave, ~ClearFromMenu
        PROVE  DurableCount' = DurableCount /\ eepData' = eepData
    <3>1. CASE Boot
      <4>1. /\ eepData' = eepData
            /\ eepCount' = IF eepCount = Erased THEN 0 ELSE eepCount
        BY <3>1 DEF Boot
      <4>2. DurableCount' = DurableCount
        BY <4>1, <1>1 DEF DurableCount, Clamp, Inv, TypedBounds, TypeOK, DataOK
      <4>3. QED
        BY <4>1, <4>2
    <3>2. CASE ~Boot
      <4>1. eepCount' = eepCount /\ eepData' = eepData
        BY <1>1, <2>4, <3>2
           DEF Next, PowerLoss, MainLoop, SaveSteps, Interrupt,
               SaveEventLogData, RoomLeft, Slot, StartRecord, RecordWritten, LoadCounter,
               StoreCounter, StartSave, SaveDone, ClearFromMain,
               LoadFromMain, LoadFromMenu, OtherBusUse, vars
      <4>2. QED
        BY <4>1 DEF DurableCount
    <3>3. QED
      BY <3>1, <3>2
  <2>5. QED
    BY <2>a, <2>1, <2>2, <2>3, <2>4
<1>2. Inv /\ [Next]_vars => [Stay]_vars
  BY <1>1
<1>3. QED
  BY AlwaysInv, <1>2, PTL DEF Spec, CountedRecordsStay

-----------------------------------------------------------------------------
(* The refinement.  What the mapping makes of the state: the request...    *)
RequestMapped ==
  /\ disturbed \/ pc \in {"off", "idle", "saveCycle"} => Request = Store!Nothing
  /\ ~disturbed /\ pc \in {"save", "saveXfer"} /\ mEventLogCounter = 0 =>
       Request = Store!Request("clear", NoEvent)
  /\ ~disturbed /\ pc \in {"save", "saveXfer"} /\ mEventLogCounter # 0 =>
       Request = Store!Request("append", mDateTimeEventData)
  /\ ~disturbed /\ pc \in {"record", "recordXfer", "recordCycle", "increment", "store"} =>
       Request = Store!Request("append", mDateTimeEventData)

(* ...and the durable log.                                                 *)
LogMapped ==
  /\ DurableCount \in 0..MaxEventCount
  /\ DurableLog \in Seq(Event \cup {NoEvent})
  /\ Len(DurableLog) = DurableCount

LEMMA Mapped == DataOK => RequestMapped /\ LogMapped
<1> SUFFICES ASSUME DataOK
             PROVE  RequestMapped /\ LogMapped
  OBVIOUS
<1>1. RequestMapped
  BY DEF RequestMapped, DataOK, PC, Request, Store!Nothing, Store!Request
<1>2. DurableCount \in 0..MaxEventCount
  BY ClampRange DEF DataOK, DurableCount
<1>3. \A i \in 1..DurableCount : eepData[i - 1] \in Event \cup {NoEvent}
  BY <1>2, SlotsAssumption, MaxAssumption DEF DataOK, Slots
<1>4. LogMapped
  BY <1>2, <1>3, SlotsAssumption, MaxAssumption DEF LogMapped, DurableLog
<1>5. QED
  BY <1>1, <1>4

(* A step of the main loop between a request and its effect, or of the     *)
(* menu, that leaves log, request and trust as they are.                   *)
LEMMA StoreStutters ==
  ASSUME DurableLog' = DurableLog, Request' = Request,
         pc = "off" <=> pc' = "off", disturbed' = disturbed
  PROVE  UNCHANGED Store!vars
  BY DEF Store!vars

(* While the promise is suspended any log will do.                         *)
LEMMA StoreSuspends ==
  ASSUME DataOK', disturbed', pc # "off", pc' # "off"
  PROVE  Store!Next
<1>1. DataOK' => (RequestMapped /\ LogMapped)'
  BY Mapped, PTL
<1>2. Store!Suspend
  BY <1>1 DEF Store!Suspend, RequestMapped, LogMapped
<1>3. QED
  BY <1>2 DEF Store!Next

(* EndSave makes the request durable: with the new counter the log is      *)
(* empty, or one record longer.                                            *)
LEMMA StoreCommits ==
  ASSUME Inv, Inv', EndSave, ~disturbed
  PROVE  Store!Commit
<1>1. DataOK /\ DataOK' /\ Bounds' /\ InStep /\ ~aborted /\ ~disturbed'
  BY DEF Inv, TypedBounds, TypeOK, Synchronised, EndSave
<1>2. RequestMapped /\ RequestMapped' /\ LogMapped /\ LogMapped'
  <2>1. DataOK' => (RequestMapped /\ LogMapped)'
    BY Mapped, PTL
  <2>2. QED
    BY <1>1, <2>1, Mapped
<1>3. /\ pc = "saveXfer" /\ pc' = "saveCycle"
      /\ eepCount' = mEventLogCounter /\ eepData' = eepData
  BY <1>1 DEF EndSave, InStep
<1>4. Request' = Store!Nothing
  BY <1>2, <1>3 DEF RequestMapped
<1>5. CASE mEventLogCounter = 0
  <2>1. Request = Store!Request("clear", NoEvent)
    BY <1>2, <1>3, <1>5 DEF RequestMapped
  <2>2. DurableCount' = 0
    BY <1>3, <1>5, SlotsAssumption, MaxAssumption DEF DurableCount, Clamp
  <2>3. DurableLog' = << >>
    BY <1>2, <2>2 DEF LogMapped
  <2>4. QED
    BY <1>1, <1>3, <1>4, <2>1, <2>3 DEF Store!Commit, Store!Request
<1>6. CASE mEventLogCounter # 0
  <2>1. Request = Store!Request("append", mDateTimeEventData)
    BY <1>2, <1>3, <1>6 DEF RequestMapped
  <2>2. /\ DurableCount' = DurableCount + 1
        /\ eepData[DurableCount] = mDateTimeEventData
    <3>1. /\ mEventLogCounter = DurableCount + 1 /\ DurableCount < MaxEventCount
          /\ eepData[DurableCount] = mDateTimeEventData
      BY <1>1, <1>3, <1>6 DEF InStep
    <3>2. QED
      BY <1>2, <1>3, <3>1, SlotsAssumption, MaxAssumption DEF DurableCount, Clamp, LogMapped
  <2>3. DurableLog' = Append(DurableLog, mDateTimeEventData)
    BY <1>2, <1>3, <2>2 DEF LogMapped, DurableLog
  <2>4. QED
    BY <1>1, <1>3, <1>4, <2>1, <2>3 DEF Store!Commit, Store!Request
<1>7. QED
  BY <1>5, <1>6

LEMMA StoreSteps == Inv /\ [Next]_vars => [Store!Next]_(Store!vars)
<1> SUFFICES ASSUME Inv, [Next]_vars
             PROVE  Store!Next \/ UNCHANGED Store!vars
  OBVIOUS
<1>a. Inv'
  BY NextInv
<1>b. /\ DataOK /\ FlagsOK /\ Synchronised
      /\ DataOK' /\ FlagsOK' /\ Synchronised'
  BY <1>a DEF Inv, TypedBounds, TypeOK
<1>c. RequestMapped /\ RequestMapped' /\ LogMapped /\ LogMapped'
  <2>1. DataOK' => (RequestMapped /\ LogMapped)'
    BY Mapped, PTL
  <2>2. QED
    BY <1>b, <2>1, Mapped
<1>d. eepCount' = eepCount /\ eepData' = eepData => DurableLog' = DurableLog
  BY DEF DurableLog, DurableCount
<1>e. ASSUME DurableLog' = DurableLog, Request' = Request,
             pc # "off", pc' # "off", disturbed' = disturbed
      PROVE  UNCHANGED Store!vars
  BY <1>e, StoreStutters
<1>f. ASSUME disturbed', pc # "off", pc' # "off"
      PROVE  Store!Next
  BY <1>b, <1>f, StoreSuspends
<1>1. CASE Boot
  <2>1. DurableLog' = DurableLog
    BY <1>1, <1>b, SlotsAssumption, MaxAssumption DEF Boot, DurableLog, DurableCount, Clamp, DataOK
  <2>2. Store!PowerUp
    BY <1>1, <1>c, <2>1 DEF Boot, RequestMapped, Store!PowerUp
  <2>3. QED
    BY <2>2 DEF Store!Next
<1>2. CASE PowerLoss
  <2>1. Store!PowerDown
    BY <1>2, <1>c, <1>d DEF PowerLoss, RequestMapped, Store!PowerDown
  <2>2. QED
    BY <2>1 DEF Store!Next
<1>3. CASE MainLoop
  <2>1. ASSUME NEW e \in Event, SaveEventLogData(e)
        PROVE  Store!Next \/ UNCHANGED Store!vars
    <3>1. CASE RoomLeft /\ ~disturbed
      <4>1. Request' = Store!Request("append", e)
        BY <1>c, <2>1, <3>1 DEF SaveEventLogData, RequestMapped
      <4>2. Len(DurableLog) < MaxEventCount
        BY <1>b, <1>c, <2>1, <3>1 DEF SaveEventLogData, RoomLeft, Synchronised, InStep, LogMapped
      <4>3. Store!Ask(Store!Request("append", e))
        BY <1>c, <1>d, <2>1, <3>1, <4>1, <4>2
           DEF SaveEventLogData, RequestMapped, Store!Ask, Store!Request
      <4>4. QED
        BY <4>3 DEF Store!Next, Store!Requests
    <3>2. CASE RoomLeft /\ disturbed
      BY <1>c, <1>d, <1>e, <2>1, <3>2 DEF SaveEventLogData, RequestMapped
    <3>3. CASE ~RoomLeft
      BY <1>c, <1>d, <1>e, <2>1, <3>3 DEF SaveEventLogData, RequestMapped
    <3>4. QED
      BY <3>1, <3>2, <3>3
  <2>2. CASE EndRecord
    <3>1. CASE disturbed
      BY <1>f, <2>2, <3>1 DEF EndRecord
    <3>2. CASE ~disturbed
      <4>1. DurableCount' = DurableCount /\ reg = DurableCount
        BY <1>b, <2>2, <3>2 DEF EndRecord, DurableCount, Synchronised, InStep
      <4>2. DurableLog' = DurableLog
        BY <1>b, <1>c, <2>2, <4>1 DEF EndRecord, DurableLog, LogMapped, DataOK
      <4>3. Request' = Request
        BY <1>c, <2>2, <3>2 DEF EndRecord, RequestMapped
      <4>4. QED
        BY <1>e, <2>2, <4>2, <4>3 DEF EndRecord
    <3>3. QED
      BY <3>1, <3>2
  <2>3. CASE EndSave
    <3>1. CASE disturbed
      BY <1>f, <2>3, <3>1 DEF EndSave
    <3>2. CASE ~disturbed
      BY <1>a, <2>3, <3>2, StoreCommits DEF Store!Next
    <3>3. QED
      BY <3>1, <3>2
  <2>4. CASE StartRecord \/ RecordWritten \/ LoadCounter
    <3>1. Request' = Request
      BY <1>b, <1>c, <2>4 DEF StartRecord, RecordWritten, LoadCounter, RequestMapped
    <3>2. QED
      BY <1>d, <1>e, <2>4, <3>1 DEF StartRecord, RecordWritten, LoadCounter
  <2>5. CASE StoreCounter
    <3>1. mEventLogCounter' # 0
      BY <1>b, <2>5 DEF StoreCounter, DataOK
    <3>2. Request' = Request
      BY <1>b, <1>c, <2>5, <3>1 DEF StoreCounter, RequestMapped
    <3>3. QED
      BY <1>d, <1>e, <2>5, <3>2 DEF StoreCounter
  <2>6. CASE StartSave \/ SaveDone
    <3>1. Request' = Request
      BY <1>b, <1>c, <2>6 DEF StartSave, SaveDone, RequestMapped
    <3>2. QED
      BY <1>d, <1>e, <2>6, <3>1 DEF StartSave, SaveDone
  <2>7. CASE ClearFromMain
    <3>1. CASE disturbed
      BY <1>c, <1>d, <1>e, <2>7, <3>1 DEF ClearFromMain, RequestMapped
    <3>2. CASE ~disturbed
      <4>1. Request' = Store!Request("clear", NoEvent)
        BY <1>c, <2>7, <3>2 DEF ClearFromMain, RequestMapped
      <4>2. Store!Ask(Store!Request("clear", NoEvent))
        BY <1>c, <1>d, <2>7, <3>2, <4>1
           DEF ClearFromMain, RequestMapped, Store!Ask, Store!Request
      <4>3. QED
        BY <4>2 DEF Store!Next, Store!Requests
    <3>3. QED
      BY <3>1, <3>2
  <2>8. CASE LoadFromMain
    <3>1. Request' = Store!Nothing /\ Request = Store!Nothing
      BY <1>c, <2>8 DEF LoadFromMain, RequestMapped
    <3>2. CASE disturbed
      <4>1. Store!Resume
        BY <1>d, <2>8, <3>1, <3>2 DEF LoadFromMain, Store!Resume
      <4>2. QED
        BY <4>1 DEF Store!Next
    <3>3. CASE ~disturbed
      BY <1>b, <1>d, <1>e, <2>8, <3>1, <3>3 DEF LoadFromMain, FlagsOK
    <3>4. QED
      BY <3>2, <3>3
  <2>9. QED
    BY <1>3, <2>1, <2>2, <2>3, <2>4, <2>5, <2>6, <2>7, <2>8 DEF MainLoop, SaveSteps
<1>4. CASE Interrupt
  <2>1. CASE ClearFromMenu
    <3>1. CASE pc = "idle"
      <4>1. Request' = Store!Nothing /\ Request = Store!Nothing
        BY <1>c, <2>1, <3>1 DEF ClearFromMenu, RequestMapped
      <4>2. DurableCount' = 0
        BY <2>1, <3>1, SlotsAssumption, MaxAssumption DEF ClearFromMenu, Writing, DurableCount, Clamp
      <4>3. DurableLog' = << >>
        BY <1>c, <4>2 DEF LogMapped
      <4>4. Store!ClearNow
        BY <2>1, <3>1, <4>1, <4>3 DEF ClearFromMenu, Store!ClearNow
      <4>5. QED
        BY <4>4 DEF Store!Next
    <3>2. CASE pc # "idle"
      BY <1>f, <2>1, <3>2 DEF ClearFromMenu
    <3>3. QED
      BY <3>1, <3>2
  <2>2. CASE LoadFromMenu
    <3>1. CASE disturbed'
      BY <1>f, <2>2, <3>1 DEF LoadFromMenu
    <3>2. CASE ~disturbed' /\ pc = "idle"
      <4>1. Request' = Store!Nothing /\ Request = Store!Nothing
        BY <1>c, <2>2, <3>2 DEF LoadFromMenu, RequestMapped
      <4>2. CASE disturbed
        <5>1. Store!Resume
          BY <1>d, <2>2, <3>2, <4>1, <4>2 DEF LoadFromMenu, Store!Resume
        <5>2. QED
          BY <5>1 DEF Store!Next
      <4>3. CASE ~disturbed
        BY <1>b, <1>d, <1>e, <2>2, <3>2, <4>1, <4>3 DEF LoadFromMenu, FlagsOK
      <4>4. QED
        BY <4>2, <4>3
    <3>3. CASE ~disturbed' /\ pc # "idle"
      <4>1. ~disturbed /\ pc \notin {"save", "saveXfer", "recordXfer"}
        BY <2>2, <3>3 DEF LoadFromMenu, Transferring
      <4>2. Request' = Request
        BY <1>b, <1>c, <2>2, <3>3, <4>1 DEF LoadFromMenu, RequestMapped, DataOK, PC
      <4>3. QED
        BY <1>b, <1>d, <1>e, <2>2, <3>3, <4>1, <4>2 DEF LoadFromMenu, FlagsOK
    <3>4. QED
      BY <3>1, <3>2, <3>3
  <2>3. CASE OtherBusUse
    BY <1>f, <2>3 DEF OtherBusUse, Transferring
  <2>4. QED
    BY <1>4, <2>1, <2>2, <2>3 DEF Interrupt
<1>5. CASE UNCHANGED vars
  <2>1. DurableLog' = DurableLog /\ Request' = Request /\ pc' = pc /\ disturbed' = disturbed
    BY <1>5 DEF vars, DurableLog, DurableCount, Request
  <2>2. QED
    BY <2>1, StoreStutters
<1>6. QED
  BY <1>1, <1>2, <1>3, <1>4, <1>5 DEF Next

(* The log implements EventStore: whatever the power and the menu do, an   *)
(* event is appended exactly once or not at all and nothing else ever is,  *)
(* and the log is only shortened by clearing it, from the moment RAM and   *)
(* EEPROM agree until the menu hits the next vulnerable step.              *)
THEOREM StoreImplemented == Spec => ImplementsStore
<1>1. Init => Store!Init
  <2>1. ASSUME Init
        PROVE  Store!Init
    <3>1. DataOK /\ Request = Store!Nothing
      BY <2>1, InitInv, Mapped DEF Init, Inv, TypedBounds, TypeOK, RequestMapped
    <3>2. DurableCount = 0
      BY <2>1 DEF Init, DurableCount, Clamp
    <3>3. DurableLog = << >>
      BY <3>1, <3>2, Mapped DEF LogMapped
    <3>4. QED
      BY <2>1, <3>1, <3>3 DEF Init, Store!Init
  <2>2. QED
    BY <2>1
<1>2. QED
  BY AlwaysInv, StoreSteps, <1>1, PTL DEF Spec, ImplementsStore, Store!Spec

-----------------------------------------------------------------------------
(* The viewer.                                                             *)

(* What the two orders of EventView are made of: remainders and rows.      *)
LEMMA Wrapped ==
  ASSUME NEW T \in Nat \ {0}, NEW a \in (-T)..(T - 1)
  PROVE  a % T = IF a < 0 THEN a + T ELSE a
  OBVIOUS

LEMMA Rows ==
  ASSUME NEW k \in Nat, NEW l \in Nat, NEW n \in Nat, k < l
  PROVE  k * n + n <= l * n
<1>1. PICK d \in Nat : l = k + 1 + d
  <2>1. l - k - 1 \in Nat /\ l = k + 1 + (l - k - 1)
    OBVIOUS
  <2>2. QED
    BY <2>1
<1>2. l * n = k * n + n + d * n
  BY <1>1
<1>3. d * n \in Nat /\ k * n \in Nat
  OBVIOUS
<1>4. QED
  BY <1>2, <1>3

(* Places on a round of n: how many are between p and q in a direction,    *)
(* and the neighbour.                                                      *)
Between(d, p, q, n) == IF d = "up" THEN (q - p - 1) % n ELSE (p - q - 1) % n
Beside(d, p, q, n) ==
  q = IF d = "up" THEN (IF p + 1 = n THEN 0 ELSE p + 1)
                  ELSE (IF p = 0 THEN n - 1 ELSE p - 1)

(* What the provers need of remainders, for three places at once.         *)
Tour(d, p, q, r, n) ==
  /\ Between(d, p, q, n) \in 0..(n - 1)
  /\ Between(d, p, q, n) = Between(d, p, r, n) => q = r
  /\ Beside(d, p, q, n) => Between(d, p, q, n) = 0
  /\ Beside(d, q, r, n) /\ q # p
       => Between(d, p, r, n) = Between(d, p, q, n) + 1
  /\ Beside("up", p, q, n) <=> Beside("down", q, p, n)
  /\ Beside("up", p, q, n) <=> (p + 1) % n = q

LEMMA RoundTrip ==
  \A n \in Nat \ {0} : \A p, q, r \in 0..(n - 1) : \A d \in {"up", "down"} :
    Tour(d, p, q, r, n)
<1> SUFFICES ASSUME NEW n \in Nat \ {0}, NEW p \in 0..(n - 1),
                    NEW q \in 0..(n - 1), NEW r \in 0..(n - 1),
                    NEW d \in {"up", "down"}
             PROVE  Tour(d, p, q, r, n)
  OBVIOUS
<1> DEFINE G(x, y) == IF y - x - 1 < 0 THEN y - x - 1 + n ELSE y - x - 1
<1>1. \A x, y \in 0..(n - 1) : (y - x - 1) % n = G(x, y)
  <2>1. \A x, y \in 0..(n - 1) : y - x - 1 \in (-n)..(n - 1)
    OBVIOUS
  <2>2. QED
    BY <2>1, Wrapped
<1>2. (p + 1) % n = IF p + 1 = n THEN 0 ELSE p + 1
  <2>1. CASE p + 1 = n
    BY <2>1
  <2>2. CASE p + 1 # n
    <3>1. p + 1 \in (-n)..(n - 1)
      BY <2>2
    <3>2. (p + 1) % n = IF p + 1 < 0 THEN p + 1 + n ELSE p + 1
      BY <3>1, Wrapped
    <3>3. QED
      BY <2>2, <3>2
  <2>3. QED
    BY <2>1, <2>2
<1>3. Between(d, p, q, n) = IF d = "up" THEN G(p, q) ELSE G(q, p)
  BY <1>1 DEF Between
<1>4. Between(d, p, r, n) = IF d = "up" THEN G(p, r) ELSE G(r, p)
  BY <1>1 DEF Between
<1>5. QED
  BY <1>2, <1>3, <1>4 DEF Beside, Tour

(* The place of an event tells which it is.                                *)
LEMMA Places ==
  ASSUME NEW e \in Events, NEW o \in Events, count \in Nat
  PROVE  /\ Total \in Nat \ {0}
         /\ Place(e) \in 0..(Total - 1)
         /\ Place(e) = Place(o) => e = o
         /\ Place(e) = 0 <=> e.index = count - 1 /\ e.bit = 0
         /\ Place(e) = Total - 1 <=> e.index = 0 /\ e.bit = NBits - 1
<1> DEFINE k(x) == count - 1 - x.index
<1>1. /\ e = [index |-> e.index, bit |-> e.bit]
      /\ e.index \in 0..(count - 1) /\ e.bit \in 0..(NBits - 1)
      /\ o = [index |-> o.index, bit |-> o.bit]
      /\ o.index \in 0..(count - 1) /\ o.bit \in 0..(NBits - 1)
  BY DEF Events, Bits
<1>2. NBits \in Nat \ {0}
  BY ViewAssumption, SlotsAssumption
<1>3. k(e) \in Nat /\ k(o) \in Nat /\ k(e) < count /\ k(o) < count
  BY <1>1
<1>4. /\ k(e) * NBits \in Nat /\ k(o) * NBits \in Nat /\ count * NBits \in Nat
      /\ k(e) * NBits + NBits <= count * NBits
      /\ k(e) < k(o) => k(e) * NBits + NBits <= k(o) * NBits
      /\ k(o) < k(e) => k(o) * NBits + NBits <= k(e) * NBits
      /\ 0 < k(e) => 0 * NBits + NBits <= k(e) * NBits
      /\ k(e) < count - 1 => k(e) * NBits + NBits <= (count - 1) * NBits
  BY <1>2, <1>3, Rows
<1>5. (count - 1) * NBits + NBits = count * NBits
  BY <1>1, <1>2
<1>6. Place(e) = k(e) * NBits + e.bit /\ Place(o) = k(o) * NBits + o.bit
  BY DEF Place
<1>7. Total = count * NBits
  BY DEF Total
<1>8. 0 * NBits = 0
  BY <1>2
<1>9. (count - 1) * NBits \in Nat
  BY <1>1, <1>2
<1> HIDE DEF k
<1>10. PICK pe \in Nat, w \in Nat :
         /\ pe = k(e) * NBits /\ w = (count - 1) * NBits
  BY <1>4, <1>9
<1>11. /\ k(e) = 0 => pe = 0
       /\ k(e) # 0 => NBits <= pe
  <2>1. k(e) = 0 => pe = 0
    BY <1>10, <1>8
  <2>2. 0 < k(e) => NBits <= pe
    BY <1>2, <1>4, <1>10, <1>8
  <2>3. QED
    BY <2>1, <2>2, <1>3
<1>12. /\ k(e) = count - 1 => pe = w
       /\ k(e) # count - 1 => pe + NBits <= w
       /\ Total = w + NBits
  <2>1. k(e) = count - 1 => pe = w
    BY <1>10
  <2>2. k(e) < count - 1 => pe + NBits <= w
    BY <1>4, <1>10
  <2>3. Total = w + NBits
    BY <1>5, <1>7, <1>10
  <2>4. QED
    BY <2>1, <2>2, <2>3, <1>1, <1>3
<1>13. Place(e) = pe + e.bit
  BY <1>6, <1>10
<1>14. e.bit \in 0..(NBits - 1)
  BY <1>1
<1>15. Total \in Nat \ {0} /\ Place(e) \in 0..(Total - 1)
  BY <1>1, <1>2, <1>4, <1>6, <1>7
<1>16. Place(e) = Place(o) => k(e) = k(o) /\ e.bit = o.bit
  <2>1. PICK po \in Nat : po = k(o) * NBits
    BY <1>4
  <2>2. /\ k(e) < k(o) => pe + NBits <= po
        /\ k(o) < k(e) => po + NBits <= pe
        /\ k(e) = k(o) => pe = po
    BY <1>4, <1>10, <2>1
  <2>3. Place(o) = po + o.bit
    BY <1>6, <2>1
  <2>4. QED
    BY <1>1, <1>2, <1>3, <1>13, <2>2, <2>3
<1>17. Place(e) = 0 <=> k(e) = 0 /\ e.bit = 0
  <2>1. CASE k(e) = 0
    <3>1. pe = 0
      BY <1>11, <2>1
    <3>2. 0 + e.bit = e.bit
      BY <1>14
    <3>3. Place(e) = e.bit
      BY <1>13, <3>1, <3>2
    <3>4. QED
      BY <2>1, <3>3
  <2>2. CASE k(e) # 0
    <3>1. pe + e.bit > 0
      BY <1>2, <1>11, <1>14, <2>2
    <3>2. QED
      BY <1>13, <2>2, <3>1
  <2>3. QED
    BY <2>1, <2>2
<1>18. Place(e) = Total - 1 <=> k(e) = count - 1 /\ e.bit = NBits - 1
  <2>1. CASE k(e) = count - 1
    <3>1. w + e.bit = w + NBits - 1 <=> e.bit = NBits - 1
      BY <1>2, <1>14
    <3>2. pe = w /\ Total = w + NBits
      BY <1>12, <2>1
    <3>3. Place(e) = w + e.bit /\ Total - 1 = w + NBits - 1
      BY <1>2, <1>13, <3>2
    <3>4. QED
      BY <2>1, <3>1, <3>3
  <2>2. CASE k(e) # count - 1
    <3>1. pe + NBits <= w /\ Total - 1 = w + NBits - 1
      BY <1>2, <1>12, <2>2
    <3>2. pe + e.bit # w + NBits - 1
      BY <1>2, <1>14, <3>1
    <3>3. QED
      BY <1>13, <2>2, <3>1, <3>2
  <2>3. QED
    BY <2>1, <2>2
<1>19. QED
  BY <1>1, <1>15, <1>16, <1>17, <1>18 DEF k

-----------------------------------------------------------------------------
(* Where the viewer stands, as an event that may or may not be visible.    *)
Spot(v) == [index |-> v.currentDataIndex, bit |-> v.currentBit]
Opposite(d) == IF d = "up" THEN "down" ELSE "up"
Round(d, e, o) == Between(d, Place(e), Place(o), Total)
Neighbour(d, e, o) == Beside(d, Place(e), Place(o), Total)

(* The distance to events on a round: what the two orders are made of.     *)
LEMMA Distances ==
  ASSUME count \in Nat, NEW e \in Events, NEW o \in Events, NEW x \in Events,
         NEW d \in {"up", "down"}
  PROVE  /\ Round(d, e, o) \in 0..(Total - 1)
         /\ Round(d, e, o) = Round(d, e, x) => o = x
         /\ Neighbour(d, e, o) => Round(d, e, o) = 0
         /\ Neighbour(d, o, x) /\ o # e => Round(d, e, x) = Round(d, e, o) + 1
         /\ Neighbour("up", e, o) <=> Neighbour("down", o, e)
         /\ Neighbour("up", e, o) <=> (Place(e) + 1) % Total = Place(o)
<1>1. /\ Total \in Nat \ {0}
      /\ Place(e) \in 0..(Total - 1)
      /\ Place(o) \in 0..(Total - 1)
      /\ Place(x) \in 0..(Total - 1)
      /\ Place(o) = Place(x) => o = x
      /\ Place(o) = Place(e) => o = e
  BY Places
<1>2. Tour(d, Place(e), Place(o), Place(x), Total)
  BY <1>1, RoundTrip
<1>3. QED
  BY <1>1, <1>2 DEF Round, Neighbour, Tour

(* The next event in a direction, as the property writes it.               *)
Wanted(d, e) == IF d = "up" THEN After(e) ELSE Before(e)

LEMMA Nearest ==
  ASSUME count \in Nat, NEW e \in Visible, NEW o \in Visible,
         NEW d \in {"up", "down"},
         \A x \in Visible : Round(d, e, o) <= Round(d, e, x)
  PROVE  o = Wanted(d, e)
<1>1. \A x \in Visible : x \in Events
  BY DEF Visible
<1>2. ASSUME NEW f \in Visible,
             \A x \in Visible : Round(d, e, f) <= Round(d, e, x)
      PROVE  f = o
  <2>1. Round(d, e, f) = Round(d, e, o)
    <3>1. Round(d, e, f) <= Round(d, e, o) /\ Round(d, e, o) <= Round(d, e, f)
      BY <1>2
    <3>2. Round(d, e, f) \in Int /\ Round(d, e, o) \in Int
      BY <1>1, Distances
    <3>3. QED
      BY <3>1, <3>2
  <2>2. QED
    BY <1>1, <2>1, Distances
<1>3. CASE d = "up"
  <2>1. \A x, y \in Visible :
          (Place(x) - Place(e) - 1) % Total <= (Place(y) - Place(e) - 1) % Total
            <=> Round(d, e, x) <= Round(d, e, y)
    BY <1>3 DEF Round, Between
  <2>2. After(e) = CHOOSE f \in Visible :
                     \A x \in Visible : Round(d, e, f) <= Round(d, e, x)
    BY <1>3 DEF After, Round, Between
  <2>3. QED
    BY <1>2, <1>3, <2>2 DEF Wanted
<1>4. CASE d = "down"
  <2>2. Before(e) = CHOOSE f \in Visible :
                     \A x \in Visible : Round(d, e, f) <= Round(d, e, x)
    BY <1>4 DEF Before, Round, Between
  <2>3. QED
    BY <1>2, <1>4, <2>2 DEF Wanted
<1>5. QED
  BY <1>3, <1>4

(* One step of a walk from an event goes to its neighbour, and takes the   *)
(* record it belongs to along.                                             *)
Step(d) == IF d = "up" THEN StepUp ELSE StepDown

LEMMA StepGoesOn ==
  ASSUME ViewTypeOK, Spot(vm) \in Events, NEW d \in {"up", "down"}, NEW v \in Step(d)
  PROVE  /\ Spot(v) \in Events
         /\ Neighbour(d, Spot(vm), Spot(v))
         /\ vm.startFlag = 1 => v.startFlag = 1
         /\ vm.eventLogData = data[vm.currentDataIndex]
              => v.eventLogData = data[v.currentDataIndex]
<1> DEFINE i == vm.currentDataIndex
           b == vm.currentBit
           at(j, c) == [index |-> j, bit |-> c]
<1>1. /\ count \in Nat /\ count <= MaxEventCount
      /\ i \in 0..(count - 1) /\ b \in 0..(NBits - 1) /\ NBits \in Nat \ {0}
      /\ vm = Cursor(vm.startFlag, b, i, vm.eventLogData)
      /\ vm.startFlag \in {0, 1}
  <2>1. count \in Nat /\ count <= MaxEventCount /\ NBits \in Nat \ {0}
    BY ViewAssumption, SlotsAssumption DEF ViewTypeOK
  <2>2. PICK j \in 0..(count - 1), c \in Bits : Spot(vm) = at(j, c)
    BY DEF Events
  <2>3. Spot(vm).index = j /\ Spot(vm).bit = c
    BY <2>2
  <2>4. i = j /\ b = c
    BY <2>3 DEF Spot
  <2>5. vm = Cursor(vm.startFlag, b, i, vm.eventLogData) /\ vm.startFlag \in {0, 1}
    BY DEF ViewTypeOK, Cursor
  <2>6. QED
    BY <2>1, <2>4, <2>5 DEF Bits
<1>2. Spot(vm) = at(i, b) /\ at(i, b) \in Events
  BY DEF Spot
<1>3. ASSUME NEW s \in {0, 1}, NEW j \in 0..(count - 1), NEW c \in 0..(NBits - 1),
             NEW r, v = Cursor(s, c, j, r)
      PROVE  /\ Spot(v) = at(j, c) /\ at(j, c) \in Events
             /\ v.startFlag = s /\ v.eventLogData = r /\ v.currentDataIndex = j
  <2>1. Spot(v) = at(j, c)
    BY <1>3 DEF Spot, Cursor
  <2>2. at(j, c) \in Events
    BY DEF Events, Bits
  <2>3. v.startFlag = s /\ v.eventLogData = r /\ v.currentDataIndex = j
    BY <1>3 DEF Cursor
  <2>4. QED
    BY <2>1, <2>2, <2>3
<1>4. \A j \in 0..(count - 1) : \A c : Place(at(j, c)) = (count - 1 - j) * NBits + c
  BY DEF Place
<1>5. \A j \in 0..(count - 1), c \in 0..(NBits - 1) :
        /\ at(j, c) \in Events
        /\ Place(at(j, c)) \in 0..(Total - 1)
        /\ Place(at(j, c)) = 0 <=> j = count - 1 /\ c = 0
        /\ Place(at(j, c)) = Total - 1 <=> j = 0 /\ c = NBits - 1
  <2> SUFFICES ASSUME NEW j \in 0..(count - 1), NEW c \in 0..(NBits - 1)
               PROVE  /\ at(j, c) \in Events
                      /\ Place(at(j, c)) \in 0..(Total - 1)
                      /\ Place(at(j, c)) = 0 <=> j = count - 1 /\ c = 0
                      /\ Place(at(j, c)) = Total - 1 <=> j = 0 /\ c = NBits - 1
    OBVIOUS
  <2>1. at(j, c) \in Events
    BY DEF Events, Bits
  <2>2. at(j, c).index = j /\ at(j, c).bit = c
    OBVIOUS
  <2>3. QED
    BY <1>1, <2>1, <2>2, Places
<1>6. Loaded(i) = {data[i]} /\ \A j \in 0..(count - 1) : Loaded(j) = {data[j]}
  BY <1>1, ViewAssumption, SlotsAssumption DEF Loaded, Slots
<1>7. Total \in Nat /\ Place(at(i, b)) \in 0..(Total - 1)
  BY <1>1, <1>2, Places
<1>8. CASE d = "up"
  <2>1. CASE b + 1 < NBits
    <3>1. v = Cursor(vm.startFlag, b + 1, i, vm.eventLogData)
      BY <1>1, <1>8, <2>1 DEF Step, StepUp, Cursor
    <3>2. Place(at(i, b + 1)) = Place(at(i, b)) + 1 /\ Place(at(i, b)) # Total - 1
      BY <1>1, <1>4, <1>5, <2>1
    <3>3. b + 1 \in 0..(NBits - 1)
      BY <1>1, <2>1
    <3>4. /\ Spot(v) = at(i, b + 1) /\ at(i, b + 1) \in Events
          /\ v.startFlag = vm.startFlag
          /\ v.eventLogData = vm.eventLogData /\ v.currentDataIndex = i
      BY <1>1, <1>3, <3>1, <3>3
    <3>5. QED
      BY <1>1, <1>2, <1>5, <1>8, <3>2, <3>4 DEF Neighbour, Beside
  <2>2. CASE ~(b + 1 < NBits)
    <3> DEFINE j == IF i > 0 THEN i - 1 ELSE count - 1
    <3>1. b = NBits - 1 /\ j \in 0..(count - 1) /\ 0 \in 0..(NBits - 1)
      BY <1>1, <2>2
    <3>2. v = Cursor(1, 0, j, data[j])
      BY <1>1, <1>6, <1>8, <2>2, <3>1 DEF Step, StepUp
    <3>3. /\ Spot(v) = at(j, 0) /\ at(j, 0) \in Events
          /\ v.startFlag = 1 /\ v.eventLogData = data[j] /\ v.currentDataIndex = j
      BY <1>3, <3>1, <3>2
    <3>4. i > 0 => Place(at(j, 0)) = Place(at(i, b)) + 1 /\ Place(at(i, b)) # Total - 1
      <4> SUFFICES ASSUME i > 0
                   PROVE  /\ Place(at(j, 0)) = Place(at(i, b)) + 1
                          /\ Place(at(i, b)) # Total - 1
        OBVIOUS
      <4>1. Place(at(j, 0)) = (count - 1 - (i - 1)) * NBits + 0
        BY <1>4, <3>1
      <4>2. Place(at(i, b)) = (count - 1 - i) * NBits + (NBits - 1)
        BY <1>1, <1>4, <3>1
      <4>3. (count - 1 - (i - 1)) * NBits = (count - 1 - i) * NBits + NBits
        BY <1>1
      <4>4. (count - 1 - i) * NBits \in Int
        BY <1>1
      <4>5. QED
        BY <1>1, <1>5, <4>1, <4>2, <4>3, <4>4
    <3>5. i = 0 => Place(at(j, 0)) = 0 /\ Place(at(i, b)) = Total - 1
      BY <1>1, <1>5, <3>1
    <3>6. Neighbour("up", at(i, b), at(j, 0))
      <4>1. CASE i > 0
        BY <1>7, <3>4, <4>1 DEF Neighbour, Beside
      <4>2. CASE i = 0
        BY <1>7, <3>5, <4>2 DEF Neighbour, Beside
      <4>3. QED
        BY <1>1, <4>1, <4>2
    <3> HIDE DEF j
    <3>7. QED
      BY <1>2, <1>8, <3>3, <3>6
  <2>3. QED
    BY <2>1, <2>2
<1>9. CASE d = "down"
  <2>1. CASE b > 0
    <3>1. v = Cursor(vm.startFlag, b - 1, i, vm.eventLogData)
      BY <1>1, <1>9, <2>1 DEF Step, StepDown, Cursor
    <3>2. Place(at(i, b - 1)) = Place(at(i, b)) - 1 /\ Place(at(i, b)) # 0
      BY <1>1, <1>4, <1>5, <2>1
    <3>3. b - 1 \in 0..(NBits - 1)
      BY <1>1, <2>1
    <3>4. /\ Spot(v) = at(i, b - 1) /\ at(i, b - 1) \in Events
          /\ v.startFlag = vm.startFlag
          /\ v.eventLogData = vm.eventLogData /\ v.currentDataIndex = i
      BY <1>1, <1>3, <3>1, <3>3
    <3>5. QED
      BY <1>1, <1>2, <1>5, <1>9, <3>2, <3>4 DEF Neighbour, Beside
  <2>2. CASE ~(b > 0)
    <3> DEFINE j == IF i + 1 < count THEN i + 1 ELSE 0
               l == NBits - 1
    <3>1. b = 0 /\ j \in 0..(count - 1) /\ l \in 0..(NBits - 1)
      BY <1>1, <2>2
    <3>2. v = Cursor(1, l, j, data[j])
      BY <1>1, <1>6, <1>9, <2>2, <3>1 DEF Step, StepDown
    <3>3. /\ Spot(v) = at(j, l) /\ at(j, l) \in Events
          /\ v.startFlag = 1 /\ v.eventLogData = data[j] /\ v.currentDataIndex = j
      BY <1>3, <3>1, <3>2
    <3>4. i + 1 < count =>
            Place(at(j, l)) = Place(at(i, b)) - 1 /\ Place(at(i, b)) # 0
      <4> SUFFICES ASSUME i + 1 < count
                   PROVE  /\ Place(at(j, l)) = Place(at(i, b)) - 1
                          /\ Place(at(i, b)) # 0
        OBVIOUS
      <4>1. Place(at(j, l)) = (count - 1 - (i + 1)) * NBits + (NBits - 1)
        BY <1>4, <3>1
      <4>2. Place(at(i, b)) = (count - 1 - i) * NBits + 0
        BY <1>1, <1>4, <3>1
      <4>3. (count - 1 - i) * NBits = (count - 1 - (i + 1)) * NBits + NBits
        BY <1>1
      <4>4. (count - 1 - (i + 1)) * NBits \in Int
        BY <1>1
      <4>5. QED
        BY <1>1, <1>5, <4>1, <4>2, <4>3, <4>4
    <3>5. ~(i + 1 < count) => Place(at(j, l)) = Total - 1 /\ Place(at(i, b)) = 0
      BY <1>1, <1>5, <3>1
    <3>6. Neighbour("down", at(i, b), at(j, l))
      <4>1. CASE i + 1 < count
        BY <1>7, <3>4, <4>1 DEF Neighbour, Beside
      <4>2. CASE ~(i + 1 < count)
        BY <1>7, <3>5, <4>2 DEF Neighbour, Beside
      <4>3. QED
        BY <4>1, <4>2
    <3> HIDE DEF j, l
    <3>7. QED
      BY <1>2, <1>9, <3>3, <3>6
  <2>3. QED
    BY <2>1, <2>2
<1>10. QED
  BY <1>8, <1>9

-----------------------------------------------------------------------------
ShownOK ==
  shown \in [index : -1..(MaxEventCount - 1), bit : -1..(NBits - 1)]

(* The calls of a press go its way; nothing is shown before the first.     *)
Pressed ==
  /\ calls # <<>> => /\ prevButton \in {"up", "down"}
                     /\ calls \in {<<prevButton>>, <<prevButton, prevButton>>}
  /\ walking => calls # <<>>
  /\ prevButton = "none" => shown = None

(* After a press the viewer is one bit past the event it has shown.        *)
Follows ==
  Idle /\ same /\ Current /\ shown \in Visible /\ prevButton \in {"up", "down"}
    => Neighbour(prevButton, shown, Spot(vm))

(* During one: there is nothing visible between the event on the screen    *)
(* and where the last call is; the first call of two starts a bit before   *)
(* the event on the screen and gets no further than to it.                 *)
Seeks ==
  ~Idle /\ expect # None =>
    /\ Current /\ shown \in Visible
    /\ expect = Wanted(prevButton, shown)
    /\ calls = <<prevButton>> =>
         \A o \in Visible :
           Round(prevButton, shown, Spot(vm)) <= Round(prevButton, shown, o)
    /\ calls # <<prevButton>> =>
         \/ Spot(vm) = shown
         \/ Spot(vm) \notin Visible /\ Neighbour(prevButton, Spot(vm), shown)

Orderly == ShownOK /\ Pressed /\ Follows /\ Seeks

-----------------------------------------------------------------------------
(* Sequences of one or two calls.                                          *)
LEMMA OneOrTwo ==
  ASSUME NEW p
  PROVE  /\ Head(<<p>>) = p /\ Tail(<<p>>) = <<>>
         /\ Head(<<p, p>>) = p /\ Tail(<<p, p>>) = <<p>>
         /\ <<p>> # <<>> /\ <<p, p>> # <<>> /\ <<p>> # <<p, p>>
  OBVIOUS

LEMMA StepTyped ==
  ASSUME ViewTypeOK, NEW d \in {"up", "down"}, NEW v \in Step(d)
  PROVE  v \in [startFlag : {0, 1}, currentBit : Bits,
                currentDataIndex : -1..(MaxEventCount - 1),
                eventLogData : Record]
<1>1. \A j : Loaded(j) \subseteq Record
  BY DEF Loaded, ViewTypeOK
<1>2. NBits \in Nat \ {0} /\ MaxEventCount \in Nat \ {0}
  BY ViewAssumption, SlotsAssumption
<1>3. CASE d = "up"
  BY <1>1, <1>2, <1>3 DEF Step, StepUp, Cursor, ViewTypeOK, Bits
<1>4. CASE d = "down"
  BY <1>1, <1>2, <1>4 DEF Step, StepDown, Cursor, ViewTypeOK, Bits
<1>5. QED
  BY <1>3, <1>4

(* The two walks are one, but for their direction.                         *)
WalkOn(d) == IF d = "up" THEN WalkUp ELSE WalkDown
Begin(d) == IF d = "up" THEN BeginUp ELSE BeginDown

LEMMA WalkEffect ==
  ASSUME ViewTypeOK, NEW d \in {"up", "down"}, WalkOn(d)
  PROVE  /\ calls # <<>> /\ Head(calls) = d
         /\ UNCHANGED <<log, page, prevButton, same, expect>>
         /\ \/ /\ vm.currentDataIndex \notin 0..(count - 1)
               /\ walking' = FALSE /\ calls' = Tail(calls)
               /\ UNCHANGED <<vm, shown>>
            \/ /\ vm.currentBit \in vm.eventLogData
               /\ vm' \in Step(d) /\ shown' = Spot(vm)
               /\ walking' = FALSE /\ calls' = Tail(calls)
            \/ /\ vm.currentBit \notin vm.eventLogData
               /\ vm' \in Step(d)
               /\ UNCHANGED <<shown, walking, calls>>
<1>1. /\ vm.currentDataIndex \in Int /\ count \in Nat
      /\ vm.currentDataIndex < 0 => vm.currentDataIndex \notin 0..(count - 1)
      /\ vm.currentDataIndex >= count => vm.currentDataIndex \notin 0..(count - 1)
  BY DEF ViewTypeOK
<1>2. CASE d = "up"
  BY <1>1, <1>2 DEF WalkOn, WalkUp, Idle, Step, Spot, log
<1>3. CASE d = "down"
  BY <1>1, <1>3 DEF WalkOn, WalkDown, Idle, Step, Spot, log
<1>4. QED
  BY <1>2, <1>3

LEMMA BeginEffect ==
  ASSUME ViewTypeOK, NEW d \in {"up", "down"}, Begin(d)
  PROVE  /\ calls # <<>> /\ Head(calls) = d /\ ~walking
         /\ UNCHANGED <<log, page, prevButton, same, expect>>
         /\ \/ /\ vm.startFlag = 0 /\ count = 0
               /\ calls' = Tail(calls) /\ shown' = None
               /\ UNCHANGED <<vm, walking>>
            \/ /\ vm' \in [startFlag : {0, 1}, currentBit : Bits,
                           currentDataIndex : -1..(MaxEventCount - 1),
                           eventLogData : Record]
               /\ vm.startFlag = 1 => vm' = vm
               /\ walking' = TRUE
               /\ UNCHANGED <<calls, shown>>
<1>1. NBits \in Nat \ {0} /\ MaxEventCount \in Nat \ {0}
  BY ViewAssumption, SlotsAssumption
<1>2. CASE d = "up"
  <2>1. vm.startFlag = 0 /\ count # 0 =>
          Cursor(1, 0, count - 1, data[count - 1])
            \in [startFlag : {0, 1}, currentBit : Bits,
                 currentDataIndex : -1..(MaxEventCount - 1),
                 eventLogData : Record]
    BY <1>1 DEF ViewTypeOK, Cursor, Bits, Slots
  <2>2. QED
    BY <1>2, <2>1 DEF Begin, BeginUp, Idle, log, ViewTypeOK
<1>3. CASE d = "down"
  <2>1. Cursor(1, NBits - 1, 0, data[0])
          \in [startFlag : {0, 1}, currentBit : Bits,
               currentDataIndex : -1..(MaxEventCount - 1),
               eventLogData : Record]
    BY <1>1 DEF ViewTypeOK, Cursor, Bits, Slots
  <2>2. QED
    BY <1>3, <2>1 DEF Begin, BeginDown, Idle, log, ViewTypeOK
<1>4. QED
  BY <1>2, <1>3

-----------------------------------------------------------------------------
Typed == ViewTypeOK /\ ShownOK

LEMMA InitTyped == ViewInit => Typed
<1>1. NBits \in Nat \ {0} /\ MaxEventCount \in Nat \ {0}
  BY ViewAssumption, SlotsAssumption
<1>2. ViewInit => ViewTypeOK
  <2>1. Cursor(0, 0, 0, {}) \in [startFlag : {0, 1}, currentBit : Bits,
                                currentDataIndex : -1..(MaxEventCount - 1),
                                eventLogData : Record]
    BY <1>1 DEF Cursor, Bits, Record
  <2>2. None.index \in -1..(MaxEventCount - 1)
    BY <1>1 DEF None
  <2>3. QED
    BY <2>1, <2>2 DEF ViewInit, ViewTypeOK
<1>3. ViewInit => ShownOK
  BY <1>1 DEF ViewInit, ShownOK, None
<1>4. QED
  BY <1>2, <1>3 DEF Typed

LEMMA NextTyped == Typed /\ [ViewNext]_viewVars => Typed'
<1> SUFFICES ASSUME Typed, [ViewNext]_viewVars
             PROVE  Typed'
  OBVIOUS
<1>1. /\ NBits \in Nat \ {0} /\ MaxEventCount \in Nat \ {0}
      /\ ViewTypeOK /\ ShownOK
  BY ViewAssumption, SlotsAssumption DEF Typed
<1>2. CASE UNCHANGED viewVars
  BY <1>1, <1>2 DEF viewVars, log, Typed, ViewTypeOK, ShownOK
<1>3. CASE PressUp
  BY <1>1, <1>3 DEF PressUp, log, Typed, ViewTypeOK, ShownOK
<1>4. CASE PressDown
  BY <1>1, <1>4 DEF PressDown, log, Typed, ViewTypeOK, ShownOK
<1>5. CASE PressRight
  BY <1>1, <1>5 DEF PressRight, log, Typed, ViewTypeOK, ShownOK
<1>6. CASE PressOther
  BY <1>1, <1>6 DEF PressOther, log, Typed, ViewTypeOK, ShownOK
<1>7. CASE Leave
  <2>1. vm' \in [startFlag : {0, 1}, currentBit : Bits,
                currentDataIndex : -1..(MaxEventCount - 1),
                eventLogData : Record]
    BY <1>1, <1>7 DEF Leave, ViewTypeOK
  <2>2. /\ None \in [index : -1..(MaxEventCount - 1), bit : -1..(NBits - 1)]
        /\ None.index \in -1..(MaxEventCount - 1)
    BY <1>1 DEF None
  <2>3. QED
    BY <1>1, <1>7, <2>1, <2>2 DEF Leave, log, Typed, ViewTypeOK, ShownOK
<1>8. ASSUME NEW d \in {"up", "down"}, WalkOn(d)
      PROVE  Typed'
  <2>1. Tail(calls) \in {<<>>, <<"up">>, <<"down">>, <<"up", "up">>, <<"down", "down">>}
    BY <1>1, <1>8, WalkEffect, OneOrTwo DEF ViewTypeOK
  <2>2. Spot(vm) \in [index : -1..(MaxEventCount - 1), bit : -1..(NBits - 1)]
    BY <1>1 DEF ViewTypeOK, Spot, Bits
  <2>3. vm' \in Step(d) => vm' \in [startFlag : {0, 1}, currentBit : Bits,
                                   currentDataIndex : -1..(MaxEventCount - 1),
                                   eventLogData : Record]
    BY <1>1, StepTyped
  <2>4. shown' = shown \/ shown' = Spot(vm)
    BY <1>1, <1>8, WalkEffect
  <2>5. ShownOK' /\ shown'.index \in -1..(MaxEventCount - 1)
    BY <1>1, <2>2, <2>4 DEF ShownOK
  <2>6. ViewTypeOK'
    BY <1>1, <1>8, <2>1, <2>3, <2>5, WalkEffect DEF ViewTypeOK, log
  <2>7. QED
    BY <2>5, <2>6 DEF Typed
<1>9. ASSUME NEW d \in {"up", "down"}, Begin(d)
      PROVE  Typed'
  <2>1. Tail(calls) \in {<<>>, <<"up">>, <<"down">>, <<"up", "up">>, <<"down", "down">>}
    BY <1>1, <1>9, BeginEffect, OneOrTwo DEF ViewTypeOK
  <2>2. shown' = shown \/ shown' = None
    BY <1>1, <1>9, BeginEffect
  <2>3. ShownOK' /\ shown'.index \in -1..(MaxEventCount - 1)
    BY <1>1, <2>2 DEF ShownOK, None
  <2>4. ViewTypeOK'
    BY <1>1, <1>9, <2>1, <2>3, BeginEffect DEF ViewTypeOK, log
  <2>5. QED
    BY <2>3, <2>4 DEF Typed
<1>10. CASE \E r \in Record : AppendRecord(r)
  <2>1. PICK r \in Record : AppendRecord(r)
    BY <1>10
  <2>2. count' \in 0..MaxEventCount /\ data' \in [Slots -> Record]
    BY <1>1, <2>1 DEF AppendRecord, ViewTypeOK, Slots
  <2>3. QED
    BY <1>1, <2>1, <2>2 DEF AppendRecord, Typed, ViewTypeOK, ShownOK
<1>11. CASE ClearLog
  <2>1. 0 \in 0..MaxEventCount
    BY <1>1
  <2>2. ViewTypeOK'
    BY <1>1, <1>11, <2>1 DEF ClearLog, ViewTypeOK
  <2>3. ShownOK'
    BY <1>1, <1>11 DEF ClearLog, ShownOK
  <2>4. QED
    BY <2>2, <2>3 DEF Typed
<1>12. QED
  BY <1>2, <1>3, <1>4, <1>5, <1>6, <1>7, <1>8, <1>9, <1>10, <1>11
     DEF ViewNext, Walk, WalkOn, Begin

(* The viewer's variables are well typed, whatever the log holds.          *)
THEOREM ViewTypeCorrect == ViewSpec => []ViewTypeOK
<1>1. ViewSpec => []Typed
  BY InitTyped, NextTyped, PTL DEF ViewSpec
<1>2. Typed => ViewTypeOK
  BY DEF Typed
<1>3. QED
  BY <1>1, <1>2, PTL

-----------------------------------------------------------------------------
LEMMA SameLog ==
  ASSUME count' = count, data' = data
  PROVE  /\ Visible' = Visible
         /\ Current' <=> /\ vm'.startFlag = 1
                         /\ vm'.currentDataIndex \in 0..(count - 1)
                         /\ vm'.eventLogData = data[vm'.currentDataIndex]
         /\ \A d, e, o : Round(d, e, o)' = Round(d, e, o)
         /\ \A d, e, o : Neighbour(d, e, o)' = Neighbour(d, e, o)
         /\ \A d, e : Wanted(d, e)' = Wanted(d, e)
<1>1. Visible' = Visible
  BY DEF Visible, Events
<1>2. /\ \A d, e, o : Round(d, e, o)' = Round(d, e, o)
      /\ \A d, e, o : Neighbour(d, e, o)' = Neighbour(d, e, o)
  BY DEF Round, Neighbour, Between, Beside, Place, Total
<1>3. \A d, e : Wanted(d, e)' = Wanted(d, e)
  <2> SUFFICES ASSUME NEW d, NEW e
               PROVE  Wanted(d, e)' = Wanted(d, e)
    OBVIOUS
  <2>1. After(e)' = After(e)
    BY DEF After, Place, Total, Visible, Events
  <2>2. Before(e)' = Before(e)
    BY DEF Before, Place, Total, Visible, Events
  <2>3. QED
    BY <2>1, <2>2 DEF Wanted
<1>4. QED
  BY <1>1, <1>2, <1>3 DEF Current

(* A viewer with a position stands at an event of the log; whether it is   *)
(* visible its copy of the record tells.                                   *)
LEMMA CurrentSpot ==
  ASSUME ViewTypeOK, Current
  PROVE  /\ Spot(vm) \in Events
         /\ Spot(vm) \in Visible <=> vm.currentBit \in vm.eventLogData
<1>1. vm.currentBit \in Bits /\ vm.currentDataIndex \in 0..(count - 1)
  BY DEF ViewTypeOK, Current
<1>2. Spot(vm) \in Events
  BY <1>1 DEF Events, Spot
<1>3. Spot(vm).index = vm.currentDataIndex /\ Spot(vm).bit = vm.currentBit
  BY DEF Spot
<1>4. QED
  BY <1>2, <1>3 DEF Visible, Current

LEMMA SpotIndex ==
  ASSUME NEW v, Spot(v) \in Events
  PROVE  v.currentDataIndex \in 0..(count - 1)
<1>1. PICK i \in 0..(count - 1), b \in Bits : Spot(v) = [index |-> i, bit |-> b]
  BY DEF Events
<1>2. Spot(v).index = i
  BY <1>1
<1>3. QED
  BY <1>2 DEF Spot

LEMMA WalkOrderly ==
  ASSUME Typed, Typed', Orderly, NEW d \in {"up", "down"}, WalkOn(d)
  PROVE  Orderly' /\ ShowsInOrder'
<1>1. /\ ViewTypeOK /\ ShownOK' /\ Pressed /\ Follows /\ Seeks
      /\ count \in Nat /\ count' = count /\ data' = data
      /\ prevButton' = prevButton /\ expect' = expect
  <2>1. ViewTypeOK /\ ShownOK' /\ Pressed /\ Follows /\ Seeks
    BY DEF Typed, Orderly
  <2>2. count \in Nat
    BY <2>1 DEF ViewTypeOK
  <2>3. UNCHANGED <<log, prevButton, expect>>
    BY <2>1, WalkEffect
  <2>4. QED
    BY <2>1, <2>2, <2>3 DEF log
<1>2. /\ calls # <<>> /\ prevButton = d /\ (calls = <<d>> \/ calls = <<d, d>>)
      /\ Tail(calls) = IF calls = <<d>> THEN <<>> ELSE <<d>>
  <2>1. calls # <<>> /\ Head(calls) = d
    BY <1>1, WalkEffect
  <2>2. calls = <<prevButton>> \/ calls = <<prevButton, prevButton>>
    BY <1>1, <2>1 DEF Pressed
  <2>3. prevButton = d
    BY <2>1, <2>2, OneOrTwo
  <2>4. QED
    BY <2>1, <2>2, <2>3, OneOrTwo
<1>3. \A e \in Visible : e \in Events
  BY DEF Visible
<1>4. CASE /\ vm.currentDataIndex \notin 0..(count - 1)
           /\ walking' = FALSE /\ calls' = Tail(calls)
           /\ UNCHANGED <<vm, shown>>
  <2>1. ~Current /\ ~Current'
    BY <1>1, <1>4, SameLog DEF Current
  <2>2. Pressed'
    BY <1>1, <1>2, <1>4 DEF Pressed
  <2>3. Follows'
    BY <2>1 DEF Follows
  <2>4. expect = None
    BY <1>1, <1>2, <2>1 DEF Seeks, Idle
  <2>5. expect' = None'
    BY <1>1, <2>4 DEF None
  <2>6. QED
    BY <1>1, <2>2, <2>3, <2>5 DEF Orderly, Seeks, ShowsInOrder
<1>5. CASE /\ vm.currentBit \in vm.eventLogData
           /\ vm' \in Step(d) /\ shown' = Spot(vm)
           /\ walking' = FALSE /\ calls' = Tail(calls)
  <2>1. Pressed'
    BY <1>1, <1>2, <1>5 DEF Pressed
  <2>2. Follows'
    <3> SUFFICES ASSUME shown' \in Visible
                 PROVE  Neighbour(prevButton, shown, Spot(vm))'
      BY <1>1, SameLog DEF Follows
    <3>1. Neighbour(d, Spot(vm), Spot(vm'))
      BY <1>1, <1>3, <1>5, StepGoesOn
    <3>2. QED
      BY <1>1, <1>2, <1>5, <3>1, SameLog
  <2>3. ASSUME expect # None
        PROVE  /\ Current /\ Current' /\ Spot(vm) \in Visible /\ shown \in Visible
               /\ Neighbour(d, Spot(vm), Spot(vm')) /\ Spot(vm') \in Events
               /\ expect = Wanted(d, shown)
               /\ calls = <<d>> => \A o \in Visible :
                    Round(d, shown, Spot(vm)) <= Round(d, shown, o)
               /\ calls # <<d>> => Spot(vm) = shown
    <3>1. /\ Current /\ shown \in Visible
          /\ expect = Wanted(d, shown)
          /\ calls = <<d>> => \A o \in Visible :
               Round(d, shown, Spot(vm)) <= Round(d, shown, o)
          /\ calls # <<d>> => Spot(vm) = shown \/ Spot(vm) \notin Visible
      BY <1>1, <1>2, <2>3 DEF Seeks, Idle
    <3>2. Spot(vm) \in Visible
      BY <1>1, <1>5, <3>1, CurrentSpot
    <3>3. /\ Spot(vm') \in Events
          /\ Neighbour(d, Spot(vm), Spot(vm'))
          /\ vm'.startFlag = 1
          /\ vm'.eventLogData = data[vm'.currentDataIndex]
      BY <1>1, <1>3, <1>5, <3>1, <3>2, StepGoesOn DEF Current
    <3>4. vm'.currentDataIndex \in 0..(count - 1)
      BY <3>3, SpotIndex
    <3>5. QED
      BY <1>1, <3>1, <3>2, <3>3, <3>4, SameLog
  <2>4. Seeks'
    <3> SUFFICES ASSUME ~Idle', expect' # None'
                 PROVE  /\ Current' /\ (shown \in Visible)'
                        /\ expect' = Wanted(prevButton, shown)'
                        /\ (calls = <<prevButton>> => \A o \in Visible :
                             Round(prevButton, shown, Spot(vm)) <= Round(prevButton, shown, o))'
                        /\ calls' = <<prevButton'>>
      BY DEF Seeks
    <3>1. expect # None
      BY <1>1 DEF None
    <3>2. calls # <<d>> /\ calls' = <<d>>
      BY <1>2, <1>5 DEF Idle
    <3>3. shown' = shown
      BY <1>5, <2>3, <3>1, <3>2
    <3>4. \A o \in Visible : Round(d, shown, Spot(vm')) <= Round(d, shown, o)
      <4> SUFFICES ASSUME NEW o \in Visible
                   PROVE  Round(d, shown, Spot(vm')) <= Round(d, shown, o)
        OBVIOUS
      <4>1. Round(d, shown, Spot(vm')) = 0
        BY <1>1, <1>3, <2>3, <3>1, <3>2, Distances
      <4>2. Round(d, shown, o) \in 0..(Total - 1)
        BY <1>1, <1>3, <2>3, <3>1, Distances
      <4>3. QED
        BY <4>1, <4>2
    <3>5. QED
      BY <1>1, <1>2, <2>3, <3>1, <3>2, <3>3, <3>4, SameLog
  <2>5. ShowsInOrder'
    <3> SUFFICES ASSUME Idle', expect' # None'
                 PROVE  shown' = expect'
      BY DEF ShowsInOrder
    <3>1. expect # None
      BY <1>1 DEF None
    <3>2. calls = <<d>>
      BY <1>2, <1>5, OneOrTwo DEF Idle
    <3>3. Spot(vm) = Wanted(d, shown)
      BY <1>1, <2>3, <3>1, <3>2, Nearest
    <3>4. QED
      BY <1>1, <1>5, <2>3, <3>1, <3>3
  <2>6. QED
    BY <1>1, <2>1, <2>2, <2>4, <2>5 DEF Orderly
<1>6. CASE /\ vm.currentBit \notin vm.eventLogData
           /\ vm' \in Step(d)
           /\ UNCHANGED <<shown, walking, calls>>
  <2>1. Pressed'
    BY <1>1, <1>2, <1>6 DEF Pressed
  <2>2. Follows' /\ ShowsInOrder'
    BY <1>2, <1>6 DEF Follows, ShowsInOrder, Idle
  <2>3. Seeks'
    <3> SUFFICES ASSUME expect' # None'
                 PROVE  /\ Current' /\ (shown \in Visible)'
                        /\ expect' = Wanted(prevButton, shown)'
                        /\ (calls = <<prevButton>> => \A o \in Visible :
                             Round(prevButton, shown, Spot(vm)) <= Round(prevButton, shown, o))'
                        /\ (calls # <<prevButton>> => Spot(vm) = shown)'
      BY DEF Seeks
    <3>1. expect # None
      BY <1>1 DEF None
    <3>2. /\ Current /\ shown \in Visible
          /\ expect = Wanted(d, shown)
          /\ calls = <<d>> => \A o \in Visible :
               Round(d, shown, Spot(vm)) <= Round(d, shown, o)
          /\ calls # <<d>> => Spot(vm) = shown \/ Neighbour(d, Spot(vm), shown)
      BY <1>1, <1>2, <3>1 DEF Seeks, Idle
    <3>3. Spot(vm) \in Events /\ Spot(vm) \notin Visible
      BY <1>1, <1>6, <3>2, CurrentSpot
    <3>4. /\ Spot(vm') \in Events
          /\ Neighbour(d, Spot(vm), Spot(vm'))
          /\ vm'.startFlag = 1
          /\ vm'.eventLogData = data[vm'.currentDataIndex]
      BY <1>1, <1>6, <3>2, <3>3, StepGoesOn DEF Current
    <3>5. vm'.currentDataIndex \in 0..(count - 1)
      BY <3>4, SpotIndex
    <3>6. Current'
      BY <1>1, <3>4, <3>5, SameLog
    <3>7. calls = <<d>> =>
            \A o \in Visible : Round(d, shown, Spot(vm')) <= Round(d, shown, o)
      <4> SUFFICES ASSUME calls = <<d>>, NEW o \in Visible
                   PROVE  Round(d, shown, Spot(vm')) <= Round(d, shown, o)
        OBVIOUS
      <4>1. Round(d, shown, Spot(vm')) = Round(d, shown, Spot(vm)) + 1
        BY <1>1, <1>3, <3>2, <3>3, <3>4, Distances
      <4>2. Round(d, shown, Spot(vm)) <= Round(d, shown, o)
        BY <3>2
      <4>3. Round(d, shown, Spot(vm)) # Round(d, shown, o)
        BY <1>1, <1>3, <3>2, <3>3, Distances
      <4>4. Round(d, shown, Spot(vm)) \in Int /\ Round(d, shown, o) \in Int
        BY <1>1, <1>3, <3>2, <3>3, Distances
      <4>5. QED
        BY <4>1, <4>2, <4>3, <4>4
    <3>8. calls # <<d>> => Spot(vm') = shown
      <4>1. ASSUME calls # <<d>>
            PROVE  Spot(vm') = shown
        <5>1. Neighbour(d, Spot(vm), shown)
          BY <3>2, <3>3, <4>1
        <5>2. /\ Round(d, Spot(vm), shown) = 0
              /\ Round(d, Spot(vm), Spot(vm')) = 0
          BY <1>1, <1>3, <3>2, <3>3, <3>4, <5>1, Distances
        <5>3. QED
          BY <1>1, <1>3, <3>2, <3>3, <3>4, <5>2, Distances
      <4>2. QED
        BY <4>1
    <3>9. QED
      BY <1>1, <1>2, <1>6, <3>2, <3>6, <3>7, <3>8, SameLog
  <2>4. QED
    BY <1>1, <2>1, <2>2, <2>3 DEF Orderly
<1>7. QED
  BY <1>1, <1>4, <1>5, <1>6, WalkEffect

LEMMA BeginOrderly ==
  ASSUME Typed, Typed', Orderly, NEW d \in {"up", "down"}, Begin(d)
  PROVE  Orderly' /\ ShowsInOrder'
<1>1. /\ ViewTypeOK /\ ShownOK' /\ Pressed /\ Follows /\ Seeks
      /\ count' = count /\ data' = data
      /\ prevButton' = prevButton /\ expect' = expect
  <2>1. ViewTypeOK /\ ShownOK' /\ Pressed /\ Follows /\ Seeks
    BY DEF Typed, Orderly
  <2>2. UNCHANGED <<log, prevButton, expect>>
    BY <2>1, BeginEffect
  <2>3. QED
    BY <2>1, <2>2 DEF log
<1>2. /\ calls # <<>> /\ prevButton = d /\ (calls = <<d>> \/ calls = <<d, d>>)
      /\ Tail(calls) = IF calls = <<d>> THEN <<>> ELSE <<d>>
      /\ ~walking
  <2>1. calls # <<>> /\ Head(calls) = d /\ ~walking
    BY <1>1, BeginEffect
  <2>2. calls = <<prevButton>> \/ calls = <<prevButton, prevButton>>
    BY <1>1, <2>1 DEF Pressed
  <2>3. prevButton = d
    BY <2>1, <2>2, OneOrTwo
  <2>4. QED
    BY <2>1, <2>2, <2>3, OneOrTwo
<1>3. CASE /\ vm.startFlag = 0 /\ count = 0
           /\ calls' = Tail(calls) /\ shown' = None
           /\ UNCHANGED <<vm, walking>>
  <2>1. ~Current /\ ~Current'
    BY <1>1, <1>3, SameLog DEF Current
  <2>2. Pressed'
    BY <1>1, <1>2, <1>3 DEF Pressed
  <2>3. Follows'
    BY <2>1 DEF Follows
  <2>4. expect = None
    BY <1>1, <1>2, <2>1 DEF Seeks, Idle
  <2>5. expect' = None'
    BY <1>1, <2>4 DEF None
  <2>6. QED
    BY <1>1, <2>2, <2>3, <2>5 DEF Orderly, Seeks, ShowsInOrder
<1>4. CASE /\ vm.startFlag = 1 => vm' = vm
           /\ walking' = TRUE
           /\ UNCHANGED <<calls, shown>>
  <2>1. Pressed'
    BY <1>1, <1>2, <1>4 DEF Pressed
  <2>2. Follows' /\ ShowsInOrder'
    BY <1>2, <1>4 DEF Follows, ShowsInOrder, Idle
  <2>3. Seeks'
    <3>1. ASSUME expect' # None'
          PROVE  Seeks'
      <4>1. expect # None /\ Current
        BY <1>1, <1>2, <3>1 DEF None, Seeks, Idle
      <4>2. vm' = vm
        BY <1>4, <4>1 DEF Current
      <4>3. Seeks
        BY <1>1
      <4>4. Current' /\ Visible' = Visible
        BY <1>1, <4>1, <4>2, SameLog DEF Current
      <4>5. QED
        BY <1>1, <1>2, <1>4, <4>1, <4>2, <4>3, <4>4, SameLog DEF Seeks, Idle
    <3>2. QED
      BY <3>1 DEF Seeks
  <2>4. QED
    BY <1>1, <2>1, <2>2, <2>3 DEF Orderly
<1>5. QED
  BY <1>1, <1>3, <1>4, BeginEffect

(* A press of UP or DOWN.                                                  *)
Press(d) == IF d = "up" THEN PressUp ELSE PressDown

LEMMA PressOrderly ==
  ASSUME Typed, Typed', Orderly, NEW d \in {"up", "down"}, Press(d)
  PROVE  Orderly' /\ ShowsInOrder'
<1>1. /\ ViewTypeOK /\ ShownOK' /\ Pressed /\ Follows /\ Seeks /\ count \in Nat
  BY DEF Typed, Orderly, ViewTypeOK
<1>2. /\ Idle /\ prevButton' = d
      /\ calls' = IF prevButton = Opposite(d) THEN <<d, d>> ELSE <<d>>
      /\ UNCHANGED <<log, vm, walking, shown>>
      /\ expect' = IF same /\ shown \in Visible /\ Current
                     /\ (prevButton = Opposite(d) => ~Adjacent)
                     /\ prevButton # "other"
                   THEN Wanted(d, shown) ELSE None
  <2>1. CASE d = "up"
    BY <2>1 DEF Press, PressUp, Opposite, Wanted
  <2>2. CASE d = "down"
    BY <2>2 DEF Press, PressDown, Opposite, Wanted
  <2>3. QED
    BY <2>1, <2>2
<1>3. count' = count /\ data' = data
  BY <1>2 DEF log
<1>4. calls' # <<>> /\ calls' \in {<<d>>, <<d, d>>}
  BY <1>2, OneOrTwo
<1>5. Pressed'
  BY <1>2, <1>4 DEF Pressed
<1>6. Follows' /\ ShowsInOrder'
  BY <1>4 DEF Follows, ShowsInOrder, Idle
<1>7. Seeks'
  <2> SUFFICES ASSUME expect' # None'
               PROVE  /\ Current' /\ (shown \in Visible)'
                      /\ expect' = Wanted(prevButton, shown)'
                      /\ (calls = <<prevButton>> => \A o \in Visible :
                           Round(prevButton, shown, Spot(vm)) <= Round(prevButton, shown, o))'
                      /\ (calls # <<prevButton>> =>
                           Spot(vm) \notin Visible /\ Neighbour(prevButton, Spot(vm), shown))'
    BY DEF Seeks
  <2>1. /\ same /\ shown \in Visible /\ Current
        /\ prevButton = Opposite(d) => ~Adjacent
        /\ prevButton # "other"
        /\ expect' = Wanted(d, shown)
    BY <1>2 DEF None
  <2>2. prevButton \in {"up", "down"}
    <3>1. None \notin Visible
      <4>1. None.index \notin 0..(count - 1)
        BY <1>1 DEF None
      <4>2. \A e \in Visible : e.index \in 0..(count - 1)
        BY DEF Visible, Events
      <4>3. QED
        BY <4>1, <4>2
    <3>2. prevButton # "none"
      BY <1>1, <2>1, <3>1 DEF Pressed
    <3>3. QED
      BY <1>1, <2>1, <3>2 DEF ViewTypeOK
  <2>3. /\ shown \in Events /\ Spot(vm) \in Events
        /\ \A o \in Visible : o \in Events
    BY <1>1, <2>1, CurrentSpot DEF Visible
  <2>4. Neighbour(prevButton, shown, Spot(vm))
    BY <1>1, <1>2, <2>1, <2>2 DEF Follows
  <2>5. CASE prevButton = d
    <3>1. calls' = <<d>>
      BY <1>2, <2>5 DEF Opposite
    <3>2. \A o \in Visible : Round(d, shown, Spot(vm)) <= Round(d, shown, o)
      <4> SUFFICES ASSUME NEW o \in Visible
                   PROVE  Round(d, shown, Spot(vm)) <= Round(d, shown, o)
        OBVIOUS
      <4>1. Round(d, shown, Spot(vm)) = 0
        BY <1>1, <2>3, <2>4, <2>5, Distances
      <4>2. Round(d, shown, o) \in 0..(Total - 1)
        BY <1>1, <2>3, Distances
      <4>3. QED
        BY <4>1, <4>2
    <3>3. Current'
      BY <1>2, <1>3, <2>1, SameLog DEF Current
    <3>4. QED
      BY <1>2, <1>3, <2>1, <3>1, <3>2, <3>3, SameLog
  <2>6. CASE prevButton = Opposite(d)
    <3>1. calls' = <<d, d>> /\ calls' # <<d>>
      BY <1>2, <2>6, OneOrTwo
    <3>2. Neighbour(d, Spot(vm), shown) /\ ~Adjacent
      BY <1>1, <2>1, <2>3, <2>4, <2>6, Distances DEF Opposite
    <3>3. Spot(vm) \notin Visible
      <4>1. CASE d = "up"
        BY <1>1, <2>1, <2>3, <3>2, <4>1, Distances DEF Adjacent
      <4>2. CASE d = "down"
        BY <1>1, <2>1, <2>3, <2>4, <2>6, <3>2, <4>2, Distances DEF Adjacent, Opposite
      <4>3. QED
        BY <4>1, <4>2
    <3>4. Current'
      BY <1>2, <1>3, <2>1, SameLog DEF Current
    <3>5. QED
      BY <1>2, <1>3, <2>1, <3>1, <3>2, <3>3, <3>4, SameLog
  <2>7. QED
    BY <2>2, <2>5, <2>6 DEF Opposite
<1>8. QED
  BY <1>1, <1>5, <1>6, <1>7 DEF Orderly

LEMMA NextOrderly ==
  Typed /\ Typed' /\ Orderly /\ ShowsInOrder /\ [ViewNext]_viewVars
    => Orderly' /\ ShowsInOrder'
<1> SUFFICES ASSUME Typed, Typed', Orderly, ShowsInOrder, [ViewNext]_viewVars
             PROVE  Orderly' /\ ShowsInOrder'
  OBVIOUS
<1>1. /\ ViewTypeOK /\ ShownOK' /\ Pressed /\ Follows /\ Seeks /\ count \in Nat
  BY DEF Typed, Orderly, ViewTypeOK
<1>2. None' = None
  BY DEF None
<1>3. CASE UNCHANGED viewVars
  <2>1. count' = count /\ data' = data
    BY <1>3 DEF viewVars, log
  <2>2. Current' <=> Current
    BY <1>3, <2>1, SameLog DEF viewVars, Current
  <2>3. Pressed' /\ ShowsInOrder'
    BY <1>1, <1>2, <1>3 DEF viewVars, Pressed, ShowsInOrder, Idle
  <2>4. Follows'
    BY <1>1, <1>3, <2>1, <2>2, SameLog DEF viewVars, Follows, Idle
  <2>5. Seeks'
    BY <1>1, <1>2, <1>3, <2>1, <2>2, SameLog DEF viewVars, Seeks, Idle
  <2>6. QED
    BY <1>1, <2>3, <2>4, <2>5 DEF Orderly
<1>4. CASE PressUp \/ PressDown
  BY <1>4, PressOrderly DEF Press
<1>5. ASSUME expect' = None, Idle, Pressed',
             (Idle' /\ same' /\ Current' /\ (shown \in Visible)') =>
                prevButton' \notin {"up", "down"}
      PROVE  Orderly' /\ ShowsInOrder'
  BY <1>1, <1>2, <1>5 DEF Orderly, Seeks, Follows, ShowsInOrder
<1>6. CASE PressRight
  <2>1. Idle /\ expect' = None /\ walking' = walking /\ shown' = shown
    BY <1>6 DEF PressRight
  <2>2. \/ calls' = <<"up">> /\ prevButton' = "up"
        \/ calls' = <<>> /\ prevButton' = "other"
    BY <1>6 DEF PressRight
  <2>3. Pressed'
    BY <1>1, <2>1, <2>2, OneOrTwo DEF Pressed, Idle
  <2>4. Idle' => prevButton' = "other"
    BY <2>2, OneOrTwo DEF Idle
  <2>5. QED
    BY <1>5, <2>1, <2>3, <2>4
<1>7. CASE PressOther
  <2>1. Idle /\ expect' = None /\ prevButton' = "other" /\ UNCHANGED <<calls, walking>>
    BY <1>7 DEF PressOther
  <2>2. Pressed'
    BY <1>1, <2>1 DEF Pressed, Idle
  <2>3. QED
    BY <1>5, <2>1, <2>2
<1>8. CASE Leave
  <2>1. /\ Idle /\ expect' = None /\ vm' = [vm EXCEPT !.startFlag = 0]
        /\ shown' = None /\ UNCHANGED <<prevButton, calls, walking>>
    BY <1>8 DEF Leave
  <2>2. ~Current'
    BY <1>1, <2>1 DEF Current, ViewTypeOK
  <2>3. Pressed'
    BY <1>1, <1>2, <2>1 DEF Pressed, Idle
  <2>4. QED
    BY <1>5, <2>1, <2>2, <2>3
<1>9. ASSUME NEW d \in {"up", "down"}, Begin(d) \/ WalkOn(d)
      PROVE  Orderly' /\ ShowsInOrder'
  BY <1>9, BeginOrderly, WalkOrderly
<1>10. CASE ClearLog \/ \E r \in Record : AppendRecord(r)
  <2>1. /\ Idle /\ expect' = None /\ same' = FALSE
        /\ UNCHANGED <<prevButton, calls, walking, shown>>
    BY <1>10 DEF ClearLog, AppendRecord
  <2>2. Pressed'
    BY <1>1, <1>2, <2>1 DEF Pressed, Idle
  <2>3. QED
    BY <1>5, <2>1, <2>2
<1>11. QED
  BY <1>3, <1>4, <1>6, <1>7, <1>8, <1>9, <1>10
     DEF ViewNext, Walk, WalkOn, Begin

(* Repeated presses in one direction show every visible event once a round *)
(* and in order, whatever the log holds and however long it is: onClick    *)
(* and onReverseClick lose no event at a record's border, at the wrap      *)
(* around or where the direction turns, between two changes of the log.    *)
THEOREM ViewInOrder == ViewSpec => []ShowsInOrder
<1>1. ViewInit => Orderly /\ ShowsInOrder
  <2>1. ViewInit => Pressed /\ Follows /\ Seeks /\ ShowsInOrder
    BY DEF ViewInit, Pressed, Follows, Seeks, ShowsInOrder
  <2>2. QED
    BY <2>1, InitTyped DEF Orderly, Typed
<1>2. ViewSpec => [](Typed /\ Orderly /\ ShowsInOrder)
  <2>1. Typed /\ Orderly /\ ShowsInOrder /\ [ViewNext]_viewVars
          => (Typed /\ Orderly /\ ShowsInOrder)'
    BY NextTyped, NextOrderly
  <2>2. QED
    BY InitTyped, <1>1, <2>1, PTL DEF ViewSpec
<1>3. QED
  BY <1>2, PTL
=============================================================================
