---------------------------- MODULE PollingProofs ----------------------------
(***************************************************************************)
(* Proofs about Polling for every choice of polled slots, status bits and  *)
(* log masks: type correctness, which says above all that the slot polled  *)
(* next is always one of the table, and that no bit of a status word is    *)
(* handed to the event log by two passes of the event section in a row.    *)
(***************************************************************************)
EXTENDS Polling, WellFoundedInduction, TLAPS

(* A non-empty set of slots has a first one.                               *)
LEMMA FirstSlot ==
  ASSUME NEW S, S \subseteq 0..15, S # {}
  PROVE  Min(S) \in S
<1> DEFINE R == OpToRel(<, Nat)
<1>1. \A a, b \in Nat : a < b => <<a, b>> \in R
  BY DEF OpToRel
<1>2. IsWellFoundedOn(R, Nat)
  BY NatLessThanWellFounded
<1>3. S \subseteq Nat
  OBVIOUS
<1> HIDE DEF R
<1>4. PICK x \in S : \A y \in S : <<y, x>> \notin R
  BY <1>2, <1>3, WFMin
<1>5. ASSUME NEW y \in S
      PROVE  x =< y
  <2>1. x \in Nat /\ y \in Nat
    BY <1>3
  <2>2. ~(y < x)
    BY <1>1, <1>4, <2>1
  <2>3. QED
    BY <2>1, <2>2
<1>6. QED
  BY <1>5 DEF Min

(* The scheduler never leaves its table: behind the last slot it starts    *)
(* over, before it there is another one.                                   *)
LEMMA NextSlotInTable ==
  ASSUME sequence \in Polled
  PROVE  NextSlot \in Polled
<1>1. CASE sequence = Max(Polled)
  BY <1>1, FirstSlot, PolledAssumption DEF NextSlot
<1>2. CASE sequence # Max(Polled)
  <2> DEFINE S == {s \in Polled : s > sequence}
  <2>1. S # {}
    <3> SUFFICES ASSUME \A s \in Polled : ~(s > sequence)
                 PROVE  FALSE
      BY <1>2
    <3>1. Polled \subseteq Int
      BY PolledAssumption
    <3>2. \A y \in Polled : sequence >= y
      BY <3>1
    <3>3. Max(Polled) \in Polled /\ \A y \in Polled : Max(Polled) >= y
      BY <3>2 DEF Max
    <3>4. sequence >= Max(Polled) /\ Max(Polled) >= sequence
      BY <3>2, <3>3
    <3>5. sequence \in Int /\ Max(Polled) \in Int
      BY <3>1, <3>3
    <3>6. sequence = Max(Polled)
      BY <3>4, <3>5
    <3>7. QED
      BY <1>2, <3>6
  <2>2. S \subseteq Polled /\ S \subseteq 0..15
    BY PolledAssumption
  <2>3. Min(S) \in S
    BY <2>1, <2>2, FirstSlot
  <2>4. QED
    BY <1>2, <2>2, <2>3 DEF NextSlot
<1>3. QED
  BY <1>1, <1>2

-----------------------------------------------------------------------------
(* Type correctness.                                                       *)
LEMMA InitTypeOK == Init => TypeOK
<1> SUFFICES ASSUME Init PROVE TypeOK
  OBVIOUS
<1>1. Min(Polled) \in Polled
  BY FirstSlot, PolledAssumption
<1>2. QED
  BY <1>1 DEF Init, TypeOK

(* The bits of the communication flag stay two.                            *)
LEMMA CommBits == \A l : CommBit(l) \in {1, 2}
  BY DEF CommBit

LEMMA NextTypeOK == TypeOK /\ [Next]_vars => TypeOK'
<1> SUFFICES ASSUME TypeOK, [Next]_vars
             PROVE  TypeOK'
  OBVIOUS
<1>a. NextSlot \in Polled
  BY NextSlotInTable DEF TypeOK
<1>b. MaskedAfterConfig \in [Status -> SUBSET Bit]
  BY DEF TypeOK, MaskedAfterConfig
<1>1. ASSUME NEW r \in BOOLEAN, ServeTcp(r) PROVE TypeOK'
  BY <1>1 DEF ServeTcp, env, TypeOK
<1>2. CASE PollNothing
  BY <1>2 DEF PollNothing, env, TypeOK
<1>3. CASE PollTurnedOff
  <2> USE <1>3 DEF PollTurnedOff, env
  <2>1. value' \in [Status -> SUBSET Bit]
    BY DEF TypeOK
  <2>2. modbus_comm_flag' \subseteq {1, 2}
    BY DEF TypeOK
  <2>3. QED
    BY <2>1, <2>2, <1>a, <1>b DEF TypeOK
<1>4. CASE PollRequest
  BY <1>4, <1>b DEF PollRequest, env, TypeOK
<1>5. CASE PollAnswer
  <2> USE <1>5 DEF PollAnswer, env
  <2>1. value' \in [Status -> SUBSET Bit]
    BY DEF TypeOK
  <2>2. modbus_comm_flag' \subseteq {1, 2}
    BY DEF TypeOK
  <2>3. unitStatusPollDone' \in [Status -> BOOLEAN]
    BY DEF TypeOK, PollDone
  <2>4. QED
    BY <2>1, <2>2, <2>3, <1>a DEF TypeOK
<1>6. CASE PollFailure
  <2> USE <1>6 DEF PollFailure, env
  <2>1. modbus_comm_flag' \subseteq {1, 2}
    BY CommBits DEF TypeOK
  <2>2. QED
    BY <2>1, <1>a DEF TypeOK
<1>7. CASE ProcessEvents
  <2> USE <1>7 DEF ProcessEvents, env
  <2>1. mMaskedEventData' \in [Status -> SUBSET Bit]
    BY PolledAssumption DEF TypeOK
  <2>2. handed' \in [Status -> SUBSET Bit]
    BY DEF TypeOK, ExtractEvent
  <2>3. mUnitStatus' \in [Status -> SUBSET Bit]
    BY DEF TypeOK
  <2>4. faultLed' \in BOOLEAN
    BY DEF TypeOK, Fault
  <2>5. QED
    BY <2>1, <2>2, <2>3, <2>4 DEF TypeOK
<1>8. CASE SkipEvents
  BY <1>8 DEF SkipEvents, env, TypeOK
<1>9. CASE Timers
  BY <1>9 DEF Timers, SensorPollTimer, TcpPollGuardTimer, env, main, TypeOK
<1>10. CASE Environment
  <2>1. ASSUME NEW c \in Config, ToggleSensor(c)
        PROVE  TypeOK'
    <3>1. cfg' \in [Config -> BOOLEAN]
      BY <2>1, Zenon DEF ToggleSensor, TypeOK
    <3>2. QED
      BY <2>1, <3>1 DEF ToggleSensor, main, TypeOK
  <2>2. ASSUME NEW l \in Lead, LinkChanges(l)
        PROVE  TypeOK'
    <3>1. answers' \in [Lead -> BOOLEAN]
      BY <2>2, Zenon DEF LinkChanges, TypeOK
    <3>2. QED
      BY <2>2, <3>1 DEF LinkChanges, main, TypeOK
  <2>3. ASSUME NEW s \in Status, NEW b \in Bit, StatusChanges(s, b)
        PROVE  TypeOK'
    <3>1. status' \in [Status -> SUBSET Bit]
      BY <2>3 DEF StatusChanges, TypeOK
    <3>2. QED
      BY <2>3, <3>1 DEF StatusChanges, main, TypeOK
  <2>4. CASE InputChanges
    BY <2>4 DEF InputChanges, main, TypeOK
  <2>5. CASE ApplyConfig
    BY <2>5, <1>b DEF ApplyConfig, env, TypeOK
  <2>6. QED
    BY <1>10, <2>1, <2>2, <2>3, <2>4, <2>5 DEF Environment
<1>11. CASE UNCHANGED vars
  BY <1>11 DEF vars, TypeOK
<1>12. QED
  BY <1>1, <1>2, <1>3, <1>4, <1>5, <1>6, <1>7, <1>8, <1>9, <1>10, <1>11
     DEF Next, AnyTcp, Poll

(* Every variable keeps its type; the slot polled next is always one of    *)
(* the table, however sensors are turned on and off during transactions.   *)
THEOREM TypeCorrect == Spec => []TypeOK
  BY InitTypeOK, NextTypeOK, PTL DEF Spec

-----------------------------------------------------------------------------
(* What was handed to the event log is in its picture of the unit: the     *)
(* picture is updated in the pass that hands the bits over and stays until *)
(* the next one.                                                           *)
Handed == \A s \in Status : handed[s] \subseteq mUnitStatus[s]

LEMMA NextHanded == TypeOK /\ Handed /\ [Next]_vars => Handed'
<1> SUFFICES ASSUME TypeOK, Handed, [Next]_vars
             PROVE  Handed'
  OBVIOUS
<1>1. CASE ProcessEvents
  <2> SUFFICES ASSUME NEW s \in Status
               PROVE  handed'[s] \subseteq mUnitStatus'[s]
    BY DEF Handed
  <2>1. CASE unitStatusPollDone[s]
    <3>1. handed'[s] = value[s] \ mUnitStatus[s] /\ mUnitStatus'[s] = value[s]
      BY <1>1, <2>1 DEF ProcessEvents, ExtractEvent
    <3>2. QED
      BY <3>1
  <2>2. CASE ~unitStatusPollDone[s]
    <3>1. handed'[s] = {}
      BY <1>1, <2>2 DEF ProcessEvents
    <3>2. QED
      BY <3>1
  <2>3. QED
    BY <2>1, <2>2
<1>2. CASE ~ProcessEvents
  <2>1. handed' = handed /\ mUnitStatus' = mUnitStatus
    BY <1>2 DEF Next, AnyTcp, ServeTcp, Poll, PollNothing, PollTurnedOff,
       PollRequest, PollAnswer, PollFailure, SkipEvents, Timers,
       SensorPollTimer, TcpPollGuardTimer, Environment, ToggleSensor,
       ApplyConfig, LinkChanges, StatusChanges, InputChanges, env, main, vars
  <2>2. QED
    BY <2>1 DEF Handed
<1>3. QED
  BY <1>1, <1>2

(* Two passes of the event section in a row never hand the same bit of a   *)
(* status word to saveEventLogData, whatever was polled, turned off or     *)
(* lost between them.                                                      *)
THEOREM NoEventTwiceHolds == Spec => NoEventTwice
<1> DEFINE Once == pc = "event" /\ pc' = "tcp" /\ busy =>
                     \A s \in Status : handed[s] \cap handed'[s] = {}
<1>1. Init => Handed
  BY DEF Init, Handed
<1>2. ASSUME Handed, [Next]_vars, pc = "event", pc' = "tcp", busy,
             NEW s \in Status
      PROVE  handed[s] \cap handed'[s] = {}
  <2>1. ProcessEvents
    BY <1>2 DEF Next, AnyTcp, ServeTcp, Poll, PollNothing, PollTurnedOff,
       PollRequest, PollAnswer, PollFailure, SkipEvents, Timers,
       SensorPollTimer, TcpPollGuardTimer, Environment, ToggleSensor,
       ApplyConfig, LinkChanges, StatusChanges, InputChanges, env, main, vars
  <2>2. handed'[s] \subseteq value[s] \ mUnitStatus[s]
    BY <2>1 DEF ProcessEvents, ExtractEvent
  <2>3. handed[s] \subseteq mUnitStatus[s]
    BY <1>2 DEF Handed
  <2>4. QED
    BY <2>2, <2>3
<1>3. Handed /\ [Next]_vars => [Once]_vars
  BY <1>2
<1>4. QED
  BY <1>1, <1>3, InitTypeOK, NextTypeOK, NextHanded, PTL
     DEF Spec, NoEventTwice
=============================================================================
