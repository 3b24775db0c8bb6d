------------------------------- MODULE Polling -------------------------------
(***************************************************************************)
(* The sensor polling scheduler (pollingRTU in sensor.c), its caller in    *)
(* the main loop (app_process_action in app.c), the extraction of status   *)
(* events and the fault LED (faultLEDprocess in modbusTCP.c).              *)
(*                                                                         *)
(* One pass of the main loop serves the TCP masters, polls at most one     *)
(* slot of RTU_fx and then, only while the pause after a poll runs, looks  *)
(* at the polled status words and drives the fault LED.  Timer callbacks   *)
(* end the pause and the TCP guard at any moment; the setting menu turns   *)
(* sensors on and off at any moment, also during a transaction.            *)
(*                                                                         *)
(* Measured values are left out (no decision depends on them), status      *)
(* words are sets of bits.                                                 *)
(***************************************************************************)
EXTENDS Integers, FiniteSets, FiniteSetsExt

CONSTANTS
  Polled,   \* the slots of RTU_fx under study, a subset of 0..15
  Bit,      \* bits of a status word
  LogMask   \* the bits of each status word that light the fault LED

V_VI == 0       A_U_AXIS == 5
V_ST1 == 12     V_ST2 == 13
A_ST1 == 14     A_ST2 == 15

Status == Polled \cap {V_ST1, V_ST2, A_ST1, A_ST2}
Config == Polled \cap 0..5      \* slots with a flag in mSensorConfig.cfg
Lead   == Polled \cap {V_VI, A_U_AXIS}

ASSUME PolledAssumption ==
  /\ Polled \subseteq 0..15 /\ Polled # {}
  /\ V_VI \in Polled \/ Status \cap {V_ST1, V_ST2} = {}
  /\ A_U_AXIS \in Polled \/ Status \cap {A_ST1, A_ST2} = {}
  /\ LogMask \in [Status -> SUBSET Bit]

VARIABLES
  cfg,               \* mSensorConfig.cfg: the sensors the user turned on
  answers,           \* environment: the sensors that answer
  status,            \* environment: the status words they would report
  di,                \* environment: a digital input is active
  pc,                \* where the main loop is
  sequence,          \* the slot polled next
  busy,              \* the pause after a poll (sensorPollTimer) runs
  tcpPollBusy,       \* the guard after a TCP request (tcpPollGuardTimer) runs
  value,             \* RTU_fx[].value >> 16 of the status slots
  unitStatusPollDone,
  modbus_comm_flag,  \* the bits of modbus_comm_flag that are set
  mMaskedEventData,
  mUnitStatus,       \* the status words the event log knows of
  handed,            \* the bits the last event pass handed to the event log
  faultLed

env  == <<cfg, answers, status, di>>
main == <<pc, sequence, value, unitStatusPollDone, modbus_comm_flag,
          mMaskedEventData, mUnitStatus, handed, faultLed>>
vars == <<cfg, answers, status, di, pc, sequence, busy, tcpPollBusy, value,
          unitStatusPollDone, modbus_comm_flag, mMaskedEventData,
          mUnitStatus, handed, faultLed>>

TypeOK ==
  /\ cfg \in [Config -> BOOLEAN]
  /\ answers \in [Lead -> BOOLEAN]
  /\ status \in [Status -> SUBSET Bit]
  /\ di \in BOOLEAN
  /\ pc \in {"tcp", "poll", "wait", "event"}
  /\ sequence \in Polled
  /\ busy \in BOOLEAN /\ tcpPollBusy \in BOOLEAN
  /\ value \in [Status -> SUBSET Bit]
  /\ unitStatusPollDone \in [Status -> BOOLEAN]
  /\ modbus_comm_flag \subseteq {1, 2}
  /\ mMaskedEventData \in [Status -> SUBSET Bit]
  /\ mUnitStatus \in [Status -> SUBSET Bit]
  /\ handed \in [Status -> SUBSET Bit]
  /\ faultLed \in BOOLEAN

-----------------------------------------------------------------------------
(* getSensorConfigForPollingAndDisplay: the VI setting governs the other   *)
(* VICONOX readings, the U-axis setting those of the AIRFLOW.              *)
Sensor(s) == IF s \in {0, 1, 2, 3, 4, 6, 7, 12, 13} THEN V_VI ELSE A_U_AXIS
Flag(s) == cfg[IF s <= 5 THEN s ELSE Sensor(s)]
MaskedAfterConfig ==
  [s \in Status |-> IF cfg[Sensor(s)] THEN mMaskedEventData[s] ELSE {}]

\* Definitions named "Wrong..." are variants with one mistake each; the
\* properties are seen to fail when one of them replaces the definition
\* that follows it.
WrongModulo == IF sequence >= Max(Polled \ {Max(Polled)}) THEN Min(Polled)
               ELSE Min({s \in Polled : s > sequence})

NextSlot == IF sequence = Max(Polled) THEN Min(Polled)
            ELSE Min({s \in Polled : s > sequence})

CommBit(lead) == IF lead = V_VI THEN 1 ELSE 2

WrongBitCleared(lead) == 32

(* The bit cleared when the slot that checks a sensor's communication is   *)
(* found turned off: 0x01 for the VICONOX, but 0x20 for the AIRFLOW.       *)
BitClearedWhenOff(lead) == IF lead = V_VI THEN 1 ELSE 32

Init ==
  /\ cfg \in [Config -> BOOLEAN]
  /\ answers \in [Lead -> BOOLEAN]
  /\ status = [s \in Status |-> {}]
  /\ di = FALSE
  /\ pc = "tcp"
  /\ sequence = Min(Polled)
  /\ busy = FALSE /\ tcpPollBusy = FALSE
  /\ value = [s \in Status |-> {}]
  /\ unitStatusPollDone = [s \in Status |-> FALSE]
  /\ modbus_comm_flag = {}
  /\ mMaskedEventData = [s \in Status |-> {}]
  /\ mUnitStatus \in [Status -> SUBSET Bit]   \* from the log, at power-up
  /\ handed = [s \in Status |-> {}]
  /\ faultLed = FALSE

-----------------------------------------------------------------------------
(* The main loop.                                                          *)

(* receiveModbusTcpServer: a request, when there is one, starts the guard. *)
ServeTcp(request) ==
  /\ pc = "tcp"
  /\ pc' = "poll"
  /\ tcpPollBusy' = (tcpPollBusy \/ request)
  /\ UNCHANGED <<env, busy, sequence, value, unitStatusPollDone,
                 modbus_comm_flag, mMaskedEventData, mUnitStatus, handed,
                 faultLed>>

(* The guard or the pause keeps pollingRTU from doing anything.            *)
PollNothing ==
  /\ pc = "poll"
  /\ tcpPollBusy \/ busy
  /\ pc' = "event"
  /\ UNCHANGED <<env, busy, tcpPollBusy, sequence, value, unitStatusPollDone,
                 modbus_comm_flag, mMaskedEventData, mUnitStatus, handed,
                 faultLed>>

(* The slot is turned off: its value reads zero, the next one is polled    *)
(* without a pause.                                                        *)
PollTurnedOff ==
  /\ pc = "poll" /\ ~tcpPollBusy /\ ~busy
  /\ ~Flag(sequence)
  /\ mMaskedEventData' = MaskedAfterConfig
  /\ value' = [s \in Status |-> IF s = sequence THEN {} ELSE value[s]]
  /\ modbus_comm_flag' = IF sequence \in Lead
                         THEN modbus_comm_flag \ {BitClearedWhenOff(sequence)}
                         ELSE modbus_comm_flag
  /\ sequence' = NextSlot
  /\ pc' = "event"
  /\ UNCHANGED <<env, busy, tcpPollBusy, unitStatusPollDone, mUnitStatus,
                 handed, faultLed>>

(* readSensor sends its request and waits for the answer or the timeout.   *)
PollRequest ==
  /\ pc = "poll" /\ ~tcpPollBusy /\ ~busy
  /\ Flag(sequence)
  /\ mMaskedEventData' = MaskedAfterConfig
  /\ pc' = "wait"
  /\ UNCHANGED <<env, busy, tcpPollBusy, sequence, value, unitStatusPollDone,
                 modbus_comm_flag, mUnitStatus, handed, faultLed>>

WrongPollDone == unitStatusPollDone
PollDone == [s \in Status |-> s = sequence \/ unitStatusPollDone[s]]

(* The answer is stored even if the slot was turned off meanwhile.         *)
PollAnswer ==
  /\ pc = "wait" /\ answers[Sensor(sequence)]
  /\ modbus_comm_flag' = IF sequence \in Lead
                         THEN modbus_comm_flag \ {CommBit(sequence)}
                         ELSE modbus_comm_flag
  /\ value' = [s \in Status |-> IF s = sequence THEN status[s] ELSE value[s]]
  /\ unitStatusPollDone' = PollDone
  /\ busy' = TRUE
  /\ sequence' = NextSlot
  /\ pc' = "event"
  /\ UNCHANGED <<env, tcpPollBusy, mMaskedEventData, mUnitStatus, handed,
                 faultLed>>

(* No valid answer: a status word keeps its old value.                     *)
PollFailure ==
  /\ pc = "wait" /\ ~answers[Sensor(sequence)]
  /\ modbus_comm_flag' = IF sequence \in Lead
                         THEN modbus_comm_flag \cup {CommBit(sequence)}
                         ELSE modbus_comm_flag
  /\ busy' = TRUE
  /\ sequence' = NextSlot
  /\ pc' = "event"
  /\ UNCHANGED <<env, tcpPollBusy, value, unitStatusPollDone,
                 mMaskedEventData, mUnitStatus, handed, faultLed>>

WrongExtractEvent(prev, new) == new

(* extractEvent: the bits that were clear and are set now.                 *)
ExtractEvent(prev, new) == new \ prev

WrongFault(masked) == (\E s \in Status : masked[s] # {}) \/ di

(* faultLEDprocess: what lights the LED.                                   *)
Fault(masked) ==
  (\E s \in Status : masked[s] # {}) \/ modbus_comm_flag # {} \/ di

(* The rest of app_process_action, only while the pause runs, and on every *)
(* pass while it does: compare the status words with what the log knows of *)
(* (a difference is an event saveEventLogData is called with), then        *)
(* faultLEDprocess.                                                        *)
ProcessEvents ==
  /\ pc = "event" /\ busy
  /\ mMaskedEventData' =
       [s \in Status |-> IF unitStatusPollDone[s]
                         THEN value[s] \cap LogMask[s] ELSE {}]
  /\ handed' = [s \in Status |-> IF unitStatusPollDone[s]
                                 THEN ExtractEvent(mUnitStatus[s], value[s])
                                 ELSE {}]
  /\ mUnitStatus' = [s \in Status |-> IF unitStatusPollDone[s]
                                      THEN value[s] ELSE mUnitStatus[s]]
  /\ faultLed' = Fault(mMaskedEventData')
  /\ pc' = "tcp"
  /\ UNCHANGED <<env, busy, tcpPollBusy, sequence, value, unitStatusPollDone,
                 modbus_comm_flag>>

SkipEvents ==
  /\ pc = "event" /\ ~busy
  /\ pc' = "tcp"
  /\ UNCHANGED <<env, busy, tcpPollBusy, sequence, value, unitStatusPollDone,
                 modbus_comm_flag, mMaskedEventData, mUnitStatus, handed,
                 faultLed>>

-----------------------------------------------------------------------------
(* timerCallBack.                                                          *)
SensorPollTimer == busy /\ busy' = FALSE /\ UNCHANGED <<env, tcpPollBusy, main>>
TcpPollGuardTimer ==
  tcpPollBusy /\ tcpPollBusy' = FALSE /\ UNCHANGED <<env, busy, main>>

(* The setting menu, in the timer interrupt, toggles a sensor.             *)
ToggleSensor(c) ==
  /\ cfg' = [cfg EXCEPT ![c] = ~@]
  /\ UNCHANGED <<answers, status, di, busy, tcpPollBusy, main>>

(* ENTER in the setting menu: loadSystemConfig applies the settings.       *)
ApplyConfig ==
  /\ mMaskedEventData' = MaskedAfterConfig
  /\ UNCHANGED <<env, pc, sequence, busy, tcpPollBusy, value,
                 unitStatusPollDone, modbus_comm_flag, mUnitStatus, handed,
                 faultLed>>

(* The plant.                                                              *)
LinkChanges(l) ==
  /\ answers' = [answers EXCEPT ![l] = ~@]
  /\ UNCHANGED <<cfg, status, di, busy, tcpPollBusy, main>>
StatusChanges(s, b) ==
  /\ status' = [status EXCEPT ![s] = IF b \in @ THEN @ \ {b} ELSE @ \cup {b}]
  /\ UNCHANGED <<cfg, answers, di, busy, tcpPollBusy, main>>
InputChanges ==
  /\ di' = ~di
  /\ UNCHANGED <<cfg, answers, status, busy, tcpPollBusy, main>>

Environment == \/ \E c \in Config : ToggleSensor(c)
               \/ ApplyConfig
               \/ \E l \in Lead : LinkChanges(l)
               \/ \E s \in Status, b \in Bit : StatusChanges(s, b)
               \/ InputChanges

AnyTcp == \E request \in BOOLEAN : ServeTcp(request)
Poll == PollNothing \/ PollTurnedOff \/ PollRequest \/ PollAnswer \/ PollFailure
Timers == SensorPollTimer \/ TcpPollGuardTimer

Next == AnyTcp \/ Poll \/ ProcessEvents \/ SkipEvents \/ Timers \/ Environment

(* The main loop is a super-loop and never waits, running timers expire.   *)
(* A pass takes a few milliseconds and the pause 20 or 100, so the pause   *)
(* cannot end before the event section each time: strong fairness.         *)
Fairness ==
  /\ WF_vars(AnyTcp) /\ WF_vars(Poll) /\ WF_vars(SkipEvents)
  /\ SF_vars(ProcessEvents)
  /\ WF_vars(SensorPollTimer) /\ WF_vars(TcpPollGuardTimer)

Spec == Init /\ [][Next]_vars
FairSpec == Spec /\ Fairness

-----------------------------------------------------------------------------
(* Properties.  All of them are about units whose TCP masters leave a gap: *)
(* a master that sends a request within every guard time keeps pollingRTU  *)
(* from running at all.                                                    *)
TcpQuiet == <>[](~tcpPollBusy)

On(l)      == cfg[l]
Alarm(l)   == \E s \in Status : Sensor(s) = l /\ status[s] \cap LogMask[s] # {}
Healthy(l) == answers[l] /\ ~Alarm(l)
Settled    == \A l \in Lead : <>[]On(l) \/ <>[]~On(l)

(* No slot is starved: neither a dead sensor nor one that is turned off    *)
(* keeps the scheduler from the others.                                    *)
RoundRobin == TcpQuiet => \A s \in Polled : []<>(sequence = s)

(* A sensor that is on and stays dead, one that stays in alarm, and an     *)
(* active input with some sensor on, end up with the fault LED lit and     *)
(* it stays lit: the clearing of the masks at every poll and at every      *)
(* pass never leaves it dark.                                              *)
FaultLit ==
  \A l \in Lead :
    /\ TcpQuiet /\ <>[](On(l) /\ ~answers[l]) => <>[]faultLed
    /\ TcpQuiet /\ <>[](On(l) /\ answers[l] /\ Alarm(l)) => <>[]faultLed
    /\ TcpQuiet /\ <>[](On(l) /\ di) => <>[]faultLed

(* When the settings stay and every sensor is healthy or turned off, at    *)
(* least one is on, the AIRFLOW is not turned off and no input is active,  *)
(* the fault LED goes dark and stays dark, however it was lit before and   *)
(* whatever transaction a sensor was turned off in.                        *)
FaultReleased ==
  TcpQuiet /\ Settled
           /\ <>[](/\ ~di
                   /\ \E l \in Lead : On(l)
                   /\ \A l \in Lead : On(l) => Healthy(l)
                   /\ A_U_AXIS \in Lead => On(A_U_AXIS))
    => <>[]~faultLed

(* A bit that a polled status word shows reaches the event log's picture   *)
(* of the unit, unless the status word is polled again without it.         *)
BitNoticed ==
  TcpQuiet =>
    \A s \in Status, b \in Bit :
      (b \in value[s]) ~> (b \in mUnitStatus[s] \/ b \notin value[s])

(* The event section runs on many passes of one pause, with the same       *)
(* values: none but the first hands a bit to the event log.                *)
NoEventTwice ==
  [][pc = "event" /\ pc' = "tcp" /\ busy =>
       \A s \in Status : handed[s] \cap handed'[s] = {}]_vars

(* Turning the AIRFLOW off takes its communication fault off the LED, as   *)
(* getSensorConfigForPollingAndDisplay does with its status words.         *)
AirflowFaultReleased ==
  TcpQuiet /\ Settled
           /\ <>[](~di /\ On(V_VI) /\ Healthy(V_VI) /\ ~On(A_U_AXIS))
    => <>[]~faultLed
=============================================================================
