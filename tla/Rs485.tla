-------------------------------- MODULE Rs485 --------------------------------
(***************************************************************************)
(* The Modbus RTU master of the SIU-01 (rs485.c) and the three that use    *)
(* it: the polling of the sensors (sensor.c), the bypass of requests of    *)
(* the TCP masters and the measuring commands of Bluetooth (app.c).        *)
(*                                                                         *)
(* A transaction empties the receive buffer, sends its request, waits for  *)
(* as many bytes as it has sent, its echo, starts the timeout timer and    *)
(* takes bytes until an answer of the addressed sensor is complete, its    *)
(* CRC is wrong, or the timeout flag is set.  Nothing in an answer names   *)
(* the register it belongs to.  The timers are one-shot timers of the SDK, *)
(* where starting a timer that runs has no effect.                         *)
(*                                                                         *)
(* Time is counted in ticks; sending and a whole echo take none.  Answers  *)
(* are whole frames; a "sensor" is a slave address with a function code.   *)
(* Frame has the bytes.                                                    *)
(***************************************************************************)
EXTENDS Integers, FiniteSets

CONSTANTS
  Sensor,          \* what can be asked
  Register,        \* the registers of each
  Master,          \* TCP masters whose requests are passed on
  Patient,         \* no master asks while the guard of a request runs
  Timeout,         \* MODBUS_TIMEOUT
  PollingTime,     \* SENSOR_POLLING_TIME, the pause after an answer
  FailureTime,     \* SENSOR_POLLING_TIME / 5, the pause after a failure
  GuardTime,       \* TCP_POLL_GUARD_TIME
  MaxLatency       \* a sensor answers within this time, or not at all

ASSUME TimeAssumption ==
  /\ Timeout \in Nat \ {0} /\ MaxLatency \in Nat /\ MaxLatency < Timeout
  /\ PollingTime \in Nat /\ PollingTime >= Timeout
  /\ GuardTime \in Nat /\ GuardTime >= Timeout
  /\ FailureTime \in 1..PollingTime
  /\ Patient \in BOOLEAN
ASSUME PollAssumption == {"poll", "command"} \cap Master = {}

VARIABLES
  request,   \* the last request: who asks which register of which sensor
  waiting,   \* readSensor, or the like of it, has not returned yet
  missing,   \* rs485Send still waits for bytes of the echo
  timer,     \* rs485time.timer: ticks left, 0 when it does not run
  timeout,   \* rs485time.timeout
  line,      \* answers that are still to come
  rx,        \* the receive buffer
  astray,    \* the receiver is in something it takes for a frame
  pause,     \* sensorPollTimer: ticks left, 0 when busy is clear
  guard,     \* tcpPollGuardTimer: ticks left, 0 when tcpPollBusy is clear
  outcome,   \* how the last transaction ended
  got,       \* the register whose value the requester was given
  waited,    \* history: how long it has received, up to Timeout
  silent,    \* history: the sensor does not answer this request
  clean      \* history: no answer has been damaged or taken for an echo
             \* and no measuring command has come so far

vars == <<request, waiting, missing, timer, timeout, line, rx, astray, pause,
          guard, outcome, got, waited, silent, clean>>

Request == [from : Master \cup {"poll", "command"}, sensor : Sensor, register : Register]

TypeOK ==
  /\ request \in Request
  /\ waiting \in BOOLEAN
  /\ missing \in BOOLEAN
  /\ timer \in 0..Timeout
  /\ timeout \in BOOLEAN
  /\ line \subseteq [sensor : Sensor, register : Register, due : 1..MaxLatency]
  /\ rx \subseteq [sensor : Sensor, register : Register, good : BOOLEAN]
  /\ astray \in BOOLEAN
  /\ pause \in 0..PollingTime
  /\ guard \in 0..GuardTime
  /\ outcome \in {"none", "answer", "timeout", "crc"}
  /\ got \in Register
  /\ waited \in 0..Timeout
  /\ silent \in BOOLEAN
  /\ clean \in BOOLEAN

-----------------------------------------------------------------------------
\* Definitions named "Wrong..." are variants with one mistake each; the
\* properties are seen to fail when one of them replaces the definition
\* that follows it.

(* sl_sleeptimer_start_timer: a timer that runs is left alone.             *)
StartTimer(left, ticks) == IF left = 0 THEN ticks ELSE left

Init ==
  /\ request \in Request
  /\ waiting = FALSE /\ missing = FALSE
  /\ timer = 0 /\ timeout = FALSE
  /\ line = {} /\ rx = {} /\ astray = FALSE
  /\ pause = 0 /\ guard = 0
  /\ outcome = "none"
  /\ got = request.register
  /\ waited = 0 /\ silent = FALSE /\ clean = TRUE

WrongKickOff ==        \* the flag of the last transaction stays set
  /\ timeout' = timeout
  /\ timer' = StartTimer(timer, Timeout)
WrongNoTimer ==        \* the timer is not started
  /\ timeout' = FALSE
  /\ timer' = timer

(* kickOffTimeout                                                          *)
KickOff ==
  /\ timeout' = FALSE
  /\ timer' = StartTimer(timer, Timeout)

(* readSensor: rs485Send empties the buffer and sends, and when the echo   *)
(* is there the timeout is started.  Bytes of the echo may be missing; the *)
(* flag and the timer of the last transaction stay as they are then.  The  *)
(* sensor answers after l ticks, or never.                                 *)
Send(r) ==
  /\ ~waiting
  /\ waiting' = TRUE
  /\ request' = r
  /\ rx' = {} /\ astray' = FALSE
  /\ \/ /\ silent' = TRUE
        /\ UNCHANGED line
     \/ \E l \in 1..MaxLatency :
          /\ silent' = FALSE
          /\ line' = line \cup
               {[sensor |-> r.sensor, register |-> r.register, due |-> l]}
  /\ \/ missing' = FALSE /\ KickOff
     \/ missing' = TRUE /\ UNCHANGED <<timer, timeout>>
  /\ waited' = 0
  /\ UNCHANGED <<pause, guard, outcome, got>>

(* pollingRTU, called by the main loop while the guard does not run        *)
Poll ==
  /\ pause = 0 /\ guard = 0
  /\ \E r \in Request : r.from = "poll" /\ Send(r)
  /\ UNCHANGED clean

(* TcpReceiveAndReply, for an address other than that of the unit          *)
Bypass ==
  /\ Patient => guard = 0
  /\ \E r \in Request : r.from \in Master /\ Send(r)
  /\ UNCHANGED clean

(* parse_cmd, for VI, CO, NO, VELOCITY and the others that measure: it     *)
(* looks at neither pause nor guard, and leaves none.                      *)
Command ==
  /\ \E r \in Request : r.from = "command" /\ Send(r)
  /\ clean' = FALSE

(* TcpReceiveAndReply for the unit itself: only the guard is started       *)
OwnRequest ==
  /\ ~waiting /\ Master # {}
  /\ Patient => guard = 0
  /\ guard' = StartTimer(guard, GuardTime)
  /\ UNCHANGED <<request, waiting, missing, timer, timeout, line, rx, astray,
                 pause, outcome, got, waited, silent, clean>>

Paused(how) ==
  request.from = "poll" /\ pause' = IF how = "answer" THEN PollingTime ELSE FailureTime

WrongFinish(how) ==    \* a bypass does not start the guard
  /\ waiting' = FALSE
  /\ outcome' = how
  /\ \/ Paused(how)
     \/ request.from # "poll" /\ UNCHANGED pause
  /\ UNCHANGED guard

(* The return to the requester: pollingRTU pauses, the server starts the   *)
(* guard whether or not there is something to reply.                       *)
Finish(how) ==
  /\ waiting' = FALSE
  /\ outcome' = how
  /\ \/ Paused(how) /\ UNCHANGED guard
     \/ /\ request.from \in Master
        /\ guard' = StartTimer(guard, GuardTime) /\ UNCHANGED pause
     \/ request.from = "command" /\ UNCHANGED <<pause, guard>>

(* flushrs485Buffer takes any byte for one of the echo and waits without a *)
(* timeout: an answer that comes goes into it as a whole...                *)
EchoShort ==
  /\ missing
  /\ \E f \in rx : rx' = rx \ {f}
  /\ clean' = FALSE
  /\ UNCHANGED <<request, waiting, missing, timer, timeout, line, astray, pause,
                 guard, outcome, got, waited, silent>>

(* ...or its first bytes complete the echo, and what remains of it, if     *)
(* anything, is no answer.                                                 *)
EchoFilled ==
  /\ missing
  /\ missing' = FALSE
  /\ \E f \in rx : rx' \in {rx \ {f}, (rx \ {f}) \cup {[f EXCEPT !.good = FALSE]}}
  /\ KickOff
  /\ waited' = 0
  /\ clean' = FALSE
  /\ UNCHANGED <<request, waiting, line, astray, pause, guard, outcome, got, silent>>

(* The receiver looks for the address and the function code it asked.      *)
Mine(f) == f.sensor = request.sensor
Whole(f) == Mine(f) /\ f.good /\ ~astray
Receiving == waiting /\ ~missing

(* receiveModbusResponse passes over any other frame, or finds address and *)
(* function code in the middle of it and takes what follows for an answer, *)
(* the real one included...                                                *)
SkipFrame ==
  /\ Receiving
  /\ \E f \in rx : ~Whole(f) /\ rx' = rx \ {f}
  /\ astray' \in {astray, TRUE}
  /\ UNCHANGED <<request, waiting, missing, timer, timeout, line, pause, guard,
                 outcome, got, waited, silent, clean>>

(* ...completes an answer of the sensor it asked...                        *)
Answer ==
  /\ Receiving
  /\ \E f \in rx :
       /\ Whole(f)
       /\ rx' = rx \ {f}
       /\ got' = f.register
  /\ Finish("answer")
  /\ UNCHANGED <<request, missing, timer, timeout, line, astray, waited, silent,
                 clean>>

(* ...gives up when the CRC is wrong, leaving the timer as it is...        *)
CrcError ==
  /\ Receiving
  /\ \E f \in rx : ~Whole(f)
  /\ rx' = {}
  /\ Finish("crc")
  /\ UNCHANGED <<request, missing, timer, timeout, line, astray, got, waited,
                 silent, clean>>

(* ...and looks at the flag after every byte, so the timeout may win over  *)
(* an answer that is complete in the same tick.                            *)
TimedOut ==
  /\ Receiving /\ timeout
  /\ rx' = {}
  /\ Finish("timeout")
  /\ UNCHANGED <<request, missing, timer, timeout, line, astray, got, waited,
                 silent, clean>>

OneLess(left) == IF left = 0 THEN 0 ELSE left - 1

Arriving == {a \in line : a.due = 1}

(* Time passes: bytes arrive and the timers run.  The receiver is fast: it *)
(* has dealt with what there is before the next tick.                      *)
Tick ==
  /\ ~(Receiving /\ timeout) /\ ~(waiting /\ rx # {})
  /\ timer' = OneLess(timer)
  /\ timeout' = (timeout \/ timer = 1)
  /\ pause' = OneLess(pause)
  /\ guard' = OneLess(guard)
  /\ waited' = IF Receiving /\ waited < Timeout THEN waited + 1 ELSE waited
  /\ line' = {[a EXCEPT !.due = @ - 1] : a \in line \ Arriving}
  /\ \E damaged \in SUBSET Arriving :
       /\ clean' = (clean /\ damaged = {})
       /\ rx' = rx \cup
            {[sensor |-> a.sensor, register |-> a.register,
              good |-> a \notin damaged] : a \in Arriving}
  /\ UNCHANGED <<request, waiting, missing, astray, outcome, got, silent>>

Receive == EchoShort \/ EchoFilled \/ SkipFrame \/ Answer \/ CrcError \/ TimedOut
Next == Poll \/ Bypass \/ Command \/ OwnRequest \/ Receive \/ Tick

(* The receiver and the main loop run whenever they can, and time passes.  *)
Fairness == WF_vars(Receive) /\ WF_vars(Tick) /\ WF_vars(Poll)
Spec == Init /\ [][Next]_vars /\ Fairness

-----------------------------------------------------------------------------
(* What a requester is given is the register it asked for, as long as no   *)
(* answer has been damaged or taken for an echo and no measuring command   *)
(* has come (receiveModbusResponse matches only address and function code; *)
(* a wrong CRC, and a command after the end of another transaction, leave  *)
(* a timer running or an answer on its way).                               *)
AnswerBelongs ==
  clean /\ ~waiting /\ outcome = "answer" => got = request.register

(* The polling counts a sensor as failed only when it did not answer: the  *)
(* timeout of a poll is never cut short by what others did on the line.    *)
PollFaultReal ==
  clean /\ ~waiting /\ outcome = "timeout" /\ request.from = "poll" => silent

(* rs485Send waits for an echo, and nothing is on its way to complete it.  *)
EchoLost == missing /\ line = {} /\ rx = {}

(* readSensor, which the main loop waits for, returns whatever the sensors *)
(* and the masters do, unless bytes of its echo are lost and nothing else  *)
(* comes in their place (flushrs485Buffer has no timeout, the receiver     *)
(* has).  And once the masters are quiet, dead sensors and damaged answers *)
(* never end the polling (pollingRTU leaves a pause running after every    *)
(* transaction and the guard ends by itself): a request is sent again and  *)
(* again, as long as its echo comes.                                       *)
PollingGoesOn ==
  /\ waiting ~> ~waiting \/ EchoLost
  /\ <>[](request.from = "poll" /\ guard = 0 /\ ~EchoLost) => []<>waiting
=============================================================================
